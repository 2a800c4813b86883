----------------------------- MODULE UsbLibusb -----------------------------
(***************************************************************************)
(* USB devices of the adb server over libusb on Linux                      *)
(* (client/usb_libusb.cpp): the hotplug callback and its queue, the        *)
(* hotplug thread, a thread for every device that arrives, the transport's *)
(* read and write threads with one libusb transfer each, and the mutexes   *)
(* usb_handles_mutex and transport_lock.                                   *)
(*                                                                         *)
(* A device gets a new address whenever it is plugged in, so a device, its *)
(* address, its usb_handle and its atransport are named by one number.     *)
(* What libusb does is modelled from how the code uses it: a transfer that *)
(* is cancelled, or whose device is gone, ends with an error.              *)
(***************************************************************************)
EXTENDS Integers, Sequences

CONSTANTS
  LbDevices,  \* the devices ever plugged in, numbered in that order
  LbReadOnly, \* the devices the server cannot open
  LbNobody,   \* no device
  LbMaxKicks  \* bound on the kicks asked for by a client (adb reconnect)

ASSUME UsbLibusbAssumption ==
  /\ LbDevices \subseteq Nat /\ LbNobody \in Nat \ LbDevices
  /\ LbReadOnly \subseteq LbDevices
  /\ LbMaxKicks \in Nat

VARIABLES
  lbDev,    \* the devices: not plugged in yet, there and how accessible, unplugged
  lbQueue,  \* hotplug_queue
  lbCount,  \* connecting_devices
  lbScan,   \* device_scan_complete
  lbProc,   \* the thread that runs process_device for each device
  lbH,      \* the usb_handle of each device, and its transport
  lbRd,     \* the read thread of each transport
  lbWr,     \* its write thread
  lbHot,    \* the device hotplug_thread is unregistering
  lbMain,   \* the transport the main thread is kicking
  lbG,      \* usb_handles_mutex is held
  lbTL,     \* transport_lock is held
  lbKicks,  \* kicks asked for by a client so far
  lbUp      \* the server has not aborted

lbVars == <<lbDev, lbQueue, lbCount, lbScan, lbProc, lbH, lbRd, lbWr, lbHot,
            lbMain, lbG, lbTL, lbKicks, lbUp>>

LbTransferState == {"idle", "flying", "ok", "failed"}

\* place: of the usb_handle, in usb_handles or not.
\* open: device_handle is not null.
\* in, out: the transfers of usb_read and usb_write.
LbHandle ==
  [place : {"none", "map", "deleted"}, writable : BOOLEAN, open : BOOLEAN,
   tr : {"none", "pending", "listed", "gone"}, kicked : BOOLEAN, refs : 0..2,
   in : LbTransferState, out : LbTransferState]

LbNew ==
  [place |-> "none", writable |-> FALSE, open |-> FALSE, tr |-> "none",
   kicked |-> FALSE, refs |-> 0, in |-> "idle", out |-> "idle"]

LbThreadPc == {"none", "idle", "wait", "kick", "kicking", "unref", "over"}

UsbLibusbTypeOK ==
  /\ lbDev \in [LbDevices -> {"new", "rw", "ro", "left"}]
  /\ lbQueue \in Seq({"arrived", "left"} \X LbDevices)
  /\ lbCount \in Nat /\ lbScan \in BOOLEAN
  /\ lbProc \in [LbDevices -> {"none", "sleep", "open", "insert", "register", "over"}]
  /\ lbH \in [LbDevices -> LbHandle]
  /\ lbRd \in [LbDevices -> LbThreadPc] /\ lbWr \in [LbDevices -> LbThreadPc]
  /\ lbHot \in LbDevices \cup {LbNobody} /\ lbMain \in LbDevices \cup {LbNobody}
  /\ lbG \in BOOLEAN /\ lbTL \in BOOLEAN /\ lbUp \in BOOLEAN
  /\ lbKicks \in 0..LbMaxKicks

UsbLibusbInit ==
  /\ lbDev = [d \in LbDevices |-> "new"]
  /\ lbQueue = <<>> /\ lbCount = 0 /\ lbScan = FALSE
  /\ lbProc = [d \in LbDevices |-> "none"]
  /\ lbH = [d \in LbDevices |-> LbNew]
  /\ lbRd = [d \in LbDevices |-> "none"] /\ lbWr = [d \in LbDevices |-> "none"]
  /\ lbHot = LbNobody /\ lbMain = LbNobody
  /\ lbG = FALSE /\ lbTL = FALSE
  /\ lbKicks = 0 /\ lbUp = TRUE

LbPresent(d) == lbDev[d] \in {"rw", "ro"}

LbEnded(transfer) == IF transfer = "flying" THEN "failed" ELSE transfer

-----------------------------------------------------------------------------
(* The bus, hotplug_callback and the transfers *)

\* Addresses are given out in order.
LbPlug(d, access) ==
  /\ d \in LbReadOnly => access = "ro"
  /\ lbDev[d] = "new" /\ \A c \in LbDevices : c < d => lbDev[c] # "new"
  /\ lbDev' = [lbDev EXCEPT ![d] = access]
  /\ lbCount' = lbCount + 1
  /\ lbQueue' = Append(lbQueue, <<"arrived", d>>)
  /\ UNCHANGED <<lbScan, lbProc, lbH, lbRd, lbWr, lbHot, lbMain, lbG, lbTL, lbKicks, lbUp>>

LbUnplug(d) ==
  /\ LbPresent(d)
  /\ lbDev' = [lbDev EXCEPT ![d] = "left"]
  /\ lbQueue' = Append(lbQueue, <<"left", d>>)
  /\ lbH' = [lbH EXCEPT ![d].in = LbEnded(@), ![d].out = LbEnded(@)]
  /\ UNCHANGED <<lbCount, lbScan, lbProc, lbRd, lbWr, lbHot, lbMain, lbG, lbTL, lbKicks, lbUp>>

\* The transfer callback: the device has sent some data, or has taken all
\* of it, the zero-length packet included; or there was an error.
LbTransfer(d, result) ==
  /\ LbPresent(d)
  /\ \/ lbH[d].in = "flying" /\ lbH' = [lbH EXCEPT ![d].in = result]
     \/ lbH[d].out = "flying" /\ lbH' = [lbH EXCEPT ![d].out = result]
  /\ UNCHANGED <<lbDev, lbQueue, lbCount, lbScan, lbProc, lbRd, lbWr, lbHot, lbMain,
                 lbG, lbTL, lbKicks, lbUp>>

-----------------------------------------------------------------------------
(* hotplug_thread *)

\* device_connected: a thread that sleeps for a second.
LbConnected ==
  /\ lbHot = LbNobody /\ lbQueue # <<>> /\ Head(lbQueue)[1] = "arrived"
  /\ lbProc' = [lbProc EXCEPT ![Head(lbQueue)[2]] = "sleep"]
  /\ lbQueue' = Tail(lbQueue)
  /\ UNCHANGED <<lbDev, lbCount, lbScan, lbH, lbRd, lbWr, lbHot, lbMain, lbG, lbTL,
                 lbKicks, lbUp>>

\* device_disconnected: a handle without device_handle is taken for that of
\* a device that was never opened.
LbDisconnected ==
  /\ lbHot = LbNobody /\ lbQueue # <<>> /\ Head(lbQueue)[1] = "left"
  /\ ~lbG
  /\ LET d == Head(lbQueue)[2]
         never == lbH[d].place = "map" /\ ~lbH[d].open
     IN /\ lbHot' = IF never THEN d ELSE LbNobody
        /\ lbG' = never
  /\ lbQueue' = Tail(lbQueue)
  /\ UNCHANGED <<lbDev, lbCount, lbScan, lbProc, lbH, lbRd, lbWr, lbMain, lbTL, lbKicks, lbUp>>

\* unregister_usb_transport, which removes inaccessible devices from
\* transport_list only, and usb_handles.erase.
LbUnregister ==
  /\ lbHot # LbNobody /\ ~lbTL
  /\ lbH' = [lbH EXCEPT
       ![lbHot].place = "deleted",
       ![lbHot].tr = IF @ = "listed" /\ ~lbH[lbHot].writable THEN "gone" ELSE @]
  /\ lbHot' = LbNobody /\ lbG' = FALSE
  /\ UNCHANGED <<lbDev, lbQueue, lbCount, lbScan, lbProc, lbRd, lbWr, lbMain, lbTL,
                 lbKicks, lbUp>>

-----------------------------------------------------------------------------
(* The thread of an arrived device: process_device *)

\* The last of the devices being connected completes the scan.
LbProcessed(d) ==
  /\ lbProc' = [lbProc EXCEPT ![d] = "over"]
  /\ lbCount' = lbCount - 1
  /\ lbScan' = (lbScan \/ lbCount = 1)

\* The descriptors are read and an adb interface is found ...
LbDescribe(d) ==
  /\ lbProc[d] = "sleep"
  /\ LbPresent(d)
  /\ ~lbG
  /\ lbH[d].place # "map"
  /\ lbProc' = [lbProc EXCEPT ![d] = "open"]
  /\ UNCHANGED <<lbDev, lbQueue, lbCount, lbScan, lbH, lbRd, lbWr, lbHot, lbMain, lbG,
                 lbTL, lbKicks, lbUp>>

\* ... or they cannot be read, there is none, or an opened device has no
\* serial number or its interface cannot be claimed or cleared.
LbReject(d) ==
  /\ lbProc[d] = "sleep" \/ (lbProc[d] = "open" /\ lbDev[d] # "ro")
  /\ LbProcessed(d)
  /\ UNCHANGED <<lbDev, lbQueue, lbH, lbRd, lbWr, lbHot, lbMain, lbG, lbTL, lbKicks, lbUp>>

\* libusb_open: what cannot be opened is registered as not writable.
LbOpen(d) ==
  /\ lbProc[d] = "open"
  /\ lbH' = [lbH EXCEPT ![d].open = (lbDev[d] = "rw"), ![d].writable = (lbDev[d] = "rw")]
  /\ lbProc' = [lbProc EXCEPT ![d] = "insert"]
  /\ UNCHANGED <<lbDev, lbQueue, lbCount, lbScan, lbRd, lbWr, lbHot, lbMain, lbG, lbTL,
                 lbKicks, lbUp>>

LbInsert(d) ==
  /\ lbProc[d] = "insert" /\ ~lbG
  /\ lbG' = TRUE
  /\ lbH' = [lbH EXCEPT ![d].place = "map"]
  /\ lbProc' = [lbProc EXCEPT ![d] = "register"]
  /\ UNCHANGED <<lbDev, lbQueue, lbCount, lbScan, lbRd, lbWr, lbHot, lbMain, lbTL, lbKicks, lbUp>>

\* register_usb_transport, with usb_handles_mutex in hand.
LbRegister(d) ==
  /\ lbProc[d] = "register" /\ ~lbTL
  /\ lbH' = [lbH EXCEPT ![d].tr = "pending"]
  /\ lbG' = FALSE
  /\ LbProcessed(d)
  /\ UNCHANGED <<lbDev, lbQueue, lbRd, lbWr, lbHot, lbMain, lbTL, lbKicks, lbUp>>

-----------------------------------------------------------------------------
(* The main thread *)

\* transport_registration_func: an accessible device gets its threads.
LbList(d) ==
  /\ lbMain = LbNobody /\ ~lbTL
  /\ lbH[d].tr = "pending"
  /\ lbH' = [lbH EXCEPT ![d].tr = "listed", ![d].refs = IF lbH[d].writable THEN 2 ELSE 0]
  /\ lbRd' = [lbRd EXCEPT ![d] = IF lbH[d].writable THEN "idle" ELSE @]
  /\ lbWr' = [lbWr EXCEPT ![d] = IF lbH[d].writable THEN "idle" ELSE @]
  /\ UNCHANGED <<lbDev, lbQueue, lbCount, lbScan, lbProc, lbHot, lbMain, lbG, lbTL,
                 lbKicks, lbUp>>

\* The same for the "remove" message.
LbRemove(d) ==
  /\ lbMain = LbNobody /\ ~lbTL
  /\ lbH[d].tr = "listed" /\ lbRd[d] = "over" /\ lbWr[d] = "over"
  /\ lbH' = [lbH EXCEPT ![d].tr = "gone"]
  /\ UNCHANGED <<lbDev, lbQueue, lbCount, lbScan, lbProc, lbRd, lbWr, lbHot, lbMain, lbG,
                 lbTL, lbKicks, lbUp>>

\* kick_transport goes on to Kick.
LbWillKick(d) == lbH[d].tr = "listed" /\ ~lbH[d].kicked

\* adb reconnect: an inaccessible device is never acquired.
LbReconnect(d) ==
  /\ lbMain = LbNobody /\ ~lbTL
  /\ lbKicks < LbMaxKicks
  /\ lbH[d].writable /\ LbWillKick(d)
  /\ lbKicks' = lbKicks + 1
  /\ lbTL' = TRUE
  /\ lbMain' = d
  /\ lbH' = [lbH EXCEPT ![d].kicked = TRUE]
  /\ UNCHANGED <<lbDev, lbQueue, lbCount, lbScan, lbProc, lbRd, lbWr, lbHot, lbG, lbUp>>

\* Mutant: the transfers under way are not cancelled.
LbClose_Keep(r) == [r EXCEPT !.open = FALSE]

\* usb_handle::Close
LbClose(r) ==
  IF r.open THEN [r EXCEPT !.open = FALSE, !.in = LbEnded(@), !.out = LbEnded(@)] ELSE r

\* Kick waits for write_msg_lock_, which the write thread holds in usb_write.
LbKicking ==
  /\ lbMain # LbNobody /\ lbWr[lbMain] # "wait"
  /\ lbH' = [lbH EXCEPT ![lbMain] = LbClose(@)]
  /\ lbMain' = LbNobody
  /\ lbTL' = FALSE
  /\ UNCHANGED <<lbDev, lbQueue, lbCount, lbScan, lbProc, lbRd, lbWr, lbHot, lbG, lbKicks, lbUp>>

-----------------------------------------------------------------------------
(* The threads of a transport: usb_read, usb_write, perform_usb_transfer *)

\* The transfer is submitted unless the handle was closed or the device is gone.
LbSubmits(d) == lbH[d].open /\ LbPresent(d)

LbRead(d) ==
  /\ lbRd[d] = "idle"
  /\ lbRd' = [lbRd EXCEPT ![d] = IF LbSubmits(d) THEN "wait" ELSE "kick"]
  /\ lbH' = [lbH EXCEPT ![d].in = IF LbSubmits(d) THEN "flying" ELSE @]
  /\ UNCHANGED <<lbDev, lbQueue, lbCount, lbScan, lbProc, lbWr, lbHot, lbMain, lbG, lbTL,
                 lbKicks, lbUp>>

LbReadDone(d) ==
  /\ lbRd[d] = "wait" /\ lbH[d].in \in {"ok", "failed"}
  /\ lbRd' = [lbRd EXCEPT ![d] = IF lbH[d].in = "ok" THEN "idle" ELSE "kick"]
  /\ lbH' = [lbH EXCEPT ![d].in = "idle"]
  /\ UNCHANGED <<lbDev, lbQueue, lbCount, lbScan, lbProc, lbWr, lbHot, lbMain, lbG, lbTL,
                 lbKicks, lbUp>>

LbWrite(d) ==
  /\ lbWr[d] = "idle"
  /\ lbWr' = [lbWr EXCEPT ![d] = IF LbSubmits(d) THEN "wait" ELSE "kick"]
  /\ lbH' = [lbH EXCEPT ![d].out = IF LbSubmits(d) THEN "flying" ELSE @]
  /\ UNCHANGED <<lbDev, lbQueue, lbCount, lbScan, lbProc, lbRd, lbHot, lbMain, lbG, lbTL,
                 lbKicks, lbUp>>

\* There is no time limit.
LbWriteDone(d) ==
  /\ lbWr[d] = "wait" /\ lbH[d].out \in {"ok", "failed"}
  /\ lbWr' = [lbWr EXCEPT ![d] = IF lbH[d].out = "ok" THEN "idle" ELSE "kick"]
  /\ lbH' = [lbH EXCEPT ![d].out = "idle"]
  /\ UNCHANGED <<lbDev, lbQueue, lbCount, lbScan, lbProc, lbRd, lbHot, lbMain, lbG, lbTL,
                 lbKicks, lbUp>>

\* The main thread, told by the read thread that t is offline, has passed
\* SYNC(0,0) on; the read thread may still be about to kick t.
LbWriterEof(d) ==
  /\ lbWr[d] = "idle" /\ lbRd[d] \in {"kick", "kicking", "unref", "over"}
  /\ lbWr' = [lbWr EXCEPT ![d] = "kick"]
  /\ UNCHANGED <<lbDev, lbQueue, lbCount, lbScan, lbProc, lbH, lbRd, lbHot, lbMain, lbG,
                 lbTL, lbKicks, lbUp>>

LbThread(d, who, from, to) ==
  \/ who = "r" /\ lbRd[d] = from /\ lbRd' = [lbRd EXCEPT ![d] = to] /\ UNCHANGED lbWr
  \/ who = "w" /\ lbWr[d] = from /\ lbWr' = [lbWr EXCEPT ![d] = to] /\ UNCHANGED lbRd

LbThreadKick(d, who) ==
  /\ ~lbTL
  /\ LbThread(d, who, "kick", IF LbWillKick(d) THEN "kicking" ELSE "unref")
  /\ lbTL' = LbWillKick(d)
  /\ lbH' = [lbH EXCEPT ![d].kicked = @ \/ LbWillKick(d)]
  /\ UNCHANGED <<lbDev, lbQueue, lbCount, lbScan, lbProc, lbHot, lbMain, lbG, lbKicks, lbUp>>

LbThreadKicking(d, who) ==
  /\ lbWr[d] # "wait"
  /\ LbThread(d, who, "kicking", "unref")
  /\ lbH' = [lbH EXCEPT ![d] = LbClose(@)]
  /\ lbTL' = FALSE
  /\ UNCHANGED <<lbDev, lbQueue, lbCount, lbScan, lbProc, lbHot, lbMain, lbG, lbKicks, lbUp>>

\* transport_unref: the second calls usb_close, which aborts the server when
\* the handle is no longer in usb_handles.
LbUnref(d, who) ==
  /\ LbThread(d, who, "unref", "over")
  /\ \/ /\ lbH[d].refs = 2
        /\ lbH' = [lbH EXCEPT ![d].refs = 1]
        /\ UNCHANGED lbUp
     \/ /\ lbH[d].refs = 1 /\ ~lbG
        /\ lbH' = [lbH EXCEPT ![d] = [LbClose(@) EXCEPT !.refs = 0, !.place = "deleted"]]
        /\ lbUp' = (lbH[d].place = "map")
  /\ UNCHANGED <<lbDev, lbQueue, lbCount, lbScan, lbProc, lbHot, lbMain, lbG, lbTL, lbKicks>>

-----------------------------------------------------------------------------
LbEnvironment ==
  \E d \in LbDevices :
    \/ \E a \in {"rw", "ro"} : LbPlug(d, a)
    \/ LbUnplug(d)
    \/ \E r \in {"ok", "failed"} : LbTransfer(d, r)
    \/ LbReconnect(d)

LbHotplug == lbUp /\ (LbConnected \/ LbDisconnected \/ LbUnregister)

LbProcess(d) ==
  lbUp /\ (LbDescribe(d) \/ LbReject(d) \/ LbOpen(d) \/ LbInsert(d) \/ LbRegister(d))

LbMainThread == lbUp /\ ((\E d \in LbDevices : LbList(d) \/ LbRemove(d)) \/ LbKicking)

LbReader(d) ==
  lbUp /\ (LbRead(d) \/ LbReadDone(d) \/ LbThreadKick(d, "r") \/ LbThreadKicking(d, "r")
           \/ LbUnref(d, "r"))

\* The write thread's own steps; a packet to write comes from elsewhere.
LbWriter(d) ==
  lbUp /\ (LbWriteDone(d) \/ LbWriterEof(d) \/ LbThreadKick(d, "w") \/ LbThreadKicking(d, "w")
           \/ LbUnref(d, "w"))

UsbLibusbNext ==
  \/ lbUp /\ LbEnvironment
  \/ LbHotplug
  \/ LbMainThread
  \/ \E d \in LbDevices : LbProcess(d) \/ LbReader(d) \/ LbWriter(d) \/ (lbUp /\ LbWrite(d))

UsbLibusbSpec == UsbLibusbInit /\ [][UsbLibusbNext]_lbVars

\* A step of a thread that holds transport_lock and wants write_msg_lock_.
LbHeldKick ==
  lbUp /\ (LbKicking \/ \E d \in LbDevices : \E who \in {"r", "w"} : LbThreadKicking(d, who))

\* Every thread runs, and a thread that writes packet after packet does not
\* keep write_msg_lock_ from another.  Nothing is assumed of the devices.
UsbLibusbFairness ==
  /\ SF_lbVars(LbHeldKick)
  /\ WF_lbVars(LbHotplug) /\ WF_lbVars(LbMainThread)
  /\ \A d \in LbDevices : WF_lbVars(LbProcess(d)) /\ WF_lbVars(LbReader(d)) /\ WF_lbVars(LbWriter(d))

UsbLibusbFairSpec == UsbLibusbSpec /\ UsbLibusbFairness

-----------------------------------------------------------------------------
(* Properties *)

\* When the server is told that the scan of the bus is complete
\* (adb_notify_device_scan_complete), every device that has arrived was
\* rejected or has its transport, whatever its thread and the hotplug queue
\* were doing.
ScanIsComplete ==
  [][lbScan' # lbScan => \A d \in LbDevices : lbDev[d] # "new" => lbProc'[d] = "over"]_lbVars

\* A kick waits, transport_lock in hand, for a write the device does not take.
LbStuck ==
  \E d \in LbDevices :
    lbH[d].out = "flying" /\ (lbMain = d \/ "kicking" \in {lbRd[d], lbWr[d]})

\* Unless such a kick waits for ever or the server aborts: a device that
\* arrives is processed, so the start of the server is not held up, and the
\* transport of a device that was unplugged or kicked goes away.
LibusbSettles ==
  []<>~LbStuck =>
    \A d \in LbDevices :
      /\ (lbDev[d] # "new") ~> (lbProc[d] = "over" \/ ~lbUp)
      /\ (lbH[d].tr = "listed" /\ lbH[d].writable /\ (lbDev[d] = "left" \/ lbH[d].kicked))
           ~> (lbH[d].tr = "gone" \/ ~lbUp)

\* "If the handle is null, we were never able to open the device."
\* (client/usb_libusb.cpp, device_disconnected)
UnregisteredWasNeverOpen == lbHot # LbNobody => ~lbH[lbHot].writable
=============================================================================
