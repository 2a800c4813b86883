------------------------------ MODULE MCLinks ------------------------------
(***************************************************************************)
(* The components below the transports, for TLC: the event loop and the    *)
(* queue of functions for the main thread, the links of both sides, and    *)
(* the start of the server.  They share no variable, so every behaviour of *)
(* several of them is a shuffle of behaviours of each; `part' picks the    *)
(* one that moves, and the others rest in their initial states.            *)
(***************************************************************************)
EXTENDS FdEvent, RunQueue, UsbLinux, LocalTransport, DaemonUsb, AdbClient

VARIABLE part  \* the component that moves

feOnly == <<rqVars, ubVars, ltVars, duVars, acVars>>
rqOnly == <<feVars, ubVars, ltVars, duVars, acVars>>
ubOnly == <<feVars, rqVars, ltVars, duVars, acVars>>
ltOnly == <<feVars, rqVars, ubVars, duVars, acVars>>
duOnly == <<feVars, rqVars, ubVars, ltVars, acVars>>
acOnly == <<feVars, rqVars, ubVars, ltVars, duVars>>

linksVars == <<part, feVars, rqVars, ubVars, ltVars, duVars, acVars>>

LinksTypeOK ==
  /\ FdEventTypeOK /\ RunQueueTypeOK /\ UsbLinuxTypeOK /\ LocalTransportTypeOK
  /\ DaemonUsbTypeOK /\ AdbClientTypeOK

Parts == {"fdevent", "run queue", "usb", "emulators", "adbd usb", "start"}

\* A component that rests does so in one of its initial states.  Versions are
\* interchangeable, so the first server is of the same one in all of them.
LinksInit ==
  /\ part \in Parts
  /\ FdEventInit /\ RunQueueInit /\ UsbLinuxInit /\ LocalTransportInit
  /\ DaemonUsbInit /\ AdbClientInit
  /\ part = "emulators" \/ ltUp = {}
  /\ part = "adbd usb" \/ duCable
  /\ acS[1].ver = CHOOSE v \in AcVersions : TRUE
  /\ part = "start" \/ (acS[1].st = "none" /\
                        \A c \in AcClients : acC[c].cmd = "service" /\ acC[c].ver = acS[1].ver)

LinksNext ==
  /\ \/ part = "fdevent" /\ FdEventNext /\ UNCHANGED feOnly
     \/ part = "run queue" /\ RunQueueNext /\ UNCHANGED rqOnly
     \/ part = "usb" /\ UsbLinuxNext /\ UNCHANGED ubOnly
     \/ part = "emulators" /\ LocalTransportNext /\ UNCHANGED ltOnly
     \/ part = "adbd usb" /\ DaemonUsbNext /\ UNCHANGED duOnly
     \/ part = "start" /\ AdbClientNext /\ UNCHANGED acOnly
  /\ UNCHANGED part

\* The fairness of each component, while it is the one that moves.
LinksFairness ==
  /\ WF_feVars(part = "fdevent" /\ FePoll) /\ WF_feVars(part = "fdevent" /\ FeDispatch)
  /\ WF_feVars(part = "fdevent" /\ FeReturn)
  /\ SF_rqVars(part = "run queue" /\ RqMainThread)
  /\ \A t \in RqThreads : WF_rqVars(part = "run queue" /\ RqNotify(t))
  /\ \A h \in UbHandles : /\ WF_ubVars(part = "usb" /\ UbReader(h))
                         /\ WF_ubVars(part = "usb" /\ UbWriter(h))
  /\ WF_ubVars(part = "usb" /\ UbPoller) /\ WF_ubVars(part = "usb" /\ UbMainThread)
  /\ SF_ubVars(part = "usb" /\ UbHeldKick)
  /\ SF_ubVars(part = "usb" /\ \E h \in UbHandles : UbScanNew(h))
  /\ WF_ltVars(part = "emulators" /\ LtClient) /\ WF_ltVars(part = "emulators" /\ LtService)
  /\ WF_ltVars(part = "emulators" /\ LtLife)
  /\ WF_duVars(part = "adbd usb" /\ DuOpenerStep) /\ WF_duVars(part = "adbd usb" /\ DuThreads)
  /\ WF_duVars(part = "adbd usb" /\ DuOtherDup)
  /\ SF_duVars(part = "adbd usb" /\ DuInit /\ duOpener' = "register")
  /\ \A c \in AcClients : WF_acVars(part = "start" /\ AcClientStep(c))
  /\ \A s \in AcServers : WF_acVars(part = "start" /\ AcServerStep(s))

LinksSpec ==
  LinksInit /\ [][LinksNext]_linksVars /\ LinksFairness

-----------------------------------------------------------------------------
(* Liveness properties that a resting component would not satisfy *)

\* UsbRecovers, of the USB transports of the server (client/usb_linux.cpp),
\* and ClosedIsReopened, of adbd's (daemon/usb.cpp).
UsbLinksRecover == (part = "usb" => UsbRecovers) /\ ClosedIsReopened

\* ClientsEnd, of clients that start and kill servers (adb_client.cpp)
StartingClientsEnd == part = "start" => ClientsEnd
=============================================================================
