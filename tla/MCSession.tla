----------------------------- MODULE MCSession -----------------------------
(***************************************************************************)
(* A transport, the authentication over it and the USB devices of a server *)
(* that uses libusb, for TLC: one transport object (the proofs cover       *)
(* more), a server with two keys, two devices.  The components share no    *)
(* variable, so every behaviour of all is a shuffle of behaviours of each; *)
(* `part' picks the one that moves, and the others rest in an initial      *)
(* state.                                                                  *)
(***************************************************************************)
EXTENDS MCTransport, Auth, UsbLibusb

VARIABLE part  \* the component that moves

TwoKeys == <<"k1", "k2">>

sessionVars == <<part, vars, authVars, lbVars>>

SessionTypeOK == AuthTypeOK /\ UsbLibusbTypeOK

SessionInit ==
  /\ part \in {"transport", "auth", "libusb"}
  /\ Init /\ AuthInit /\ UsbLibusbInit
  /\ part = "auth" \/ (framework /\ known = {})

SessionNext ==
  /\ \/ part = "transport" /\ Next /\ UNCHANGED <<authVars, lbVars>>
     \/ part = "auth" /\ AuthNext /\ UNCHANGED <<vars, lbVars>>
     \/ part = "libusb" /\ UsbLibusbNext /\ UNCHANGED <<vars, authVars>>
  /\ UNCHANGED part

\* The fairness of each component, while it is the one that moves.
SessionFairness ==
  /\ SF_vars(part = "transport" /\ Registration)
  /\ WF_vars(part = "transport" /\ MainKicking) /\ WF_vars(part = "transport" /\ OtherKicking)
  /\ \A t \in Transports : /\ SF_vars(part = "transport" /\ Main(t))
                           /\ WF_vars(part = "transport" /\ Reader(t))
                           /\ WF_vars(part = "transport" /\ Writer(t))
  /\ WF_authVars(part = "auth" /\ Host) /\ WF_authVars(part = "auth" /\ Device)
  /\ SF_lbVars(part = "libusb" /\ LbHeldKick)
  /\ WF_lbVars(part = "libusb" /\ LbHotplug) /\ WF_lbVars(part = "libusb" /\ LbMainThread)
  /\ \A d \in LbDevices : /\ WF_lbVars(part = "libusb" /\ LbProcess(d))
                          /\ WF_lbVars(part = "libusb" /\ LbReader(d))
                          /\ WF_lbVars(part = "libusb" /\ LbWriter(d))

SessionSpec == SessionInit /\ [][SessionNext]_sessionVars /\ SessionFairness

-----------------------------------------------------------------------------
(* Liveness properties that a resting component would not satisfy *)

\* AuthSettles, of the authentication (adb_auth_host.cpp, adbd_auth.cpp)
AuthPartSettles == part = "auth" => AuthSettles

\* ScanIsComplete and LibusbSettles, of the USB devices (client/usb_libusb.cpp)
LibusbPartSettles == ScanIsComplete /\ (part = "libusb" => LibusbSettles)
=============================================================================
