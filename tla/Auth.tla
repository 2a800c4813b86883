-------------------------------- MODULE Auth --------------------------------
(***************************************************************************)
(* The handshake of a transport between the adb server and an adbd that    *)
(* requires authentication: the CNXN and AUTH arms of handle_packet on     *)
(* both sides, the server's iteration over its private keys                *)
(* (adb_auth_host.cpp, atransport::NextKey), and adbd's signature check    *)
(* and its conversation with the Android framework, which asks the user    *)
(* to confirm an unknown key (adbd_auth.cpp).                              *)
(*                                                                         *)
(* A token is represented by its age: "fresh" if it is the one adbd        *)
(* generated last for the transport, which is the only one a signature is  *)
(* verified against.  Random tokens do not repeat.                         *)
(***************************************************************************)
EXTENDS Integers, Sequences

CONSTANTS
  Keys,         \* the server's private keys, in the order it tries them
  UserKey,      \* the one among them whose public key it sends
  MaxRestarts,  \* bound on restarts of the server
  MaxBreaks,    \* bound on failures of the wire
  MaxHangs,     \* bound on disconnections of the framework
  MaxData       \* bound on stream packets adbd sends

KeySet == {Keys[n] : n \in 1..Len(Keys)}

ASSUME AuthAssumption ==
  /\ Keys \in Seq(KeySet) /\ UserKey \in KeySet /\ "PUBLIC" \notin KeySet
  /\ {MaxRestarts, MaxBreaks, MaxHangs, MaxData} \subseteq Nat

VARIABLES
  hstate,    \* the server's connection_state_
  keys,      \* the server's keys_: what is left to try, the sentinel last
  resent,    \* has_send_connect_on_error_
  dstate,    \* adbd's connection_state_
  dOnline,   \* adbd's t->online
  confirm,   \* usb_transport is t (and usb_disconnect is registered), not NULL
  needs_retry,
  framework, \* framework_fd >= 0
  asked,     \* the framework has a key to show to the user
  known,     \* the server's keys that adbd finds in its key files
  toHost, toDevice,  \* packets travelling, in order
  link,      \* "up", or "broken" until the reconnection
  restarts, breaks, hangs, data

host == <<hstate, keys, resent>>
auth == <<confirm, needs_retry>>
env == <<link, restarts, breaks, hangs, data>>
authVars == <<host, dstate, dOnline, auth, framework, asked, known, toHost, toDevice, env>>

-----------------------------------------------------------------------------
(* State *)

ToHost == [cmd : {"TOKEN"}, fresh : BOOLEAN] \cup [cmd : {"CNXN", "DATA", "SYNC"}]
ToDevice == [cmd : {"SIGNATURE"}, key : KeySet, fresh : BOOLEAN]
              \cup [cmd : {"CNXN", "RSAPUBLICKEY", "SYNC"}]

Cnxn == [cmd |-> "CNXN"]
Token == [cmd |-> "TOKEN", fresh |-> TRUE]
PublicKey == [cmd |-> "RSAPUBLICKEY"]
Offline == [cmd |-> "SYNC"]   \* SYNC(0,0) from the read thread

AuthTypeOK ==
  /\ hstate \in {"offline", "unauthorized", "device"}
  /\ keys \in Seq(KeySet \cup {"PUBLIC"})
  /\ dstate \in {"offline", "host"}
  /\ {resent, dOnline, confirm, needs_retry, framework, asked} \subseteq BOOLEAN
  /\ known \subseteq KeySet
  /\ toHost \in Seq(ToHost)
  /\ toDevice \in Seq(ToDevice)
  /\ link \in {"up", "broken"}
  /\ {restarts, breaks, hangs, data} \subseteq Nat

AuthInit ==
  /\ hstate = "offline" /\ keys = <<>> /\ resent = FALSE
  /\ dstate = "offline" /\ dOnline = FALSE
  /\ confirm = FALSE /\ needs_retry = FALSE
  /\ framework \in BOOLEAN /\ asked = FALSE
  /\ known \in SUBSET KeySet
  /\ toHost = <<>> /\ toDevice = <<Cnxn>>
  /\ link = "up" /\ restarts = 0 /\ breaks = 0 /\ hangs = 0 /\ data = 0

\* send_packet; what is sent into a broken wire is lost.
Send(q, out) == IF link = "up" THEN q \o out ELSE q

-----------------------------------------------------------------------------
(* The server *)

HostReceives(cmd) == toHost # <<>> /\ Head(toHost).cmd = cmd /\ toHost' = Tail(toHost)

\* adb_auth_get_private_keys: all private keys, then a sentinel for the public
\* key.
PrivateKeys == Append(Keys, "PUBLIC")

\* NextKey: an empty keys_ is filled again; the first is used.
NextKeys == IF keys = <<>> THEN PrivateKeys ELSE keys

\* AUTH(TOKEN): sign the token with the next key; when they are used up, send
\* the public key (send_auth_response).
HostToken ==
  /\ HostReceives("TOKEN")
  /\ hstate' = IF hstate = "offline" THEN "unauthorized" ELSE hstate
  /\ LET key == Head(NextKeys) IN
       toDevice' = Send(toDevice,
         IF key = "PUBLIC" THEN <<PublicKey>>
         ELSE <<[cmd |-> "SIGNATURE", key |-> key, fresh |-> Head(toHost).fresh]>>)
  /\ keys' = Tail(NextKeys)
  /\ UNCHANGED <<resent, dstate, dOnline, auth, framework, asked, known, env>>

\* Mutant: the banner is taken for another server's.
HostCnxn_Banner ==
  /\ HostReceives("CNXN")
  /\ hstate' = "host"
  /\ UNCHANGED <<keys, resent, dstate, dOnline, auth, framework, asked, known, toDevice, env>>

\* CNXN: handle_new_connection.
HostCnxn ==
  /\ HostReceives("CNXN")
  /\ hstate' = "device"
  /\ UNCHANGED <<keys, resent, dstate, dOnline, auth, framework, asked, known, toDevice, env>>

\* Any other packet.  Over USB the read thread of a transport that is offline
\* takes it for garbage of an earlier session and sends CNXN once more
\* (remote_read in transport_usb.cpp).
HostData ==
  /\ HostReceives("DATA")
  /\ IF hstate = "offline" /\ ~resent
       THEN /\ resent' = TRUE
            /\ toDevice' = Send(toDevice, <<Cnxn>>)
       ELSE UNCHANGED <<resent, toDevice>>
  /\ UNCHANGED <<hstate, keys, dstate, dOnline, auth, framework, asked, known, env>>

\* SYNC(0,0): the wire failed, this transport is done.
HostOffline ==
  /\ HostReceives("SYNC")
  /\ hstate' = "offline"
  /\ UNCHANGED <<keys, resent, dstate, dOnline, auth, framework, asked, known, toDevice, env>>

Host == HostToken \/ HostCnxn \/ HostData \/ HostOffline

-----------------------------------------------------------------------------
(* adbd *)

DeviceReceives(cmd) ==
  toDevice # <<>> /\ Head(toDevice).cmd = cmd

Aged(p) == IF p.cmd \in {"TOKEN", "SIGNATURE"} THEN [p EXCEPT !.fresh = FALSE] ELSE p
Age(q) == [n \in 1..Len(q) |-> Aged(q[n])]

\* send_auth_request: generate and send a new token.  q is what is left on
\* the way to adbd.
SendAuthRequest(q) ==
  /\ toHost' = Send(Age(toHost), <<Token>>)
  /\ toDevice' = Age(q)

\* usb_disconnected, run by RunDisconnects in handle_offline if registered.
UsbDisconnected == confirm' = FALSE /\ needs_retry' = (needs_retry /\ ~confirm)

\* CNXN: handle_new_connection takes a connected transport offline first, and
\* asks for authentication.
DeviceCnxn ==
  /\ DeviceReceives("CNXN")
  /\ dOnline' = IF dstate # "offline" THEN FALSE ELSE dOnline
  /\ IF dstate # "offline" THEN UsbDisconnected ELSE UNCHANGED auth
  /\ dstate' = "host"
  /\ SendAuthRequest(Tail(toDevice))
  /\ UNCHANGED <<host, framework, asked, known, env>>

\* adbd_auth_verified: online, and CNXN to the server.
AuthVerified == dOnline' = TRUE /\ toHost' = Send(toHost, <<Cnxn>>)

\* AUTH(SIGNATURE): adbd_auth_verify tries the keys it knows against the last
\* token; if none fits, a new token is sent.
DeviceSignature ==
  LET p == Head(toDevice) IN
  /\ DeviceReceives("SIGNATURE")
  /\ IF p.fresh /\ p.key \in known
       THEN AuthVerified /\ toDevice' = Tail(toDevice)
       ELSE SendAuthRequest(Tail(toDevice)) /\ UNCHANGED dOnline
  /\ UNCHANGED <<host, dstate, auth, framework, asked, known, env>>

\* Mutant: a key that finds no framework is forgotten.
ConfirmKey_NoRetry ==
  /\ confirm' = TRUE
  /\ IF framework THEN asked' = TRUE ELSE UNCHANGED asked
  /\ UNCHANGED needs_retry

\* adbd_auth_confirm_key: pass the key to the framework, or remember that it
\* has to be asked for again when the framework is there.  A write that fails,
\* for the framework has just closed its end, drops the key as does a key that
\* is passed on just before FrameworkDisconnects; the keys of this server end
\* with a zero and fit.
ConfirmKey ==
  /\ confirm' = TRUE
  /\ IF framework THEN asked' = TRUE /\ UNCHANGED needs_retry
                  ELSE needs_retry' = TRUE /\ UNCHANGED asked

\* AUTH(RSAPUBLICKEY).
DevicePublicKey ==
  /\ DeviceReceives("RSAPUBLICKEY")
  /\ ConfirmKey
  /\ toDevice' = Tail(toDevice)
  /\ UNCHANGED <<host, dstate, dOnline, framework, known, toHost, env>>

\* SYNC(0,0): handle_offline.
DeviceOffline ==
  /\ DeviceReceives("SYNC")
  /\ dstate' = "offline"
  /\ dOnline' = FALSE
  /\ UsbDisconnected
  /\ toDevice' = Tail(toDevice)
  /\ UNCHANGED <<host, framework, asked, known, toHost, env>>

Device == DeviceCnxn \/ DeviceSignature \/ DevicePublicKey \/ DeviceOffline

\* adbd_auth_listener: the framework connects, perhaps in place of an earlier
\* connection; a key that could not be shown is asked for again.
FrameworkConnects ==
  /\ framework => hangs < MaxHangs
  /\ hangs' = IF framework THEN hangs + 1 ELSE hangs
  /\ framework' = TRUE
  /\ asked' = FALSE
  /\ needs_retry' = FALSE
  /\ IF needs_retry THEN SendAuthRequest(toDevice) ELSE UNCHANGED <<toHost, toDevice>>
  /\ UNCHANGED <<host, dstate, dOnline, confirm, known, link, restarts, breaks, data>>

\* adbd_auth_event: the framework is gone (framework_disconnected), ...
FrameworkDisconnects ==
  /\ framework
  /\ hangs < MaxHangs
  /\ hangs' = hangs + 1
  /\ framework' = FALSE
  /\ asked' = FALSE
  /\ UNCHANGED <<host, dstate, dOnline, auth, known, toHost, toDevice, link, restarts, breaks, data>>

\* ... or it says OK.  If the user allowed the key for good the framework has
\* put it into the key file.
FrameworkOk ==
  /\ asked
  /\ asked' = FALSE
  /\ \E always \in BOOLEAN : known' = IF always THEN known \cup {UserKey} ELSE known
  /\ IF confirm THEN AuthVerified ELSE UNCHANGED <<dOnline, toHost>>
  /\ UNCHANGED <<host, dstate, auth, framework, toDevice, env>>

-----------------------------------------------------------------------------
(* The rest of the world *)

\* adbd sends packets of its streams.
DeviceData ==
  /\ dOnline
  /\ data < MaxData
  /\ data' = data + 1
  /\ toHost' = Send(toHost, <<[cmd |-> "DATA"]>>)
  /\ UNCHANGED <<host, dstate, dOnline, auth, framework, asked, known, toDevice, link, restarts, breaks, hangs>>

\* The wire fails: each side still handles what it had received.
Break ==
  /\ link = "up"
  /\ breaks < MaxBreaks
  /\ breaks' = breaks + 1
  /\ link' = "broken"
  /\ \E h \in 0..Len(toHost) : toHost' = Append(SubSeq(toHost, 1, h), Offline)
  /\ \E d \in 0..Len(toDevice) : toDevice' = Append(SubSeq(toDevice, 1, d), Offline)
  /\ UNCHANGED <<host, dstate, dOnline, auth, framework, asked, known, restarts, hangs, data>>

\* A new transport on both sides; the server sends CNXN (SendConnectOnHost).
Reconnect ==
  /\ link = "broken"
  /\ toHost = <<>> /\ toDevice = <<>>
  /\ link' = "up"
  /\ keys' = <<>> /\ resent' = FALSE
  /\ toDevice' = <<Cnxn>>
  /\ UNCHANGED <<hstate, dstate, dOnline, auth, framework, asked, known, toHost, restarts, breaks, hangs, data>>

\* The server is killed and started again with the device plugged in: what
\* was inside the process is lost, what is on the wire is not.
HostRestart ==
  /\ link = "up"
  /\ restarts < MaxRestarts
  /\ restarts' = restarts + 1
  /\ hstate' = "offline" /\ keys' = <<>> /\ resent' = FALSE
  /\ \E h \in 0..Len(toHost) : toHost' = SubSeq(toHost, h + 1, Len(toHost))
  /\ \E d \in 0..Len(toDevice) : toDevice' = Append(SubSeq(toDevice, 1, d), Cnxn)
  /\ UNCHANGED <<dstate, dOnline, auth, framework, asked, known, link, breaks, hangs, data>>

AuthNext ==
  \/ Host
  \/ Device
  \/ FrameworkConnects
  \/ FrameworkDisconnects
  \/ FrameworkOk
  \/ DeviceData
  \/ Break
  \/ Reconnect
  \/ HostRestart

AuthSpec == AuthInit /\ [][AuthNext]_authVars

\* Both main threads keep handling packets.
AuthFairness == WF_authVars(Host) /\ WF_authVars(Device)

AuthFairSpec == AuthSpec /\ AuthFairness

-----------------------------------------------------------------------------
(* Properties *)

\* adbd_auth_listener passes usb_transport to send_auth_request when a retry
\* is due: it is never NULL then, although the transport may have come and
\* gone since the retry was noted.
RetryHasTransport == needs_retry => confirm

\* If adbd knows one of the server's keys from the start and the wire stays
\* up in the end, the server
\* and adbd are online in the end, and stay so: whatever is left of earlier
\* sessions, and although two CNXN of the server make two handshakes that
\* invalidate each other's tokens.
KnownKeyConnects ==
  (known # {} /\ <>[](link = "up")) => <>[](hstate = "device" /\ dOnline)

\* A public key that arrived while the framework was away is shown to the
\* user once the framework is there to stay, unless the transport goes away
\* or is let in by a known key.
PromptAppears ==
  <>[]framework => (needs_retry ~> (asked \/ dOnline \/ ~confirm))

\* Every handshake comes to a verdict: after a CNXN adbd lets the server in,
\* has the user asked, waits for the framework to do so, or loses the
\* transport.  No chain of tokens and signatures goes on for ever or stops
\* half-way.
HandshakeEnds ==
  DeviceReceives("CNXN") ~> (dOnline \/ asked \/ needs_retry \/ dstate = "offline")

\* The handshake settles: it comes to a verdict, by a known key or by the user.
AuthSettles ==
  /\ []RetryHasTransport
  /\ KnownKeyConnects /\ PromptAppears /\ HandshakeEnds
=============================================================================
