------------------------------ MODULE MCStreams ------------------------------
(***************************************************************************)
(* Streams for TLC; the configurations choose among these values of the    *)
(* constants.                                                              *)
(***************************************************************************)
EXTENDS Streams

HostOnly == {"host"}
BothSides == Side

\* Units that sockets of the host and of the device send.
Units(h, d) == [x \in Side |-> IF x = "host" THEN h ELSE d]
Units12 == Units(1, 2)
Units01 == Units(0, 1)
Units33 == Units(3, 3)

AnyHangUp == [x \in Side |-> {"shut", "closed"}]
ClientCloses == [x \in Side |-> IF x = "host" THEN {"closed"} ELSE {}]
=============================================================================
