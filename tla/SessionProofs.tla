--------------------------- MODULE SessionProofs ---------------------------
(***************************************************************************)
(* The streams of one server process (gen = 0): its ids are never used     *)
(* twice, so a stream is known by the ids of its two ends.  For any number *)
(* of streams, failures of the wire and units, what adb writes to a client *)
(* or a service is what the other end sent, in order and without gaps;     *)
(* when adb closes a stream nothing that was sent is lost; no stream stays *)
(* open at one end only; and the permission to send is never lost.         *)
(*                                                                         *)
(* The invariant has four parts.  MateInv: a stream joins two sockets and  *)
(* no third, and the packets under way say so.  Flow: the units on their   *)
(* way continue those that have arrived, up to the last one sent.  Closing *)
(* (before the first failure of the wire): a CLSE is the last packet of    *)
(* its stream.  PairsKnown (while the wire is up): what an open socket may *)
(* expect of its other end, and where its permission to send is.           *)
(***************************************************************************)
EXTENDS StreamsProofs

\* The places in the queue of packets on their way to x.
Pos(x) == 1..Len(net[x])

\* A step of side x takes k packets (none or the first) from its queue and
\* adds o to the other's.
NetMoves(x, k, o) ==
  /\ k \in {0, 1} /\ Len(net[x]) = Len(net'[x]) + k
  /\ \A n \in 1..Len(net'[x]) : n + k \in Pos(x) /\ net'[x][n] = net[x][n + k]
  /\ Len(net'[Other(x)]) = Len(net[Other(x)]) + Len(o)
  /\ \A n \in Pos(Other(x)) : n \in 1..Len(net'[Other(x)]) /\ net'[Other(x)][n] = net[Other(x)][n]
  /\ \A n \in 1..Len(net'[Other(x)]) :
       \/ n \in Pos(Other(x))
       \/ /\ n - Len(net[Other(x)]) \in 1..Len(o) /\ n > Len(net[Other(x)])
          /\ net'[Other(x)][n] = o[n - Len(net[Other(x)])]
  /\ \A n \in 1..Len(o) : /\ Len(net[Other(x)]) + n \in 1..Len(net'[Other(x)])
                          /\ net'[Other(x)][Len(net[Other(x)]) + n] = o[n]

\* What reaches the wire of what is sent.
Sent(out) == IF link = "up" THEN out ELSE <<>>

\* r is what is left of the queues when side x takes k packets.
Taken(x, k, r) ==
  /\ k = 1 => net[x] # <<>> /\ r = Rest(x) /\ 1 \in Pos(x) /\ Head(net[x]) = net[x][1]
  /\ k = 0 => r = net /\ (net[x] # <<>> => r # Rest(x))

\* A step that hands its packets to Send moves the queues this way.
LEMMA NetMoved ==
  ASSUME TypeOK, NEW x \in Side, NEW r, NEW out \in Seq(Packet),
         r = net \/ (net[x] # <<>> /\ r = Rest(x)),
         net' = Send(r, x, out)
  PROVE  \E k \in {0, 1} : NetMoves(x, k, Sent(out)) /\ Taken(x, k, r)
<1>1. /\ net \in [Side -> Seq(Packet)] /\ net[x] \in Seq(Packet) /\ Other(x) \in Side /\ Other(x) # x
      /\ net[Other(x)] \in Seq(Packet)
  BY Sides DEF TypeOK
<1>2. /\ net' \in [Side -> Seq(Packet)]
      /\ net'[x] = r[x]
      /\ net'[Other(x)] = IF link = "up" THEN net[Other(x)] \o out ELSE net[Other(x)]
  BY <1>1, NetStep
<1>3. PICK o, q, w : o = Sent(out) /\ q = net[Other(x)] /\ w = net'[Other(x)]
  OBVIOUS
<1>4. o \in Seq(Packet) /\ q \in Seq(Packet) /\ w = q \o o
  BY <1>1, <1>2, <1>3 DEF Sent
<1>5. /\ Len(w) = Len(q) + Len(o) /\ Len(q) \in Nat /\ Len(o) \in Nat
      /\ \A n \in 1..Len(q) : w[n] = q[n]
      /\ \A n \in 1..Len(o) : w[Len(q) + n] = o[n]
      /\ \A n \in 1..Len(w) : n > Len(q) => n - Len(q) \in 1..Len(o) /\ w[n] = o[n - Len(q)]
  BY <1>4, Joined
<1>6. /\ Len(w) = Len(q) + Len(o)
      /\ \A n \in 1..Len(q) : n \in 1..Len(w) /\ w[n] = q[n]
      /\ \A n \in 1..Len(w) : n \in 1..Len(q)
                              \/ (n - Len(q) \in 1..Len(o) /\ n > Len(q) /\ w[n] = o[n - Len(q)])
      /\ \A n \in 1..Len(o) : Len(q) + n \in 1..Len(w) /\ w[Len(q) + n] = o[n]
  BY <1>5
<1>7. CASE r = net
  <2>1. Len(net[x]) = Len(net'[x]) + 0 /\ (\A n \in 1..Len(net'[x]) : n + 0 \in Pos(x) /\ net'[x][n] = net[x][n + 0])
    BY <1>1, <1>2, <1>7 DEF Pos
  <2>2. NetMoves(x, 0, o)
    BY <1>3, <1>6, <2>1 DEF NetMoves, Pos
  <2>3. ASSUME net[x] # <<>> PROVE r # Rest(x)
    <3>1. Len(Tail(net[x])) = Len(net[x]) - 1 /\ Len(net[x]) \in Nat
      BY <1>1, <2>3, Tailed
    <3>2. Rest(x)[x] = Tail(net[x])
      BY <1>1 DEF Rest
    <3>3. r[x] = net[x]
      BY <1>7
    <3>4. Tail(net[x]) # net[x]
      <4>1. PICK t, u : t = Tail(net[x]) /\ u = net[x]
        OBVIOUS
      <4>2. Len(t) = Len(u) - 1 /\ Len(u) \in Nat
        BY <3>1, <4>1
      <4>3. Len(t) # Len(u)
        BY <4>2
      <4> QED BY <4>1, <4>3
    <3> QED BY <3>2, <3>3, <3>4
  <2> QED BY <1>3, <1>7, <2>2, <2>3 DEF Taken
<1>8. CASE net[x] # <<>> /\ r = Rest(x)
  <2>1. net'[x] = Tail(net[x])
    BY <1>1, <1>2, <1>8 DEF Rest
  <2>2. /\ Len(Tail(net[x])) = Len(net[x]) - 1 /\ Len(net[x]) \in Nat \ {0}
        /\ \A n \in 1..Len(Tail(net[x])) : n + 1 \in 1..Len(net[x]) /\ Tail(net[x])[n] = net[x][n + 1]
        /\ Head(net[x]) = net[x][1]
    BY <1>1, <1>8, Tailed
  <2>3. Len(net[x]) = Len(net'[x]) + 1 /\ (\A n \in 1..Len(net'[x]) : n + 1 \in Pos(x) /\ net'[x][n] = net[x][n + 1])
    BY <2>1, <2>2 DEF Pos
  <2>4. NetMoves(x, 1, o)
    BY <1>3, <1>6, <2>3 DEF NetMoves, Pos
  <2>5. 1 \in Pos(x)
    BY <2>2 DEF Pos
  <2> QED BY <1>3, <1>8, <2>2, <2>4, <2>5 DEF Taken
<1> QED BY <1>7, <1>8

-----------------------------------------------------------------------------
(* Who is connected to whom *)

\* An id that was not handed out yet.
Fresh(x, i) ==
  /\ sock[x][i].list = "none" /\ Str(x, i) = <<>>
  /\ app[x][i].mate = 0 /\ app[x][i].sent = 0

\* Nobody has answered the OPEN of socket i of side x.
Unasked(x, i) == app[x][i].mate = 0 /\ \A j \in Ids : app[Other(x)][j].mate # i

\* Ids that are in use were handed out.
IdsUsed ==
  /\ \A x \in Side, i \in Ids : i >= next_id[x] => Fresh(x, i)
  /\ \A x \in Side, i \in Ids : app[Other(x)][i].mate < next_id[x]
  /\ \A x \in Side : \A n \in Pos(x) :
       /\ net[x][n].cmd = "OPEN" => net[x][n].arg0 < next_id[Other(x)] /\ net[x][n].gen = 0
       /\ net[x][n].cmd = "CLSE" => net[x][n].arg0 < next_id[Other(x)] /\ net[x][n].arg1 < next_id[x]

\* A stream joins two sockets, and no third.
Mates ==
  \A x \in Side, i \in Ids :
    /\ app[x][i].mate # 0 => app[Other(x)][app[x][i].mate].mate \in {0, i}
    /\ \A k \in Ids : app[x][i].mate # 0 /\ app[x][k].mate = app[x][i].mate => k = i
    /\ app[x][i].gen = 0
    /\ app[x][i].mate = 0 => app[x][i].sent = 0
    /\ Str(x, i) # <<>> => app[x][i].mate # 0 /\ app[Other(x)][app[x][i].mate].mate = i

\* An open socket knows its mate; there is none on an offline transport.
OpenMates ==
  \A x \in Side, i \in Ids :
    sock[x][i].list = "open" => sock[x][i].peer = app[x][i].mate /\ online[x]

\* What the packets under way say of the sockets.
Announced ==
  \A x \in Side : \A n \in Pos(x) :
    /\ net[x][n].cmd \in {"OKAY", "WRTE"} => app[Other(x)][net[x][n].arg0].mate = net[x][n].arg1
    /\ net[x][n].cmd = "OPEN" =>
         /\ Unasked(Other(x), net[x][n].arg0)
         /\ \A m \in Pos(x) : net[x][m].cmd = "OPEN" /\ net[x][m].arg0 = net[x][n].arg0 => m = n
    /\ net[x][n].cmd = "CLSE" /\ net[x][n].arg0 = 0 =>
         /\ Unasked(x, net[x][n].arg1)
         /\ \A m \in Pos(Other(x)) :
              ~(net[Other(x)][m].cmd = "OPEN" /\ net[Other(x)][m].arg0 = net[x][n].arg1)

MateInv == IdsUsed /\ Mates /\ OpenMates /\ Announced

\* A step of side x that connects no socket to another.
Quiet(x, k, o) ==
  /\ NetMoves(x, k, o)
  /\ \A z \in Side, i \in Ids : app'[z][i].mate = app[z][i].mate /\ app'[z][i].gen = app[z][i].gen
  /\ \A z \in Side : next_id'[z] \in Nat /\ next_id'[z] >= next_id[z]
  /\ \A z \in Side, i \in Ids : i >= next_id'[z] =>
       sock'[z][i].list = sock[z][i].list /\ Str(z, i)' = Str(z, i) /\ app'[z][i].sent = app[z][i].sent
  /\ \A z \in Side, i \in Ids : app'[z][i].sent = app[z][i].sent \/ app[z][i].mate # 0
  /\ \A z \in Side, i \in Ids :
       \/ Str(z, i)' = <<>> \/ Str(z, i) # <<>>
       \/ app[z][i].mate # 0 /\ app[Other(z)][app[z][i].mate].mate = i
  /\ \A n \in 1..Len(o) :
       /\ o[n].cmd \in {"OKAY", "WRTE"} => app[x][o[n].arg0].mate = o[n].arg1
       /\ o[n].cmd = "OPEN" => /\ o[n].arg0 = next_id[x] /\ o[n].gen = 0
                               /\ next_id'[x] > next_id[x]
       /\ o[n].cmd = "CLSE" => o[n].arg0 < next_id[x] /\ o[n].arg1 < next_id[Other(x)]
       /\ o[n].cmd = "CLSE" /\ o[n].arg0 = 0 =>
            k = 1 /\ 1 \in Pos(x) /\ net[x][1].cmd = "OPEN" /\ net[x][1].arg0 = o[n].arg1
  /\ \A m, n \in 1..Len(o) : o[m].cmd = "OPEN" /\ o[n].cmd = "OPEN" => m = n

\* Where the packets of a queue come from.
LEMMA PacketsFrom ==
  ASSUME NEW x \in Side, NEW k, NEW o, NetMoves(x, k, o), TypeOK, TypeOK'
  PROVE  /\ \A n \in Pos(x)' : /\ n + k \in Pos(x) /\ net'[x][n] = net[x][n + k]
                               /\ k = 1 => n + k # 1
         /\ \A n \in Pos(Other(x))' :
              \/ n \in Pos(Other(x)) /\ net'[Other(x)][n] = net[Other(x)][n]
              \/ /\ n - Len(net[Other(x)]) \in 1..Len(o) /\ n \notin Pos(Other(x))
                 /\ net'[Other(x)][n] = o[n - Len(net[Other(x)])]
         /\ \A z \in Side : z = x \/ z = Other(x)
         /\ \A z \in Side : \A n \in Pos(z)' : n \in Nat \ {0} /\ net'[z][n] \in Packet
         /\ \A z \in Side : \A n \in Pos(z) : n \in Nat \ {0} /\ net[z][n] \in Packet
         /\ k \in {0, 1} /\ Len(net[Other(x)]) \in Nat
<1>1. Other(x) \in Side /\ (\A z \in Side : z = x \/ z = Other(x))
  BY Sides
<1>2. \A z \in Side : net[z] \in Seq(Packet) /\ net'[z] \in Seq(Packet)
  BY DEF TypeOK
<1>3. /\ \A z \in Side : \A n \in Pos(z)' : n \in Nat \ {0} /\ net'[z][n] \in Packet
      /\ \A z \in Side : \A n \in Pos(z) : n \in Nat \ {0} /\ net[z][n] \in Packet
      /\ Len(net[Other(x)]) \in Nat
  BY <1>1, <1>2 DEF Pos
<1>4. ASSUME NEW n \in Pos(x)'
      PROVE  n + k \in Pos(x) /\ net'[x][n] = net[x][n + k] /\ (k = 1 => n + k # 1)
  <2>1. n + k \in Pos(x) /\ net'[x][n] = net[x][n + k]
    BY <1>4 DEF NetMoves, Pos
  <2>2. n \in Nat \ {0}
    BY <1>3
  <2> QED BY <2>1, <2>2
<1>5. \A n \in Pos(Other(x))' :
        \/ n \in Pos(Other(x)) /\ net'[Other(x)][n] = net[Other(x)][n]
        \/ /\ n - Len(net[Other(x)]) \in 1..Len(o) /\ n \notin Pos(Other(x))
           /\ net'[Other(x)][n] = o[n - Len(net[Other(x)])]
  BY <1>3 DEF NetMoves, Pos
<1>6. k \in {0, 1}
  BY DEF NetMoves
<1> QED BY <1>1, <1>3, <1>4, <1>5, <1>6

\* A step that connects no socket keeps what is known of the streams.
LEMMA QuietMates ==
  ASSUME StreamInv, StreamInv', MateInv, NEW x \in Side, NEW k, NEW o, Quiet(x, k, o), OpenMates'
  PROVE  MateInv'
<1> DEFINE y == Other(x)
<1>1. TypeOK /\ TypeOK' /\ IdsUsed /\ Mates /\ Announced
  BY DEF StreamInv, TypeInv, MateInv
<1>2. y \in Side /\ Other(y) = x /\ (\A z \in Side : Other(z) \in Side)
  BY Sides
<1>3. NetMoves(x, k, o)
  BY DEF Quiet
<1>4. /\ \A n \in Pos(x)' : n + k \in Pos(x) /\ net'[x][n] = net[x][n + k] /\ (k = 1 => n + k # 1)
      /\ \A n \in Pos(y)' :
           \/ n \in Pos(y) /\ net'[y][n] = net[y][n]
           \/ /\ n - Len(net[y]) \in 1..Len(o) /\ n \notin Pos(y)
              /\ net'[y][n] = o[n - Len(net[y])]
      /\ \A z \in Side : z = x \/ z = y
      /\ \A z \in Side : \A n \in Pos(z)' : n \in Nat \ {0} /\ net'[z][n] \in Packet
      /\ \A z \in Side : \A n \in Pos(z) : n \in Nat \ {0} /\ net[z][n] \in Packet
      /\ k \in {0, 1} /\ Len(net[y]) \in Nat
  BY <1>1, <1>3, PacketsFrom
<1>5. /\ \A z \in Side : next_id[z] \in Nat /\ next_id'[z] \in Nat /\ next_id'[z] >= next_id[z]
      /\ \A z \in Side, i \in Ids : app[z][i].mate \in Nat /\ app'[z][i].mate = app[z][i].mate
      /\ Ids \subseteq Nat \ {0}
  <2>1. \A z \in Side : next_id[z] \in Nat /\ next_id'[z] \in Nat /\ next_id'[z] >= next_id[z]
    BY <1>1 DEF Quiet, TypeOK
  <2>2. Ids \subseteq Nat \ {0}
    BY StreamsAssumption DEF Ids
  <2>3. \A z \in Side, i \in Ids : app[z][i].mate \in Ids \cup {0} /\ app'[z][i].mate = app[z][i].mate
    <3>1. app \in [Side -> [Ids -> App]]
      BY <1>1 DEF TypeOK
    <3>2. \A z \in Side, i \in Ids : app[z][i].mate \in Ids \cup {0}
      BY <3>1 DEF App
    <3>3. \A z \in Side, i \in Ids : app'[z][i].mate = app[z][i].mate
      BY DEF Quiet
    <3> QED BY <3>2, <3>3
  <2>4. \A v \in Ids \cup {0} : v \in Nat
    BY <2>2
  <2>5. \A z \in Side, i \in Ids : app[z][i].mate \in Nat
    BY <2>3, <2>4
  <2> QED BY <2>1, <2>2, <2>3, <2>5
<1>6. \A z \in Side, i \in Ids : i >= next_id[z] => Fresh(z, i)
  BY <1>1 DEF IdsUsed
<1>7. \A z \in Side, i \in Ids : app[Other(z)][i].mate < next_id[z]
  BY <1>1 DEF IdsUsed
<1>8. ASSUME NEW n \in 1..Len(o)
      PROVE  /\ o[n].cmd \in {"OKAY", "WRTE"} => app[x][o[n].arg0].mate = o[n].arg1
             /\ o[n].cmd = "OPEN" => o[n].arg0 = next_id[x] /\ o[n].gen = 0 /\ next_id'[x] > next_id[x]
             /\ o[n].cmd = "CLSE" => o[n].arg0 < next_id[x] /\ o[n].arg1 < next_id[y]
             /\ o[n].cmd = "CLSE" /\ o[n].arg0 = 0 =>
                  k = 1 /\ 1 \in Pos(x) /\ net[x][1].cmd = "OPEN" /\ net[x][1].arg0 = o[n].arg1
  BY DEF Quiet
<1>9. \A m, n \in 1..Len(o) : o[m].cmd = "OPEN" /\ o[n].cmd = "OPEN" => m = n
  BY DEF Quiet
<1>10. \A z \in Side : \A n \in Pos(z) :
         /\ net[z][n].cmd = "OPEN" => net[z][n].arg0 < next_id[Other(z)] /\ net[z][n].gen = 0
         /\ net[z][n].cmd = "CLSE" => net[z][n].arg0 < next_id[Other(z)] /\ net[z][n].arg1 < next_id[z]
  BY <1>1 DEF IdsUsed
<1>11. \A z \in Side : \A n \in Pos(z) :
         /\ net[z][n].cmd \in {"OKAY", "WRTE"} => app[Other(z)][net[z][n].arg0].mate = net[z][n].arg1
         /\ net[z][n].cmd = "OPEN" =>
              /\ Unasked(Other(z), net[z][n].arg0)
              /\ \A m \in Pos(z) : net[z][m].cmd = "OPEN" /\ net[z][m].arg0 = net[z][n].arg0 => m = n
         /\ net[z][n].cmd = "CLSE" /\ net[z][n].arg0 = 0 =>
              /\ Unasked(z, net[z][n].arg1)
              /\ \A m \in Pos(Other(z)) :
                   ~(net[Other(z)][m].cmd = "OPEN" /\ net[Other(z)][m].arg0 = net[z][n].arg1)
  BY <1>1 DEF Announced
<1>12. \A z \in Side, i \in Ids : Unasked(z, i) => Unasked(z, i)'
  BY <1>2, <1>5 DEF Unasked
<1>13. IdsUsed'
  <2>1. \A z \in Side, i \in Ids : i >= next_id'[z] => Fresh(z, i)'
    <3> SUFFICES ASSUME NEW z \in Side, NEW i \in Ids, i >= next_id'[z] PROVE Fresh(z, i)'
      OBVIOUS
    <3>1. Fresh(z, i)
      BY <1>5, <1>6
    <3>2. sock'[z][i].list = sock[z][i].list /\ Str(z, i)' = Str(z, i) /\ app'[z][i].sent = app[z][i].sent
      BY DEF Quiet
    <3> QED BY <1>5, <3>1, <3>2 DEF Fresh
  <2>2. \A z \in Side, i \in Ids : app'[Other(z)][i].mate < next_id'[z]
    <3> SUFFICES ASSUME NEW z \in Side, NEW i \in Ids PROVE app'[Other(z)][i].mate < next_id'[z]
      OBVIOUS
    <3>1. app'[Other(z)][i].mate = app[Other(z)][i].mate /\ app[Other(z)][i].mate \in Nat
      BY <1>2, <1>5
    <3>2. app[Other(z)][i].mate < next_id[z]
      BY <1>7
    <3>3. next_id[z] \in Nat /\ next_id'[z] \in Nat /\ next_id'[z] >= next_id[z]
      BY <1>5
    <3> QED BY <3>1, <3>2, <3>3
  <2>3. ASSUME NEW z \in Side, NEW n \in Pos(z)'
        PROVE  /\ net'[z][n].cmd = "OPEN" => net'[z][n].arg0 < next_id'[Other(z)] /\ net'[z][n].gen = 0
               /\ net'[z][n].cmd = "CLSE" => net'[z][n].arg0 < next_id'[Other(z)] /\ net'[z][n].arg1 < next_id'[z]
    <3>1. net'[z][n] \in Packet
      BY <1>4
    <3>2. PICK p : p = net'[z][n] /\ p \in Packet
      BY <3>1
    <3>3. p.cmd = "OPEN" => p.arg0 \in Nat
      BY <1>5, <3>2, PacketFields
    <3>4. p.cmd = "CLSE" => p.arg0 \in Nat /\ p.arg1 \in Nat
      <4>1. p.cmd = "CLSE" => p.arg0 \in Ids \cup {0} /\ p.arg1 \in Ids
        BY <3>2, PacketFields
      <4>2. \A v \in Ids \cup {0} : v \in Nat
        BY <1>5
      <4> QED BY <4>1, <4>2
    <3>5. \/ \E m \in Pos(z) : p = net[z][m]
          \/ z = y /\ \E m \in 1..Len(o) : p = o[m]
      BY <1>4, <2>3, <3>2
    <3>6. /\ p.cmd = "OPEN" => /\ p.gen = 0
                               /\ p.arg0 < next_id[Other(z)]
                                  \/ (p.arg0 = next_id[Other(z)] /\ next_id'[Other(z)] > next_id[Other(z)])
          /\ p.cmd = "CLSE" => p.arg0 < next_id[Other(z)] /\ p.arg1 < next_id[z]
      BY <1>2, <1>8, <1>10, <3>5
    <3>7. /\ next_id[Other(z)] \in Nat /\ next_id'[Other(z)] \in Nat /\ next_id[z] \in Nat /\ next_id'[z] \in Nat
          /\ next_id'[Other(z)] >= next_id[Other(z)] /\ next_id'[z] >= next_id[z]
      BY <1>2, <1>5
    <3> QED BY <3>2, <3>3, <3>4, <3>6, <3>7
  <2> QED BY <2>1, <2>2, <2>3 DEF IdsUsed
<1>14. Mates'
  <2> SUFFICES ASSUME NEW z \in Side, NEW i \in Ids
               PROVE  /\ app'[z][i].mate # 0 => app'[Other(z)][app'[z][i].mate].mate \in {0, i}
                      /\ \A j \in Ids : app'[z][i].mate # 0 /\ app'[z][j].mate = app'[z][i].mate => j = i
                      /\ app'[z][i].gen = 0
                      /\ app'[z][i].mate = 0 => app'[z][i].sent = 0
                      /\ Str(z, i)' # <<>> => /\ app'[z][i].mate # 0
                                              /\ app'[Other(z)][app'[z][i].mate].mate = i
    BY DEF Mates
  <2>1. /\ app[z][i].mate # 0 => app[Other(z)][app[z][i].mate].mate \in {0, i}
        /\ \A j \in Ids : app[z][i].mate # 0 /\ app[z][j].mate = app[z][i].mate => j = i
        /\ app[z][i].gen = 0
        /\ app[z][i].mate = 0 => app[z][i].sent = 0
        /\ Str(z, i) # <<>> => app[z][i].mate # 0 /\ app[Other(z)][app[z][i].mate].mate = i
    BY <1>1 DEF Mates
  <2>2. app[z][i].mate # 0 => app[z][i].mate \in Ids
    BY <1>1 DEF TypeOK, App
  <2>3. app[z][i].mate # 0 => app'[Other(z)][app[z][i].mate].mate = app[Other(z)][app[z][i].mate].mate
    BY <1>2, <1>5, <2>2
  <2>4. app'[z][i].gen = app[z][i].gen /\ (app'[z][i].sent = app[z][i].sent \/ app[z][i].mate # 0)
    BY DEF Quiet
  <2>5. \/ Str(z, i)' = <<>> \/ Str(z, i) # <<>>
        \/ app[z][i].mate # 0 /\ app[Other(z)][app[z][i].mate].mate = i
    BY DEF Quiet
  <2>6. app'[z][i].mate = app[z][i].mate /\ (\A j \in Ids : app'[z][j].mate = app[z][j].mate)
    BY <1>5
  <2> QED BY <2>1, <2>3, <2>4, <2>5, <2>6
<1>15. Announced'
  <2> SUFFICES ASSUME NEW z \in Side, NEW n \in Pos(z)', NEW p, p = net'[z][n]
               PROVE  /\ p.cmd \in {"OKAY", "WRTE"} => app'[Other(z)][p.arg0].mate = p.arg1
                      /\ p.cmd = "OPEN" =>
                           /\ Unasked(Other(z), p.arg0)'
                           /\ \A m \in Pos(z)' : net'[z][m].cmd = "OPEN" /\ net'[z][m].arg0 = p.arg0 => m = n
                      /\ p.cmd = "CLSE" /\ p.arg0 = 0 =>
                           /\ Unasked(z, p.arg1)'
                           /\ \A m \in Pos(Other(z))' :
                                ~(net'[Other(z)][m].cmd = "OPEN" /\ net'[Other(z)][m].arg0 = p.arg1)
    BY DEF Announced, Unasked
  <2>1. p = net'[z][n] /\ p \in Packet
    BY <1>4
  <2>2. \/ \E m \in Pos(z) : p = net[z][m]
        \/ z = y /\ \E m \in 1..Len(o) : p = o[m]
    BY <1>4, <2>1
  <2>3. ASSUME p.cmd \in {"OKAY", "WRTE"} PROVE app'[Other(z)][p.arg0].mate = p.arg1
    <3>1. p.arg0 \in Ids
      BY <2>1, <2>3, PacketFields
    <3>2. app[Other(z)][p.arg0].mate = p.arg1
      BY <1>2, <1>8, <1>11, <2>2, <2>3
    <3> QED BY <1>2, <1>5, <3>1, <3>2
  <2>4. ASSUME p.cmd = "OPEN" PROVE Unasked(Other(z), p.arg0)'
    <3>1. p.arg0 \in Ids
      BY <2>1, <2>4, PacketFields
    <3>2. CASE \E m \in Pos(z) : p = net[z][m]
      BY <1>2, <1>11, <1>12, <2>4, <3>1, <3>2
    <3>3. CASE z = y /\ \E m \in 1..Len(o) : p = o[m]
      <4>1. Other(z) = x /\ p.arg0 = next_id[x]
        BY <1>2, <1>8, <2>4, <3>3
      <4>2. app[x][p.arg0].mate = 0
        BY <1>5, <1>6, <3>1, <4>1 DEF Fresh
      <4>3. \A j \in Ids : app[y][j].mate # p.arg0
        BY <1>5, <1>7, <4>1
      <4> QED BY <1>2, <1>12, <3>1, <4>1, <4>2, <4>3 DEF Unasked
    <3> QED BY <2>2, <3>2, <3>3
  <2>5. ASSUME p.cmd = "OPEN", NEW m \in Pos(z)', net'[z][m].cmd = "OPEN", net'[z][m].arg0 = p.arg0
        PROVE  m = n
    <3>1. CASE z = x
      <4>1. /\ n + k \in Pos(x) /\ p = net[x][n + k] /\ m + k \in Pos(x) /\ net'[x][m] = net[x][m + k]
            /\ m \in Nat /\ n \in Nat /\ k \in Nat
        BY <1>4, <2>1, <3>1
      <4>2. m + k = n + k
        BY <1>11, <2>5, <3>1, <4>1
      <4> QED BY <4>1, <4>2
    <3>2. CASE z = y
      <4>1. \A l \in Pos(y)' : net'[y][l].cmd = "OPEN" /\ l \notin Pos(y) =>
              l - Len(net[y]) \in 1..Len(o) /\ o[l - Len(net[y])].cmd = "OPEN" /\ net'[y][l].arg0 = next_id[x]
        BY <1>4, <1>8
      <4>2. \A l \in Pos(y)' : net'[y][l].cmd = "OPEN" /\ l \in Pos(y) =>
              net'[y][l] = net[y][l] /\ net'[y][l].arg0 < next_id[x]
        BY <1>2, <1>4, <1>10
      <4>3. p.arg0 \in Nat /\ next_id[x] \in Nat
        BY <1>5, <2>1, <2>5, PacketFields
      <4>4. CASE n \in Pos(y) /\ m \in Pos(y)
        BY <1>2, <1>11, <2>1, <2>5, <3>2, <4>2, <4>4
      <4>5. CASE n \notin Pos(y) /\ m \notin Pos(y)
        <5>1. n - Len(net[y]) = m - Len(net[y])
          BY <1>9, <2>1, <2>5, <3>2, <4>1, <4>5
        <5> QED BY <1>2, <1>4, <3>2, <5>1
      <4>6. n \in Pos(y) <=> m \in Pos(y)
        BY <2>1, <2>5, <3>2, <4>1, <4>2, <4>3
      <4> QED BY <4>4, <4>5, <4>6
    <3> QED BY <1>4, <3>1, <3>2
  <2>6. ASSUME p.cmd = "CLSE", p.arg0 = 0 PROVE Unasked(z, p.arg1)'
    <3>1. p.arg1 \in Ids
      BY <2>1, <2>6, PacketFields
    <3>2. CASE \E m \in Pos(z) : p = net[z][m]
      BY <1>2, <1>11, <1>12, <2>6, <3>1, <3>2
    <3>3. CASE z = y /\ \E m \in 1..Len(o) : p = o[m]
      <4>1. 1 \in Pos(x) /\ net[x][1].cmd = "OPEN" /\ net[x][1].arg0 = p.arg1
        BY <1>8, <2>6, <3>3
      <4>2. Unasked(y, p.arg1)
        BY <1>11, <4>1
      <4> QED BY <1>2, <1>12, <3>1, <3>3, <4>2
    <3> QED BY <2>2, <3>2, <3>3
  <2>7. ASSUME p.cmd = "CLSE", p.arg0 = 0, NEW m \in Pos(Other(z))', net'[Other(z)][m].cmd = "OPEN",
               net'[Other(z)][m].arg0 = p.arg1
        PROVE  FALSE
    <3>1. p.arg1 \in Nat
      BY <1>5, <2>1, <2>7, PacketFields
    <3>2. CASE z = x
      <4>1. n + k \in Pos(x) /\ p = net[x][n + k]
        BY <1>4, <2>1, <3>2
      <4>2. p.arg1 < next_id[x]
        BY <1>10, <2>7, <4>1
      <4>3. CASE m \in Pos(y)
        <5>1. m \in Pos(y)'
          BY <3>2 DEF Pos
        <5>2. net'[y][m] = net[y][m]
          BY <1>4, <4>3, <5>1
        <5>3. net[y][m].cmd = "OPEN" /\ net[y][m].arg0 = p.arg1
          BY <2>7, <3>2, <5>2
        <5> QED BY <1>11, <2>7, <4>1, <4>3, <5>3
      <4>4. CASE m \notin Pos(y)
        <5>1. net'[y][m].arg0 = next_id[x]
          BY <1>4, <1>8, <2>7, <3>2, <4>4
        <5> QED BY <1>5, <2>7, <3>1, <3>2, <4>2, <5>1
      <4> QED BY <4>3, <4>4
    <3>3. CASE z = y
      <4>1. m \in Pos(x)'
        BY <1>2, <3>3 DEF Pos
      <4>2. m + k \in Pos(x) /\ net'[x][m] = net[x][m + k] /\ (k = 1 => m + k # 1)
        BY <1>4, <4>1
      <4>3. CASE n \in Pos(y)
        <5>1. p = net[y][n] /\ net[x][m + k].cmd = "OPEN" /\ net[x][m + k].arg0 = p.arg1
          BY <1>2, <1>4, <2>1, <2>7, <3>3, <4>2, <4>3
        <5> QED BY <1>2, <1>11, <2>7, <4>2, <4>3, <5>1
      <4>4. CASE n \notin Pos(y)
        <5>1. k = 1 /\ 1 \in Pos(x) /\ net[x][1].cmd = "OPEN" /\ net[x][1].arg0 = p.arg1
          BY <1>4, <1>8, <2>1, <2>7, <3>3, <4>4
        <5>2. m + k = 1
          BY <1>2, <1>11, <2>7, <3>3, <4>2, <5>1
        <5> QED BY <4>2, <5>1, <5>2
      <4> QED BY <4>3, <4>4
    <3> QED BY <1>4, <3>2, <3>3
  <2> QED BY <2>1, <2>3, <2>4, <2>5, <2>6, <2>7
<1> QED BY <1>13, <1>14, <1>15 DEF MateInv

\* The facts of MateInv that the steps use.
LEMMA MateFacts ==
  ASSUME StreamInv, MateInv
  PROVE  /\ \A z \in Side, j \in Ids : j >= next_id[z] => Fresh(z, j)
         /\ \A z \in Side, j \in Ids : app[Other(z)][j].mate < next_id[z]
         /\ \A z \in Side, j \in Ids :
              sock[z][j].list = "open" => sock[z][j].peer = app[z][j].mate /\ online[z]
         /\ \A z \in Side, j \in Ids : sock[z][j].list # "none" => j < next_id[z]
         /\ \A z \in Side : \A n \in Pos(z) : net[z][n].cmd \in {"OKAY", "WRTE"} =>
              app[Other(z)][net[z][n].arg0].mate = net[z][n].arg1
         /\ \A z \in Side : next_id[z] \in Nat
         /\ Ids \subseteq Nat \ {0}
<1>1. /\ \A z \in Side, j \in Ids : j >= next_id[z] => Fresh(z, j)
      /\ \A z \in Side, j \in Ids : app[Other(z)][j].mate < next_id[z]
  BY DEF MateInv, IdsUsed
<1>2. \A z \in Side, j \in Ids : sock[z][j].list = "open" => sock[z][j].peer = app[z][j].mate /\ online[z]
  BY DEF MateInv, OpenMates
<1>3. \A z \in Side : next_id[z] \in Nat
  BY DEF StreamInv, TypeInv, TypeOK
<1>4. Ids \subseteq Nat \ {0}
  BY StreamsAssumption DEF Ids
<1>5. \A z \in Side, j \in Ids : sock[z][j].list # "none" => j < next_id[z]
  <2> SUFFICES ASSUME NEW z \in Side, NEW j \in Ids, ~(j < next_id[z]) PROVE sock[z][j].list = "none"
    OBVIOUS
  <2>1. j >= next_id[z]
    BY <1>3, <1>4
  <2> QED BY <1>1, <2>1 DEF Fresh
<1>6. \A z \in Side : \A n \in Pos(z) : net[z][n].cmd \in {"OKAY", "WRTE"} =>
              app[Other(z)][net[z][n].arg0].mate = net[z][n].arg1
  BY DEF MateInv, Announced
<1> QED BY <1>1, <1>2, <1>3, <1>4, <1>5, <1>6

\* A step of one socket connects none.
LEMMA TalkQuiet ==
  ASSUME StreamInv, StreamInv', MateInv, NEW x \in Side, NEW i \in Ids, NEW r, NEW out, NEW d, NEW e, NEW k, NEW o,
         Talks(x, i, r, out, d, e), o = Sent(out), NetMoves(x, k, o), Taken(x, k, r)
  PROVE  Quiet(x, k, o) /\ OpenMates'
<1> DEFINE y == Other(x)
<1>1. TypeOK /\ BacklogHasPeer /\ TypeOK'
  BY DEF StreamInv, TypeInv
<1>2. y \in Side /\ y # x /\ (\A z \in Side : z = x \/ z = y)
  BY Sides
<1>3. /\ Frame(x, i) /\ TalkOut(sock[x][i], sock'[x][i], i, out, d) /\ Sends(x, i, d)
      /\ Gets(x, i, e) /\ Lives(x, i, r) /\ Takes(x, i, r, e)
  BY DEF Talks
<1>4. /\ \A j \in Ids \ {i} : sock'[x][j] = sock[x][j] /\ app'[x][j] = app[x][j]
      /\ sock'[y] = sock[y] /\ app'[y] = app[y]
      /\ UNCHANGED <<next_id, online, link, gen, breaks, opens>>
  BY <1>3 DEF Frame
<1>5. /\ \A z \in Side, j \in Ids : j >= next_id[z] => Fresh(z, j)
      /\ \A z \in Side, j \in Ids : app[Other(z)][j].mate < next_id[z]
      /\ \A z \in Side, j \in Ids :
           sock[z][j].list = "open" => sock[z][j].peer = app[z][j].mate /\ online[z]
      /\ \A z \in Side, j \in Ids : sock[z][j].list # "none" => j < next_id[z]
      /\ \A z \in Side : \A n \in Pos(z) : net[z][n].cmd \in {"OKAY", "WRTE"} =>
           app[Other(z)][net[z][n].arg0].mate = net[z][n].arg1
      /\ \A z \in Side : next_id[z] \in Nat
      /\ Ids \subseteq Nat \ {0}
  BY MateFacts
<1>6. /\ sock[x][i].list # "none"
      /\ \/ sock'[x][i].list = sock[x][i].list /\ sock'[x][i].peer = sock[x][i].peer
         \/ sock'[x][i].list \in {"closing", "none"} /\ sock'[x][i].peer = 0
      /\ app'[x][i].mate = app[x][i].mate /\ app'[x][i].gen = app[x][i].gen
  BY <1>3 DEF Lives
<1>7. i < next_id[x] /\ (sock[x][i].list = "open" => sock[x][i].peer = app[x][i].mate /\ online[x])
  BY <1>5, <1>6
<1>8. \A z \in Side, j \in Ids : (z # x \/ j # i) => sock'[z][j] = sock[z][j] /\ app'[z][j] = app[z][j]
  BY <1>2, <1>4
<1>9. \A z \in Side, j \in Ids : (z # x \/ j # i) => Str(z, j)' = Str(z, j)
  BY <1>8 DEF Str
<1>10. \A z \in Side, j \in Ids : app'[z][j].mate = app[z][j].mate /\ app'[z][j].gen = app[z][j].gen
  BY <1>6, <1>8
<1>11. \A z \in Side, j \in Ids : j >= next_id'[z] =>
         sock'[z][j].list = sock[z][j].list /\ Str(z, j)' = Str(z, j) /\ app'[z][j].sent = app[z][j].sent
  <2> SUFFICES ASSUME NEW z \in Side, NEW j \in Ids, j >= next_id'[z]
               PROVE  z # x \/ j # i
    BY <1>8, <1>9
  <2>1. next_id' = next_id /\ next_id[x] \in Nat /\ i \in Nat
    BY <1>4, <1>5
  <2> QED BY <1>7, <2>1
<1>12. app'[x][i].sent = app[x][i].sent \/ app[x][i].mate # 0
  <2>1. CASE d = <<>>
    <3>1. app[x][i].sent \in Nat /\ Len(d) = 0
      BY <1>1, <2>1 DEF TypeOK, App
    <3> QED BY <1>3, <3>1 DEF Sends
  <2>2. CASE d # <<>>
    <3>1. sock[x][i].list = "open" /\ sock[x][i].peer # 0
      BY <1>3, <2>2 DEF TalkOut
    <3> QED BY <1>7, <3>1
  <2> QED BY <2>1, <2>2
<1>13. app[x][i].got \in Seq(Unit) /\ sock[x][i].pkts \in Seq(Unit) /\ Str(x, i) \in Seq(Unit)
  BY <1>1 DEF TypeOK, App, Socket, Str
<1>14. \/ Str(x, i)' = <<>> \/ Str(x, i) # <<>>
       \/ app[x][i].mate # 0 /\ app[y][app[x][i].mate].mate = i
  <2>1. CASE /\ sock'[x][i].list = "none" /\ app[x][i].end # "open"
             /\ sock'[x][i].pkts = <<>> /\ app'[x][i].got = app[x][i].got
    <3>1. Str(x, i)' = app[x][i].got
      BY <1>13, <2>1 DEF Str
    <3>2. app[x][i].got # <<>> => Str(x, i) # <<>>
      BY <1>13 DEF Str
    <3> QED BY <3>1, <3>2
  <2>2. CASE Str(x, i)' = Str(x, i) \o e
    <3>1. CASE e = <<>>
      BY <1>13, <2>2, <3>1
    <3>2. CASE e # <<>>
      <4>1. /\ r = Rest(x) /\ Receive(x, "WRTE") /\ e = Head(net[x]).data
            /\ Head(net[x]).arg1 = i /\ online[x] /\ Found(x, i, Head(net[x]).arg0)
        BY <1>3, <3>2 DEF Takes
      <4>2. k = 1
        BY <4>1 DEF NetMoves, Taken, Receive
      <4>3. PICK p : p = Head(net[x]) /\ p = net[x][1] /\ 1 \in Pos(x)
        BY <4>2 DEF Taken
      <4>4. p.cmd = "WRTE" /\ p.arg1 = i
        BY <4>1, <4>3 DEF Receive
      <4>5. p \in Packet
        BY <1>1, <4>3 DEF TypeOK, Pos
      <4>6. p.arg0 \in Ids
        BY <4>4, <4>5, PacketFields
      <4>7. sock[x][i].list = "open" /\ sock[x][i].peer = p.arg0
        BY <1>5, <4>1, <4>3, <4>6 DEF Found
      <4>8. app[x][i].mate = p.arg0 /\ app[x][i].mate # 0
        BY <1>5, <1>7, <4>6, <4>7
      <4>9. app[y][p.arg0].mate = i
        BY <1>5, <4>3, <4>4
      <4> QED BY <4>8, <4>9
    <3> QED BY <3>1, <3>2
  <2> QED BY <1>3, <2>1, <2>2 DEF Gets
<1>15. ASSUME NEW n \in 1..Len(o)
       PROVE  /\ o[n].cmd \in {"OKAY", "WRTE", "CLSE"} /\ o[n].arg0 = i /\ o[n].arg1 = app[x][i].mate
  <2>1. n \in 1..Len(out) /\ o = out
    BY DEF Sent
  <2>2. out[n].cmd \in {"OKAY", "WRTE", "CLSE"} /\ out[n].arg0 = i /\ out[n].arg1 = sock[x][i].peer
        /\ sock[x][i].list = "open"
    BY <1>3, <2>1 DEF TalkOut
  <2> QED BY <1>7, <2>1, <2>2
<1>16. app[x][i].mate < next_id[y] /\ i # 0
  BY <1>2, <1>5, Sides
<1>17. OpenMates'
  <2>1. \A z \in Side, j \in Ids : sock'[z][j].list = "open" => sock'[z][j].peer = app'[z][j].mate /\ online'[z]
    <3> SUFFICES ASSUME NEW z \in Side, NEW j \in Ids, sock'[z][j].list = "open"
                 PROVE  sock'[z][j].peer = app'[z][j].mate /\ online'[z]
      OBVIOUS
    <3>1. CASE z # x \/ j # i
      BY <1>4, <1>5, <1>8, <3>1
    <3>2. CASE z = x /\ j = i
      BY <1>4, <1>5, <1>6, <3>2
    <3> QED BY <3>1, <3>2
  <2> QED BY <2>1 DEF OpenMates
<1>18. \A z \in Side, j \in Ids : app'[z][j].sent = app[z][j].sent \/ app[z][j].mate # 0
  BY <1>8, <1>12
<1>19. \A z \in Side, j \in Ids :
         \/ Str(z, j)' = <<>> \/ Str(z, j) # <<>>
         \/ app[z][j].mate # 0 /\ app[Other(z)][app[z][j].mate].mate = j
  BY <1>9, <1>14
<1>20. \A z \in Side : next_id'[z] \in Nat /\ next_id'[z] >= next_id[z]
  BY <1>4, <1>5
<1>21. ASSUME NEW n \in 1..Len(o)
       PROVE  /\ o[n].cmd \in {"OKAY", "WRTE"} => app[x][o[n].arg0].mate = o[n].arg1
              /\ o[n].cmd # "OPEN"
              /\ o[n].cmd = "CLSE" => o[n].arg0 < next_id[x] /\ o[n].arg1 < next_id[y]
              /\ o[n].arg0 # 0
  BY <1>7, <1>15, <1>16
<1> QED BY <1>10, <1>11, <1>17, <1>18, <1>19, <1>20, <1>21 DEF Quiet

\* A handler takes the first packet of its queue.
LEMMA HeadTaken ==
  ASSUME TypeOK, NEW x \in Side, NEW out \in Seq(Packet), net[x] # <<>>, net' = Send(Rest(x), x, out)
  PROVE  NetMoves(x, 1, Sent(out)) /\ 1 \in Pos(x) /\ Head(net[x]) = net[x][1] /\ Head(net[x]) \in Packet
<1>1. PICK r : r = Rest(x)
  OBVIOUS
<1>2. PICK k \in {0, 1} : NetMoves(x, k, Sent(out)) /\ Taken(x, k, r)
  BY <1>1, NetMoved
<1>3. k = 1
  BY <1>1, <1>2 DEF Taken
<1>4. net[x][1] \in Packet
  BY <1>2, <1>3 DEF Taken, Pos, TypeOK
<1> QED BY <1>2, <1>3, <1>4 DEF Taken

\* What is sent is what was said, or nothing.
LEMMA SentOf ==
  ASSUME NEW out \in Seq(Packet), NEW n \in 1..Len(Sent(out))
  PROVE  n \in 1..Len(out) /\ Sent(out)[n] = out[n]
BY DEF Sent

\* Neither does a packet for nobody, ...
LEMMA IgnoredQuiet ==
  ASSUME StreamInv, StreamInv', MateInv, NEW x \in Side, NEW out, Ignored(x, out)
  PROVE  Quiet(x, 1, Sent(out)) /\ OpenMates'
<1> DEFINE y == Other(x)
<1>1. TypeOK /\ TypeOK' /\ out \in Seq(Packet) /\ NoOpens(out)
  BY IgnoredKept DEF StreamInv, TypeInv
<1>2. /\ UNCHANGED <<next_id, sock, app, online, link, gen, breaks, opens>>
      /\ net[x] # <<>> /\ net' = Send(Rest(x), x, out)
  BY DEF Ignored
<1>3. NetMoves(x, 1, Sent(out)) /\ 1 \in Pos(x) /\ Head(net[x]) = net[x][1] /\ Head(net[x]) \in Packet
  BY <1>1, <1>2, HeadTaken
<1>4. PICK p, o : p = Head(net[x]) /\ o = Sent(out)
  OBVIOUS
<1>5. /\ \A z \in Side, j \in Ids : sock[z][j].list # "none" => j < next_id[z]
      /\ \A z \in Side, j \in Ids : j >= next_id[z] => Fresh(z, j)
      /\ \A z \in Side, j \in Ids : app[Other(z)][j].mate < next_id[z]
      /\ \A z \in Side : \A n \in Pos(z) : net[z][n].cmd \in {"OKAY", "WRTE"} =>
              app[Other(z)][net[z][n].arg0].mate = net[z][n].arg1
      /\ \A z \in Side : next_id[z] \in Nat
      /\ Ids \subseteq Nat \ {0}
  BY MateFacts
<1>6. y \in Side /\ Other(y) = x
  BY Sides
<1>7. p = net[x][1] /\ p \in Packet
  BY <1>3, <1>4
<1>8. ASSUME NEW n \in 1..Len(o)
      PROVE  /\ o[n].cmd = "CLSE"
             /\ \/ /\ o[n].arg0 = 0 /\ o[n].arg1 = p.arg0 /\ p.cmd = "OPEN"
                \/ /\ o[n].arg0 = p.arg1 /\ o[n].arg1 = p.arg0 /\ p.cmd = "OKAY"
  <2>1. n \in 1..Len(out) /\ o[n] = out[n]
    BY <1>1, <1>4, SentOf
  <2>2. \/ p.cmd = "OPEN" /\ out = <<Clse(0, p.arg0)>>
        \/ p.cmd = "OKAY" /\ out = <<Clse(p.arg1, p.arg0)>>
    <3>1. out # <<>>
      BY <2>1
    <3> QED BY <1>4, <3>1 DEF Ignored
  <2>3. CASE p.cmd = "OPEN" /\ out = <<Clse(0, p.arg0)>>
    <3>1. out[n] = Clse(0, p.arg0)
      BY <2>1, <2>3
    <3> QED BY <2>1, <2>3, <3>1 DEF Clse
  <2>4. CASE p.cmd = "OKAY" /\ out = <<Clse(p.arg1, p.arg0)>>
    <3>1. out[n] = Clse(p.arg1, p.arg0)
      BY <2>1, <2>4
    <3> QED BY <2>1, <2>4, <3>1 DEF Clse
  <2> QED BY <2>2, <2>3, <2>4
<1>9. p.cmd = "OPEN" => p.arg0 \in Ids /\ p.arg0 < next_id[y]
  <2>1. p.cmd = "OPEN" => p.arg0 < next_id[y]
    BY <1>3, <1>7 DEF MateInv, IdsUsed
  <2> QED BY <1>7, <2>1, PacketFields
<1>10. p.cmd = "OKAY" => p.arg0 \in Ids /\ p.arg1 \in Ids /\ app[y][p.arg0].mate = p.arg1
  BY <1>3, <1>5, <1>7, PacketFields
<1>11. p.cmd = "OKAY" => p.arg0 < next_id[y] /\ p.arg1 < next_id[x]
  <2> SUFFICES ASSUME p.cmd = "OKAY" PROVE p.arg0 < next_id[y] /\ p.arg1 < next_id[x]
    OBVIOUS
  <2>1. p.arg1 < next_id[x]
    BY <1>5, <1>10
  <2>2. p.arg0 \in Nat /\ next_id[y] \in Nat /\ p.arg1 # 0
    BY <1>5, <1>6, <1>10
  <2>3. ASSUME p.arg0 >= next_id[y] PROVE FALSE
    BY <1>5, <1>6, <1>10, <2>2, <2>3 DEF Fresh
  <2> QED BY <2>1, <2>2, <2>3
<1>12. 0 < next_id[x]
  BY <1>1 DEF TypeOK
<1>13. OpenMates'
  BY <1>2 DEF MateInv, OpenMates
<1>14. ASSUME NEW n \in 1..Len(o)
       PROVE  /\ o[n].cmd = "CLSE"
              /\ o[n].arg0 < next_id[x] /\ o[n].arg1 < next_id[y]
              /\ o[n].arg0 = 0 => net[x][1].cmd = "OPEN" /\ net[x][1].arg0 = o[n].arg1
  <2>1. p.cmd = "OKAY" => p.arg1 # 0
    BY <1>5, <1>10
  <2> QED BY <1>7, <1>8, <1>9, <1>11, <1>12, <2>1
<1>15. \A z \in Side, j \in Ids : Str(z, j)' = Str(z, j)
  BY <1>2 DEF Str
<1>16. \A z \in Side : next_id'[z] \in Nat /\ next_id'[z] >= next_id[z]
  BY <1>2, <1>5
<1>17. Quiet(x, 1, o)
  BY <1>2, <1>3, <1>4, <1>14, <1>15, <1>16 DEF Quiet
<1> QED BY <1>4, <1>13, <1>17

\* ... a CNXN or a SYNC, ...
LEMMA ResetQuiet ==
  ASSUME StreamInv, StreamInv', MateInv, NEW x \in Side, NEW out, Reset(x, out)
  PROVE  Quiet(x, 1, Sent(out)) /\ OpenMates'
<1> DEFINE y == Other(x)
<1>1. TypeOK /\ TypeOK' /\ out \in Seq(Packet)
  BY DEF StreamInv, TypeInv, Reset
<1>2. /\ UNCHANGED <<next_id, app, link, gen, breaks, opens>>
      /\ net[x] # <<>> /\ net' = Send(Rest(x), x, out)
      /\ sock'[y] = sock[y]
      /\ online' = [online EXCEPT ![x] = (Head(net[x]).cmd = "CNXN")]
      /\ \A i \in Ids : \/ sock'[x][i] = sock[x][i]
                        \/ /\ sock[x][i].list = "open" /\ sock'[x][i].list \in {"closing", "none"}
                           /\ sock'[x][i].peer = 0 /\ sock'[x][i].pkts = sock[x][i].pkts
  BY DEF Reset
<1>3. NetMoves(x, 1, Sent(out))
  BY <1>1, <1>2, HeadTaken
<1>4. PICK o : o = Sent(out)
  OBVIOUS
<1>5. /\ \A z \in Side, j \in Ids : sock[z][j].list # "none" => j < next_id[z]
      /\ \A z \in Side, j \in Ids : app[Other(z)][j].mate < next_id[z]
      /\ \A z \in Side, j \in Ids :
           sock[z][j].list = "open" => sock[z][j].peer = app[z][j].mate /\ online[z]
      /\ \A z \in Side : next_id[z] \in Nat
      /\ Ids \subseteq Nat \ {0}
  BY MateFacts
<1>6. y \in Side /\ Other(y) = x /\ (\A z \in Side : z = x \/ z = y)
  BY Sides
<1>7. \A i \in Ids : sock'[x][i].list # "open"
  <2>1. CASE online[x] \/ Head(net[x]).cmd = "SYNC"
    BY <2>1 DEF Reset
  <2>2. CASE ~online[x] /\ Head(net[x]).cmd # "SYNC"
    <3>1. sock' = sock
      BY <2>2 DEF Reset
    <3> QED BY <1>5, <2>2, <3>1
  <2> QED BY <2>1, <2>2
<1>8. \A z \in Side, j \in Ids : Str(z, j)' = Str(z, j)
  <2>1. \A j \in Ids : sock'[x][j].pkts = sock[x][j].pkts
    BY <1>2
  <2>2. \A z \in Side, j \in Ids : sock'[z][j].pkts = sock[z][j].pkts
    BY <1>2, <1>6, <2>1
  <2> QED BY <1>2, <2>2 DEF Str
<1>9. \A z \in Side, j \in Ids : j >= next_id'[z] => sock'[z][j].list = sock[z][j].list
  <2> SUFFICES ASSUME NEW z \in Side, NEW j \in Ids, sock'[z][j].list # sock[z][j].list
               PROVE  j < next_id[z]
    BY <1>2, <1>5
  <2>1. z = x /\ sock[x][j].list = "open"
    BY <1>2, <1>6
  <2> QED BY <1>5, <2>1
<1>10. ASSUME NEW n \in 1..Len(o)
       PROVE  \/ o[n].cmd = "CLSE" /\ o[n].arg0 \in Ids /\ o[n].arg0 < next_id[x] /\ o[n].arg1 < next_id[y]
              \/ o[n].cmd = "CNXN"
  <2>1. n \in 1..Len(out) /\ o[n] = out[n]
    BY <1>1, <1>4, SentOf
  <2>2. \/ \E i \in Ids : out[n] = Clse(i, sock[x][i].peer) /\ sock[x][i].list = "open"
        \/ out[n] = Cnxn
    BY <2>1 DEF Reset
  <2>3. ASSUME NEW i \in Ids, out[n] = Clse(i, sock[x][i].peer), sock[x][i].list = "open"
        PROVE  out[n].cmd = "CLSE" /\ out[n].arg0 = i /\ i < next_id[x] /\ out[n].arg1 < next_id[y]
    <3>1. out[n].cmd = "CLSE" /\ out[n].arg0 = i /\ out[n].arg1 = sock[x][i].peer
      BY <2>3 DEF Clse
    <3>2. sock[x][i].peer = app[x][i].mate /\ i < next_id[x]
      BY <1>5, <2>3
    <3>3. app[x][i].mate < next_id[y]
      BY <1>5, <1>6
    <3> QED BY <3>1, <3>2, <3>3
  <2> QED BY <2>1, <2>2, <2>3 DEF Cnxn
<1>11. OpenMates'
  <2> SUFFICES ASSUME NEW z \in Side, NEW i \in Ids, sock'[z][i].list = "open"
               PROVE  sock'[z][i].peer = app'[z][i].mate /\ online'[z]
    BY DEF OpenMates
  <2>1. z = y
    BY <1>6, <1>7
  <2>2. sock'[z] = sock[z] /\ app'[z] = app[z] /\ online'[z] = online[z]
    BY <1>1, <1>2, <2>1, Sides DEF TypeOK
  <2> QED BY <1>5, <2>2
<1>12. \A z \in Side : next_id'[z] \in Nat /\ next_id'[z] >= next_id[z]
  BY <1>2, <1>5
<1>13. ASSUME NEW n \in 1..Len(o)
       PROVE  /\ o[n].cmd \notin {"OKAY", "WRTE", "OPEN"}
              /\ o[n].cmd = "CLSE" => o[n].arg0 # 0 /\ o[n].arg0 < next_id[x] /\ o[n].arg1 < next_id[y]
  <2>1. \A v \in Ids : v # 0
    BY <1>5
  <2> QED BY <1>10, <2>1
<1>14. Quiet(x, 1, o)
  BY <1>2, <1>3, <1>4, <1>8, <1>9, <1>12, <1>13 DEF Quiet
<1> QED BY <1>4, <1>11, <1>14

\* ... or a client that is accepted and asks for its service.
LEMMA ConnectedQuiet ==
  ASSUME StreamInv, StreamInv', MateInv, gen = 0, NEW x \in Side, Connected(x)
  PROVE  \E out \in Seq(Packet) : /\ out = <<Open(next_id[x])>> /\ NetMoves(x, 0, Sent(out))
                                  /\ Quiet(x, 0, Sent(out)) /\ OpenMates'
<1> DEFINE y == Other(x)
<1>1. TypeOK /\ TypeOK'
  BY DEF StreamInv, TypeInv
<1>2. PICK i, s, a, out : /\ i = next_id[x] /\ s = [NoSocket EXCEPT !.list = "open"] /\ a = NewApp(gen, 0)
                          /\ out = <<Open(i)>>
  OBVIOUS
<1>3. /\ i \in Ids
      /\ next_id' = [next_id EXCEPT ![x] = i + 1]
      /\ sock' = [sock EXCEPT ![x][i] = s] /\ app' = [app EXCEPT ![x][i] = a]
      /\ UNCHANGED <<online, link, gen, breaks>>
      /\ online[x] /\ net' = Send(net, x, out)
  BY <1>2 DEF Connected, Created
<1>4. s.list = "open" /\ s.peer = 0 /\ s.pkts = <<>>
      /\ a.mate = 0 /\ a.gen = 0 /\ a.sent = 0 /\ a.got = <<>>
  BY <1>2 DEF NoSocket, NewApp
<1>5. out \in Seq(Packet)
  BY <1>1, <1>2, <1>3, PacketsMade DEF TypeOK
<1>6. y \in Side /\ y # x /\ (\A z \in Side : z = x \/ z = y)
  BY Sides
<1>7. PICK k \in {0, 1} : NetMoves(x, k, Sent(out)) /\ Taken(x, k, net)
  <2>1. PICK r : r = net
    OBVIOUS
  <2> QED BY <1>1, <1>3, <1>5, <2>1, NetMoved
<1>8. NetMoves(x, 0, Sent(out))
  <2>1. ASSUME k = 1 PROVE FALSE
    <3>1. net = Rest(x) /\ net[x] # <<>>
      BY <1>7, <2>1 DEF Taken
    <3>2. net[x] \in Seq(Packet) /\ net \in [Side -> Seq(Packet)]
      BY <1>1 DEF TypeOK
    <3>3. Len(Tail(net[x])) = Len(net[x]) - 1 /\ Len(net[x]) \in Nat
      BY <3>2, <3>1, Tailed
    <3>4. Rest(x)[x] = Tail(net[x])
      BY <3>2 DEF Rest
    <3>5. net[x] = Tail(net[x])
      BY <3>1, <3>4
    <3>6. Len(Tail(net[x])) = Len(net[x])
      BY <3>5
    <3> QED BY <3>3, <3>6
  <2> QED BY <1>7, <2>1
<1>9. /\ \A z \in Side, j \in Ids : j >= next_id[z] => Fresh(z, j)
      /\ \A z \in Side, j \in Ids :
           sock[z][j].list = "open" => sock[z][j].peer = app[z][j].mate /\ online[z]
      /\ \A z \in Side : next_id[z] \in Nat
      /\ Ids \subseteq Nat \ {0}
  BY MateFacts
<1>10. Fresh(x, i) /\ app[x][i].gen = 0
  <2>1. i >= next_id[x]
    BY <1>2, <1>3, <1>9
  <2> QED BY <1>3, <1>9, <2>1 DEF MateInv, Mates
<1>11. /\ \A z \in Side, j \in Ids : (z # x \/ j # i) => sock'[z][j] = sock[z][j] /\ app'[z][j] = app[z][j]
       /\ sock'[x][i] = s /\ app'[x][i] = a
  BY <1>1, <1>3 DEF TypeOK
<1>12. \A z \in Side, j \in Ids : (z # x \/ j # i) => Str(z, j)' = Str(z, j)
  BY <1>11 DEF Str
<1>13. Str(x, i)' = <<>>
  BY <1>4, <1>11 DEF Str
<1>14. \A z \in Side, j \in Ids : Str(z, j)' = Str(z, j)
  BY <1>10, <1>12, <1>13 DEF Fresh
<1>15. \A z \in Side, j \in Ids : app'[z][j].mate = app[z][j].mate /\ app'[z][j].gen = app[z][j].gen
                                   /\ app'[z][j].sent = app[z][j].sent
  BY <1>4, <1>10, <1>11 DEF Fresh
<1>16. /\ \A z \in Side : next_id'[z] \in Nat /\ next_id'[z] >= next_id[z]
       /\ next_id'[x] = i + 1 /\ i \in Nat /\ next_id'[x] > next_id[x]
  BY <1>1, <1>2, <1>3, <1>9 DEF TypeOK
<1>17. \A z \in Side, j \in Ids : j >= next_id'[z] => sock'[z][j].list = sock[z][j].list
  <2> SUFFICES ASSUME NEW z \in Side, NEW j \in Ids, j >= next_id'[z] PROVE z # x \/ j # i
    BY <1>11
  <2> QED BY <1>9, <1>16
<1>18. PICK o : o = Sent(out)
  OBVIOUS
<1>19. ASSUME NEW n \in 1..Len(o) PROVE o[n].cmd = "OPEN" /\ o[n].arg0 = i /\ o[n].gen = 0 /\ n = 1
  <2>1. n \in 1..Len(out) /\ o[n] = out[n]
    BY <1>5, <1>18, SentOf
  <2>2. Len(out) = 1 /\ out[1] = Open(i)
    BY <1>2
  <2>3. n = 1 /\ o[n] = Open(i)
    BY <2>1, <2>2
  <2> QED BY <2>3 DEF Open
<1>20. OpenMates'
  <2> SUFFICES ASSUME NEW z \in Side, NEW j \in Ids, sock'[z][j].list = "open"
               PROVE  sock'[z][j].peer = app'[z][j].mate /\ online'[z]
    BY DEF OpenMates
  <2>1. CASE z = x /\ j = i
    BY <1>3, <1>4, <1>11, <2>1
  <2>2. CASE z # x \/ j # i
    BY <1>3, <1>9, <1>11, <2>2
  <2> QED BY <2>1, <2>2
<1>21. Quiet(x, 0, o)
  BY <1>2, <1>8, <1>14, <1>15, <1>16, <1>17, <1>18, <1>19 DEF Quiet
<1> QED BY <1>2, <1>5, <1>8, <1>18, <1>20, <1>21

\* Socket i of side x is connected to socket j of the other.
Joins(x, i, j, k, o) ==
  /\ NetMoves(x, k, o)
  /\ i \in Ids /\ j \in Ids
  /\ i < next_id'[x] /\ j < next_id[Other(x)]
  /\ \A z \in Side : next_id'[z] \in Nat /\ next_id'[z] >= next_id[z]
  /\ app'[x][i].mate = j /\ app[x][i].mate \in {0, j} /\ app[Other(x)][j].mate \in {0, i}
  /\ \A l \in Ids : app[x][l].mate = j => l = i
  /\ \A l \in Ids : app[Other(x)][l].mate = i => l = j
  /\ \A z \in Side, l \in Ids : (z # x \/ l # i) => app'[z][l].mate = app[z][l].mate
  /\ \A z \in Side, l \in Ids : (z # x \/ l # i) => sock'[z][l].list = sock[z][l].list
  /\ \A z \in Side, l \in Ids : Str(z, l)' = Str(z, l) /\ app'[z][l].sent = app[z][l].sent /\ app'[z][l].gen = 0
  /\ \A n \in Pos(x) : k = 1 /\ n > 1 => /\ ~(net[x][n].cmd = "OPEN" /\ net[x][n].arg0 = j)
                                         /\ ~(net[x][n].cmd = "CLSE" /\ net[x][n].arg0 = 0 /\ net[x][n].arg1 = i)
  /\ k = 1
  /\ \A n \in Pos(Other(x)) : LET q == net[Other(x)][n] IN
       /\ ~(q.cmd = "OPEN" /\ q.arg0 = i)
       /\ ~(q.cmd = "CLSE" /\ q.arg0 = 0 /\ q.arg1 = j)
  /\ \A n \in 1..Len(o) : o[n].cmd = "OKAY" /\ o[n].arg0 = i /\ o[n].arg1 = j

\* A step that connects two sockets keeps what is known of the streams.
LEMMA JoinMates ==
  ASSUME StreamInv, StreamInv', MateInv, NEW x \in Side, NEW i, NEW j, NEW k, NEW o, Joins(x, i, j, k, o), OpenMates'
  PROVE  MateInv'
<1> DEFINE y == Other(x)
<1>1. TypeOK /\ TypeOK' /\ IdsUsed /\ Mates /\ Announced
  BY DEF StreamInv, TypeInv, MateInv
<1>2. y \in Side /\ Other(y) = x /\ y # x /\ (\A z \in Side : Other(z) \in Side)
  BY Sides
<1>3. NetMoves(x, k, o) /\ k = 1 /\ i \in Ids /\ j \in Ids
  BY DEF Joins
<1>4. /\ \A n \in Pos(x)' : n + k \in Pos(x) /\ net'[x][n] = net[x][n + k] /\ (k = 1 => n + k # 1)
      /\ \A n \in Pos(y)' :
           \/ n \in Pos(y) /\ net'[y][n] = net[y][n]
           \/ /\ n - Len(net[y]) \in 1..Len(o) /\ n \notin Pos(y)
              /\ net'[y][n] = o[n - Len(net[y])]
      /\ \A z \in Side : z = x \/ z = y
      /\ \A z \in Side : \A n \in Pos(z)' : n \in Nat \ {0} /\ net'[z][n] \in Packet
      /\ \A z \in Side : \A n \in Pos(z) : n \in Nat \ {0} /\ net[z][n] \in Packet
      /\ Len(net[y]) \in Nat
  BY <1>1, <1>3, PacketsFrom
<1>5. /\ \A z \in Side : next_id[z] \in Nat /\ next_id'[z] \in Nat /\ next_id'[z] >= next_id[z]
      /\ Ids \subseteq Nat \ {0} /\ (\A v \in Ids \cup {0} : v \in Nat)
      /\ i < next_id'[x] /\ j < next_id'[y] /\ i # 0 /\ j # 0
  <2>1. \A z \in Side : next_id[z] \in Nat /\ next_id'[z] \in Nat /\ next_id'[z] >= next_id[z]
    BY <1>1 DEF Joins, TypeOK
  <2>2. Ids \subseteq Nat \ {0} /\ (\A v \in Ids \cup {0} : v \in Nat)
    BY StreamsAssumption DEF Ids
  <2>3. i < next_id'[x] /\ j < next_id[y]
    BY DEF Joins
  <2>4. j \in Nat /\ next_id[y] \in Nat /\ next_id'[y] \in Nat /\ next_id'[y] >= next_id[y]
    BY <1>2, <1>3, <2>1, <2>2
  <2> QED BY <1>3, <2>1, <2>2, <2>3, <2>4
<1>6. /\ app'[x][i].mate = j /\ app[x][i].mate \in {0, j} /\ app[y][j].mate \in {0, i}
      /\ \A l \in Ids : app[x][l].mate = j => l = i
      /\ \A l \in Ids : app[y][l].mate = i => l = j
  BY DEF Joins
<1>7. \A z \in Side, l \in Ids : (z # x \/ l # i) => app'[z][l].mate = app[z][l].mate
  BY DEF Joins
<1>8. /\ \A z \in Side, l \in Ids : (z # x \/ l # i) => sock'[z][l].list = sock[z][l].list
      /\ \A z \in Side, l \in Ids : Str(z, l)' = Str(z, l) /\ app'[z][l].sent = app[z][l].sent /\ app'[z][l].gen = 0
  BY DEF Joins
<1>9. ASSUME NEW n \in Pos(x)'
      PROVE  /\ ~(net'[x][n].cmd = "OPEN" /\ net'[x][n].arg0 = j)
             /\ ~(net'[x][n].cmd = "CLSE" /\ net'[x][n].arg0 = 0 /\ net'[x][n].arg1 = i)
  <2>1. n + 1 \in Pos(x) /\ n + 1 > 1 /\ net'[x][n] = net[x][n + 1]
    BY <1>3, <1>4
  <2> QED BY <1>3, <2>1 DEF Joins
<1>10. /\ \A n \in Pos(y) : /\ ~(net[y][n].cmd = "OPEN" /\ net[y][n].arg0 = i)
                            /\ ~(net[y][n].cmd = "CLSE" /\ net[y][n].arg0 = 0 /\ net[y][n].arg1 = j)
       /\ \A n \in 1..Len(o) : o[n].cmd = "OKAY" /\ o[n].arg0 = i /\ o[n].arg1 = j
  BY DEF Joins
<1>11. \A z \in Side, l \in Ids : app[z][l].mate \in Ids \cup {0} /\ app'[z][l].mate \in Ids \cup {0}
  BY <1>1 DEF TypeOK, App
<1>12. \A z \in Side, l \in Ids : l >= next_id'[z] => Fresh(z, l)'
  <2> SUFFICES ASSUME NEW z \in Side, NEW l \in Ids, l >= next_id'[z] PROVE Fresh(z, l)'
    OBVIOUS
  <2>1. z # x \/ l # i
    BY <1>3, <1>5
  <2>2. l >= next_id[z]
    BY <1>5
  <2>3. Fresh(z, l)
    BY <1>1, <2>2 DEF IdsUsed
  <2> QED BY <1>7, <1>8, <2>1, <2>3 DEF Fresh
<1>13. \A z \in Side, l \in Ids : app'[Other(z)][l].mate < next_id'[z]
  <2> SUFFICES ASSUME NEW z \in Side, NEW l \in Ids PROVE app'[Other(z)][l].mate < next_id'[z]
    OBVIOUS
  <2>1. CASE Other(z) = x /\ l = i
    <3>1. z = y
      BY <1>2, <1>4, <2>1
    <3> QED BY <1>5, <1>6, <2>1, <3>1
  <2>2. CASE Other(z) # x \/ l # i
    <3>1. app'[Other(z)][l].mate = app[Other(z)][l].mate /\ app[Other(z)][l].mate \in Nat
      <4>1. Other(z) \in Side
        BY Sides
      <4>2. \A v \in Ids \cup {0} : v \in Nat
        BY StreamsAssumption DEF Ids
      <4>3. app[Other(z)][l].mate \in Nat
        BY <1>11, <4>1, <4>2
      <4> QED BY <1>7, <2>2, <4>1, <4>3
    <3>2. app[Other(z)][l].mate < next_id[z]
      BY <1>1 DEF IdsUsed
    <3>3. next_id[z] \in Nat /\ next_id'[z] \in Nat /\ next_id'[z] >= next_id[z]
      BY <1>5
    <3> QED BY <3>1, <3>2, <3>3
  <2> QED BY <2>1, <2>2
<1>14. ASSUME NEW z \in Side, NEW n \in Pos(z)'
       PROVE  \/ \E m \in Pos(z) : net'[z][n] = net[z][m] /\ (z = x => m = n + 1) /\ (z = y => m = n)
              \/ z = y /\ net'[z][n].cmd = "OKAY" /\ net'[z][n].arg0 = i /\ net'[z][n].arg1 = j
  <2>1. CASE z = x
    BY <1>2, <1>3, <1>4, <2>1
  <2>2. CASE z = y
    BY <1>2, <1>4, <1>10, <2>2
  <2> QED BY <1>4, <2>1, <2>2
<1>15. ASSUME NEW z \in Side, NEW n \in Pos(z)'
       PROVE  /\ net'[z][n].cmd = "OPEN" => net'[z][n].arg0 < next_id'[Other(z)] /\ net'[z][n].gen = 0
              /\ net'[z][n].cmd = "CLSE" => net'[z][n].arg0 < next_id'[Other(z)] /\ net'[z][n].arg1 < next_id'[z]
  <2>1. PICK p : p = net'[z][n] /\ p \in Packet
    BY <1>4
  <2>2. p.cmd = "OPEN" \/ p.cmd = "CLSE" => \E m \in Pos(z) : p = net[z][m]
    BY <1>14, <2>1
  <2>3. /\ p.cmd = "OPEN" => p.arg0 < next_id[Other(z)] /\ p.gen = 0
        /\ p.cmd = "CLSE" => p.arg0 < next_id[Other(z)] /\ p.arg1 < next_id[z]
    BY <1>1, <2>2 DEF IdsUsed
  <2>4. /\ p.cmd = "OPEN" => p.arg0 \in Nat
        /\ p.cmd = "CLSE" => p.arg0 \in Nat /\ p.arg1 \in Nat
    <3>1. /\ p.cmd = "OPEN" => p.arg0 \in Ids \cup {0}
          /\ p.cmd = "CLSE" => p.arg0 \in Ids \cup {0} /\ p.arg1 \in Ids \cup {0}
      BY <2>1, PacketFields
    <3> QED BY <1>5, <3>1
  <2>5. /\ next_id[Other(z)] \in Nat /\ next_id'[Other(z)] \in Nat /\ next_id[z] \in Nat /\ next_id'[z] \in Nat
        /\ next_id'[Other(z)] >= next_id[Other(z)] /\ next_id'[z] >= next_id[z]
    BY <1>2, <1>5
  <2> QED BY <2>1, <2>3, <2>4, <2>5
<1>16. IdsUsed'
  BY <1>12, <1>13, <1>15 DEF IdsUsed
<1>17. Mates'
  <2> SUFFICES ASSUME NEW z \in Side, NEW l \in Ids
               PROVE  /\ app'[z][l].mate # 0 => app'[Other(z)][app'[z][l].mate].mate \in {0, l}
                      /\ \A m \in Ids : app'[z][l].mate # 0 /\ app'[z][m].mate = app'[z][l].mate => m = l
                      /\ app'[z][l].gen = 0
                      /\ app'[z][l].mate = 0 => app'[z][l].sent = 0
                      /\ Str(z, l)' # <<>> => /\ app'[z][l].mate # 0
                                              /\ app'[Other(z)][app'[z][l].mate].mate = l
    BY DEF Mates
  <2>1. /\ app[z][l].mate # 0 => app[Other(z)][app[z][l].mate].mate \in {0, l}
        /\ \A m \in Ids : app[z][l].mate # 0 /\ app[z][m].mate = app[z][l].mate => m = l
        /\ app[z][l].mate = 0 => app[z][l].sent = 0
        /\ Str(z, l) # <<>> => app[z][l].mate # 0 /\ app[Other(z)][app[z][l].mate].mate = l
    BY <1>1 DEF Mates
  <2>2. app'[z][l].gen = 0 /\ Str(z, l)' = Str(z, l) /\ app'[z][l].sent = app[z][l].sent
    BY <1>8
  <2>3. CASE z = x /\ l = i
    <3>1. app'[x][i].mate = j /\ app'[y][j].mate = app[y][j].mate
      BY <1>2, <1>3, <1>6, <1>7
    <3>2. \A m \in Ids : app'[x][m].mate = j => m = i
      BY <1>6, <1>7
    <3>3. Str(z, l) # <<>> => app[y][j].mate = i
      BY <1>5, <1>6, <2>1, <2>3
    <3> QED BY <1>5, <1>6, <2>2, <2>3, <3>1, <3>2, <3>3
  <2>4. CASE z = x /\ l # i
    <3>1. app'[x][l].mate = app[x][l].mate /\ (app[x][l].mate # 0 => app[x][l].mate \in Ids)
      BY <1>7, <1>11, <2>4
    <3>2. app[x][l].mate # 0 => app'[y][app[x][l].mate].mate = app[y][app[x][l].mate].mate
      BY <1>2, <1>7, <3>1
    <3>3. app[x][l].mate # j
      BY <1>6, <2>4
    <3>4. \A m \in Ids : app'[x][l].mate # 0 /\ app'[x][m].mate = app'[x][l].mate => m = l
      BY <1>6, <1>7, <2>1, <2>4, <3>1, <3>3
    <3> QED BY <2>1, <2>2, <2>4, <3>1, <3>2, <3>4
  <2>5. CASE z = y
    <3>1. (\A m \in Ids : app'[y][m].mate = app[y][m].mate) /\ (app[y][l].mate # 0 => app[y][l].mate \in Ids)
      BY <1>2, <1>7, <1>11
    <3>2. app[y][l].mate # i /\ app[y][l].mate # 0 => app'[x][app[y][l].mate].mate = app[x][app[y][l].mate].mate
      BY <1>7, <3>1
    <3>3. app[y][l].mate = i => app'[x][app[y][l].mate].mate = l
      BY <1>6
    <3> QED BY <1>2, <2>1, <2>2, <2>5, <3>1, <3>2, <3>3
  <2> QED BY <1>4, <2>3, <2>4, <2>5
<1>18. \A z \in Side : \A n \in Pos(z) :
         /\ net[z][n].cmd \in {"OKAY", "WRTE"} => app[Other(z)][net[z][n].arg0].mate = net[z][n].arg1
         /\ net[z][n].cmd = "OPEN" =>
              /\ Unasked(Other(z), net[z][n].arg0)
              /\ \A m \in Pos(z) : net[z][m].cmd = "OPEN" /\ net[z][m].arg0 = net[z][n].arg0 => m = n
         /\ net[z][n].cmd = "CLSE" /\ net[z][n].arg0 = 0 =>
              /\ Unasked(z, net[z][n].arg1)
              /\ \A m \in Pos(Other(z)) :
                   ~(net[Other(z)][m].cmd = "OPEN" /\ net[Other(z)][m].arg0 = net[z][n].arg1)
  BY <1>1 DEF Announced
<1>19. ASSUME NEW l \in Ids, l # i, Unasked(x, l) PROVE Unasked(x, l)'
  BY <1>2, <1>7, <1>19 DEF Unasked
<1>20. ASSUME NEW l \in Ids, l # j, Unasked(y, l) PROVE Unasked(y, l)'
  BY <1>2, <1>6, <1>7, <1>20 DEF Unasked
<1>21. Announced'
  <2> SUFFICES ASSUME NEW z \in Side, NEW n \in Pos(z)', NEW p, p = net'[z][n]
               PROVE  /\ p.cmd \in {"OKAY", "WRTE"} => app'[Other(z)][p.arg0].mate = p.arg1
                      /\ p.cmd = "OPEN" =>
                           /\ Unasked(Other(z), p.arg0)'
                           /\ \A m \in Pos(z)' : net'[z][m].cmd = "OPEN" /\ net'[z][m].arg0 = p.arg0 => m = n
                      /\ p.cmd = "CLSE" /\ p.arg0 = 0 =>
                           /\ Unasked(z, p.arg1)'
                           /\ \A m \in Pos(Other(z))' :
                                ~(net'[Other(z)][m].cmd = "OPEN" /\ net'[Other(z)][m].arg0 = p.arg1)
    BY DEF Announced, Unasked
  <2>1. p \in Packet /\ n \in Nat
    BY <1>4
  <2>2. \/ \E m \in Pos(z) : p = net[z][m] /\ (z = x => m = n + 1) /\ (z = y => m = n)
        \/ z = y /\ p.cmd = "OKAY" /\ p.arg0 = i /\ p.arg1 = j
    BY <1>14
  <2>3. ASSUME p.cmd \in {"OKAY", "WRTE"} PROVE app'[Other(z)][p.arg0].mate = p.arg1
    <3>1. p.arg0 \in Ids /\ p.arg1 \in Ids
      BY <2>1, <2>3, PacketFields
    <3>2. CASE z = y /\ p.arg0 = i /\ p.arg1 = j
      BY <1>2, <1>6, <3>2
    <3>3. CASE \E m \in Pos(z) : p = net[z][m]
      <4>1. app[Other(z)][p.arg0].mate = p.arg1
        BY <1>18, <2>3, <3>3
      <4>2. CASE Other(z) = x /\ p.arg0 = i
        BY <1>5, <1>6, <3>1, <4>1, <4>2
      <4>3. CASE Other(z) # x \/ p.arg0 # i
        BY <1>2, <1>7, <3>1, <4>1, <4>3
      <4> QED BY <4>2, <4>3
    <3> QED BY <2>2, <3>2, <3>3
  <2>4. ASSUME p.cmd = "OPEN" PROVE Unasked(Other(z), p.arg0)'
    <3>1. p.arg0 \in Ids
      BY <2>1, <2>4, PacketFields
    <3>2. PICK m \in Pos(z) : p = net[z][m]
      BY <2>2, <2>4
    <3>3. Unasked(Other(z), p.arg0)
      BY <1>18, <2>4, <3>2
    <3>4. CASE z = x
      <4>1. p.arg0 # j
        BY <1>9, <2>4, <3>4
      <4> QED BY <1>20, <3>1, <3>3, <3>4, <4>1
    <3>5. CASE z = y
      <4>1. p.arg0 # i
        BY <1>10, <2>4, <3>2, <3>5
      <4> QED BY <1>2, <1>19, <3>1, <3>3, <3>5, <4>1
    <3> QED BY <1>4, <3>4, <3>5
  <2>5. ASSUME p.cmd = "OPEN", NEW m \in Pos(z)', net'[z][m].cmd = "OPEN", net'[z][m].arg0 = p.arg0
        PROVE  m = n
    <3>1. PICK n1 \in Pos(z) : p = net[z][n1] /\ (z = x => n1 = n + 1) /\ (z = y => n1 = n)
      BY <2>2, <2>5
    <3>2. PICK m1 \in Pos(z) : net'[z][m] = net[z][m1] /\ (z = x => m1 = m + 1) /\ (z = y => m1 = m)
      BY <1>14, <2>5
    <3>3. m1 = n1
      BY <1>18, <2>5, <3>1, <3>2
    <3>4. m \in Nat
      BY <1>4
    <3> QED BY <1>4, <2>1, <3>1, <3>2, <3>3, <3>4
  <2>6. ASSUME p.cmd = "CLSE", p.arg0 = 0 PROVE Unasked(z, p.arg1)'
    <3>1. p.arg1 \in Ids
      BY <2>1, <2>6, PacketFields
    <3>2. PICK m \in Pos(z) : p = net[z][m]
      BY <2>2, <2>6
    <3>3. Unasked(z, p.arg1)
      BY <1>18, <2>6, <3>2
    <3>4. CASE z = x
      <4>1. p.arg1 # i
        BY <1>9, <2>6, <3>4
      <4> QED BY <1>19, <3>1, <3>3, <3>4, <4>1
    <3>5. CASE z = y
      <4>1. p.arg1 # j
        BY <1>10, <2>6, <3>2, <3>5
      <4> QED BY <1>20, <3>1, <3>3, <3>5, <4>1
    <3> QED BY <1>4, <3>4, <3>5
  <2>7. ASSUME p.cmd = "CLSE", p.arg0 = 0, NEW m \in Pos(Other(z))', net'[Other(z)][m].cmd = "OPEN",
               net'[Other(z)][m].arg0 = p.arg1
        PROVE  FALSE
    <3>1. PICK n1 \in Pos(z) : p = net[z][n1]
      BY <2>2, <2>7
    <3>2. PICK w : w = Other(z) /\ w \in Side
      BY <1>2
    <3>3. m \in Pos(w)' /\ net'[w][m].cmd = "OPEN" /\ net'[w][m].arg0 = p.arg1
      BY <2>7, <3>2 DEF Pos
    <3>4. PICK m1 \in Pos(w) : net'[w][m] = net[w][m1]
      BY <1>14, <3>2, <3>3
    <3> QED BY <1>18, <2>7, <3>1, <3>2, <3>3, <3>4
  <2> QED BY <2>1, <2>3, <2>4, <2>5, <2>6, <2>7
<1> QED BY <1>16, <1>17, <1>21 DEF MateInv

\* An OPEN that is served connects two sockets, ...
LEMMA AcceptedJoins ==
  ASSUME StreamInv, StreamInv', MateInv, gen = 0, NEW x \in Side, NEW p, Accepted(x, p)
  PROVE  \E out \in Seq(Packet) : Joins(x, next_id[x], p.arg0, 1, Sent(out)) /\ OpenMates'
<1> DEFINE y == Other(x)
<1>1. TypeOK /\ TypeOK' /\ IdsUsed /\ Mates /\ Announced
  BY DEF StreamInv, TypeInv, MateInv
<1>2. PICK i, j, s, a, out : /\ i = next_id[x] /\ j = p.arg0 /\ out = <<Okay(i, j)>>
                             /\ s = [list |-> "open", peer |-> j, fde |-> {"READ"}, pkts |-> <<>>]
                             /\ a = NewApp(p.gen, j)
  OBVIOUS
<1>3. /\ net[x] # <<>> /\ p = Head(net[x]) /\ p \in Packet /\ p.cmd = "OPEN"
      /\ i \in Ids /\ j \in Ids
      /\ next_id' = [next_id EXCEPT ![x] = i + 1]
      /\ sock' = [sock EXCEPT ![x][i] = s] /\ app' = [app EXCEPT ![x][i] = a]
      /\ UNCHANGED <<online, link, gen, breaks>>
      /\ online[x] /\ net' = Send(Rest(x), x, out)
  BY <1>2 DEF Accepted, Created, Receive
<1>4. out \in Seq(Packet)
  BY <1>2, <1>3, PacketsMade
<1>5. NetMoves(x, 1, Sent(out)) /\ 1 \in Pos(x) /\ p = net[x][1]
  BY <1>1, <1>3, <1>4, HeadTaken
<1>6. y \in Side /\ y # x /\ Other(y) = x /\ (\A z \in Side : z = x \/ z = y)
  BY Sides
<1>7. /\ j < next_id[y] /\ p.gen = 0 /\ Unasked(y, j)
      /\ \A m \in Pos(x) : net[x][m].cmd = "OPEN" /\ net[x][m].arg0 = j => m = 1
  BY <1>1, <1>2, <1>3, <1>5 DEF IdsUsed, Announced
<1>8. s.list = "open" /\ s.peer = j /\ s.pkts = <<>>
      /\ a.mate = j /\ a.gen = 0 /\ a.sent = 0 /\ a.got = <<>>
  BY <1>2, <1>7 DEF NewApp
<1>9. /\ \A z \in Side, l \in Ids : l >= next_id[z] => Fresh(z, l)
      /\ \A z \in Side, l \in Ids : app[Other(z)][l].mate < next_id[z]
      /\ \A z \in Side, l \in Ids :
           sock[z][l].list = "open" => sock[z][l].peer = app[z][l].mate /\ online[z]
      /\ \A z \in Side : next_id[z] \in Nat
      /\ Ids \subseteq Nat \ {0}
  BY MateFacts
<1>10. Fresh(x, i) /\ i \in Nat /\ i # 0
  <2>1. i >= next_id[x] /\ i \in Nat /\ i # 0
    BY <1>2, <1>3, <1>9
  <2> QED BY <1>3, <1>9, <2>1
<1>11. /\ \A z \in Side, l \in Ids : (z # x \/ l # i) => sock'[z][l] = sock[z][l] /\ app'[z][l] = app[z][l]
       /\ sock'[x][i] = s /\ app'[x][i] = a
  BY <1>1, <1>3 DEF TypeOK
<1>12. \A z \in Side, l \in Ids : Str(z, l)' = Str(z, l)
  <2>1. \A z \in Side, l \in Ids : (z # x \/ l # i) => Str(z, l)' = Str(z, l)
    BY <1>11 DEF Str
  <2>2. Str(x, i)' = <<>>
    BY <1>8, <1>11 DEF Str
  <2> QED BY <1>10, <2>1, <2>2 DEF Fresh
<1>13. \A z \in Side, l \in Ids : app'[z][l].sent = app[z][l].sent /\ app'[z][l].gen = 0
  <2>1. \A z \in Side, l \in Ids : app[z][l].gen = 0
    BY <1>1 DEF Mates
  <2> QED BY <1>8, <1>10, <1>11, <2>1 DEF Fresh
<1>14. /\ \A z \in Side : next_id'[z] \in Nat /\ next_id'[z] >= next_id[z]
       /\ i < next_id'[x]
  BY <1>1, <1>2, <1>3, <1>9, <1>10 DEF TypeOK
<1>15. /\ app'[x][i].mate = j /\ app[x][i].mate = 0 /\ app[y][j].mate = 0
       /\ \A l \in Ids : app[x][l].mate # j
       /\ \A l \in Ids : app[y][l].mate # i
  <2>1. app'[x][i].mate = j /\ app[x][i].mate = 0
    BY <1>8, <1>10, <1>11 DEF Fresh
  <2>2. app[y][j].mate = 0 /\ (\A l \in Ids : app[x][l].mate # j)
    BY <1>6, <1>7 DEF Unasked
  <2>3. \A l \in Ids : app[y][l].mate # i
    BY <1>2, <1>9, <1>10
  <2> QED BY <2>1, <2>2, <2>3
<1>16. ASSUME NEW n \in Pos(x), n > 1
       PROVE  /\ ~(net[x][n].cmd = "OPEN" /\ net[x][n].arg0 = j)
              /\ ~(net[x][n].cmd = "CLSE" /\ net[x][n].arg0 = 0 /\ net[x][n].arg1 = i)
  <2>1. ~(net[x][n].cmd = "OPEN" /\ net[x][n].arg0 = j)
    BY <1>7, <1>16
  <2>2. net[x][n].cmd = "CLSE" => net[x][n].arg1 < next_id[x]
    BY <1>1 DEF IdsUsed
  <2> QED BY <1>2, <1>10, <2>1, <2>2
<1>17. ASSUME NEW n \in Pos(y)
       PROVE  /\ ~(net[y][n].cmd = "OPEN" /\ net[y][n].arg0 = i)
              /\ ~(net[y][n].cmd = "CLSE" /\ net[y][n].arg0 = 0 /\ net[y][n].arg1 = j)
  <2>1. net[y][n].cmd = "OPEN" => net[y][n].arg0 < next_id[x]
    BY <1>1, <1>6 DEF IdsUsed
  <2>2. net[y][n].cmd = "CLSE" /\ net[y][n].arg0 = 0 =>
          ~(net[x][1].cmd = "OPEN" /\ net[x][1].arg0 = net[y][n].arg1)
    BY <1>1, <1>5, <1>6 DEF Announced
  <2> QED BY <1>2, <1>3, <1>5, <1>10, <2>1, <2>2
<1>18. PICK o : o = Sent(out)
  OBVIOUS
<1>19. ASSUME NEW n \in 1..Len(o) PROVE o[n].cmd = "OKAY" /\ o[n].arg0 = i /\ o[n].arg1 = j
  <2>1. n \in 1..Len(out) /\ o[n] = out[n]
    BY <1>4, <1>18, SentOf
  <2>2. Len(out) = 1 /\ out[1] = Okay(i, j)
    BY <1>2
  <2>3. o[n] = Okay(i, j)
    BY <2>1, <2>2
  <2> QED BY <2>3 DEF Okay
<1>20. OpenMates'
  <2> SUFFICES ASSUME NEW z \in Side, NEW l \in Ids, sock'[z][l].list = "open"
               PROVE  sock'[z][l].peer = app'[z][l].mate /\ online'[z]
    BY DEF OpenMates
  <2>1. CASE z = x /\ l = i
    BY <1>3, <1>8, <1>11, <2>1
  <2>2. CASE z # x \/ l # i
    BY <1>3, <1>9, <1>11, <2>2
  <2> QED BY <2>1, <2>2
<1>21. Joins(x, i, j, 1, o)
  BY <1>3, <1>5, <1>7, <1>11, <1>12, <1>13, <1>14, <1>15, <1>16, <1>17, <1>18, <1>19 DEF Joins
<1> QED BY <1>2, <1>4, <1>18, <1>20, <1>21

\* ... and so does an OKAY, which finds the stream its OPEN began.
LEMMA OkayedJoins ==
  ASSUME StreamInv, StreamInv', MateInv, NEW x \in Side, NEW p, Okayed(x, p)
  PROVE  Joins(x, p.arg1, p.arg0, 1, <<>>) /\ OpenMates'
<1> DEFINE y == Other(x)
<1>1. TypeOK /\ TypeOK' /\ IdsUsed /\ Mates /\ Announced
  BY DEF StreamInv, TypeInv, MateInv
<1>2. PICK i, j : i = p.arg1 /\ j = p.arg0
  OBVIOUS
<1>3. /\ net[x] # <<>> /\ p = Head(net[x]) /\ p \in Packet /\ p.cmd = "OKAY"
      /\ i \in Ids /\ j \in Ids /\ net' = Send(Rest(x), x, <<>>)
      /\ online[x] /\ sock[x][i].list = "open" /\ sock[x][i].peer \in {0, j}
  BY <1>2 DEF Okayed, Receive, Answers, Found
<1>4. /\ \A l \in Ids \ {i} : sock'[x][l] = sock[x][l] /\ app'[x][l] = app[x][l]
      /\ sock'[y] = sock[y] /\ app'[y] = app[y]
      /\ UNCHANGED <<next_id, online, link, gen, breaks, opens>>
  BY <1>2 DEF Okayed, Frame
<1>5. /\ sock'[x][i].list = sock[x][i].list /\ sock'[x][i].peer = j /\ sock'[x][i].pkts = sock[x][i].pkts
      /\ app'[x][i].mate = j /\ app'[x][i].sent = app[x][i].sent /\ app'[x][i].got = app[x][i].got
      /\ app'[x][i].gen = app[x][i].gen
  BY <1>2 DEF Okayed
<1>6. NetMoves(x, 1, <<>>) /\ 1 \in Pos(x) /\ p = net[x][1]
  <2>1. <<>> \in Seq(Packet) /\ Sent(<<>>) = <<>>
    BY DEF Sent
  <2> QED BY <1>1, <1>3, <2>1, HeadTaken
<1>7. y \in Side /\ y # x /\ Other(y) = x /\ (\A z \in Side : z = x \/ z = y)
  BY Sides
<1>8. /\ \A z \in Side, l \in Ids : l >= next_id[z] => Fresh(z, l)
      /\ \A z \in Side, l \in Ids : app[Other(z)][l].mate < next_id[z]
      /\ \A z \in Side, l \in Ids :
           sock[z][l].list = "open" => sock[z][l].peer = app[z][l].mate /\ online[z]
      /\ \A z \in Side, l \in Ids : sock[z][l].list # "none" => l < next_id[z]
      /\ \A z \in Side : \A n \in Pos(z) : net[z][n].cmd \in {"OKAY", "WRTE"} =>
              app[Other(z)][net[z][n].arg0].mate = net[z][n].arg1
      /\ \A z \in Side : next_id[z] \in Nat
      /\ Ids \subseteq Nat \ {0}
  BY MateFacts
<1>9. app[y][j].mate = i /\ app[x][i].mate \in {0, j} /\ i # 0 /\ j # 0
  BY <1>2, <1>3, <1>6, <1>8
<1>10. \A z \in Side, l \in Ids : (z # x \/ l # i) => sock'[z][l] = sock[z][l] /\ app'[z][l] = app[z][l]
  BY <1>4, <1>7
<1>11. \A z \in Side, l \in Ids : Str(z, l)' = Str(z, l)
  <2>1. \A z \in Side, l \in Ids : app'[z][l].got = app[z][l].got /\ sock'[z][l].pkts = sock[z][l].pkts
    BY <1>5, <1>10
  <2> QED BY <2>1 DEF Str
<1>12. \A z \in Side, l \in Ids : app'[z][l].sent = app[z][l].sent /\ app'[z][l].gen = 0
  <2>1. \A z \in Side, l \in Ids : app[z][l].gen = 0
    BY <1>1 DEF Mates
  <2> QED BY <1>3, <1>5, <1>10, <2>1
<1>13. i < next_id[x] /\ j < next_id[y]
  <2>1. i < next_id[x]
    BY <1>3, <1>8
  <2>2. ASSUME j >= next_id[y] PROVE FALSE
    BY <1>3, <1>7, <1>8, <1>9, <2>2 DEF Fresh
  <2>3. j \in Nat /\ next_id[y] \in Nat
    BY <1>3, <1>7, <1>8
  <2> QED BY <2>1, <2>2, <2>3
<1>14. \A l \in Ids : app[x][l].mate = j => l = i
  <2>1. \A l \in Ids : app[x][l].mate # 0 => app[y][app[x][l].mate].mate \in {0, l}
    BY <1>1 DEF Mates
  <2> QED BY <1>9, <2>1
<1>15. \A l \in Ids : app[y][l].mate = i => l = j
  BY <1>1, <1>3, <1>7, <1>9 DEF Mates
<1>16. ~Unasked(x, i) /\ ~Unasked(y, j)
  BY <1>3, <1>9 DEF Unasked
<1>17. ASSUME NEW n \in Pos(x)
       PROVE  /\ ~(net[x][n].cmd = "OPEN" /\ net[x][n].arg0 = j)
              /\ ~(net[x][n].cmd = "CLSE" /\ net[x][n].arg0 = 0 /\ net[x][n].arg1 = i)
  BY <1>1, <1>16 DEF Announced
<1>18. ASSUME NEW n \in Pos(y)
       PROVE  /\ ~(net[y][n].cmd = "OPEN" /\ net[y][n].arg0 = i)
              /\ ~(net[y][n].cmd = "CLSE" /\ net[y][n].arg0 = 0 /\ net[y][n].arg1 = j)
  BY <1>1, <1>7, <1>16 DEF Announced
<1>19. OpenMates'
  <2> SUFFICES ASSUME NEW z \in Side, NEW l \in Ids, sock'[z][l].list = "open"
               PROVE  sock'[z][l].peer = app'[z][l].mate /\ online'[z]
    BY DEF OpenMates
  <2>1. CASE z = x /\ l = i
    BY <1>3, <1>4, <1>5, <2>1
  <2>2. CASE z # x \/ l # i
    BY <1>4, <1>8, <1>10, <2>2
  <2> QED BY <2>1, <2>2
<1>20. \A z \in Side : next_id'[z] \in Nat /\ next_id'[z] >= next_id[z]
  BY <1>4, <1>8
<1>21. \A n \in 1..Len(<<>>) : FALSE
  OBVIOUS
<1>22. i < next_id'[x]
  BY <1>4, <1>13
<1>23. Joins(x, i, j, 1, <<>>)
  <2>1. PICK o : o = <<>>
    OBVIOUS
  <2>2. Joins(x, i, j, 1, o)
    BY <1>3, <1>5, <1>6, <1>9, <1>10, <1>11, <1>12, <1>13, <1>14, <1>15, <1>17, <1>18, <1>20, <1>21, <1>22, <2>1 DEF Joins
  <2> QED BY <2>1, <2>2
<1> QED BY <1>2, <1>19, <1>23

\* The wire fails or is renewed: packets are lost, and others that concern no
\* stream come.
Thinned ==
  /\ UNCHANGED <<next_id, sock, app, online, gen>>
  /\ \A z \in Side : \A n \in Pos(z)' :
       \/ n \in Pos(z) /\ net'[z][n] = net[z][n]
       \/ net'[z][n].cmd \in {"CNXN", "SYNC"}

\* A loss of packets keeps what is known of the streams.
LEMMA ThinnedMates ==
  ASSUME MateInv, Thinned
  PROVE  MateInv'
<1>1. UNCHANGED <<next_id, sock, app, online, gen>>
  BY DEF Thinned
<1>2. ASSUME NEW z \in Side, NEW n \in Pos(z)', net'[z][n].cmd \notin {"CNXN", "SYNC"}
      PROVE  n \in Pos(z) /\ net'[z][n] = net[z][n]
  BY <1>2 DEF Thinned
<1>3. \A z \in Side, i \in Ids : /\ Fresh(z, i)' <=> Fresh(z, i)
                                 /\ Unasked(z, i)' <=> Unasked(z, i)
                                 /\ Str(z, i)' = Str(z, i)
  BY <1>1 DEF Fresh, Unasked, Str
<1>4. Mates' /\ OpenMates'
  <2>1. OpenMates'
    BY <1>1 DEF MateInv, OpenMates
  <2>2. Mates'
    BY <1>1, <1>3 DEF MateInv, Mates
  <2> QED BY <2>1, <2>2
<1>5. IdsUsed'
  <2>1. /\ \A x \in Side, i \in Ids : i >= next_id'[x] => Fresh(x, i)'
        /\ \A x \in Side, i \in Ids : app'[Other(x)][i].mate < next_id'[x]
    BY <1>1, <1>3 DEF MateInv, IdsUsed
  <2>2. ASSUME NEW x \in Side, NEW n \in Pos(x)'
        PROVE  /\ net'[x][n].cmd = "OPEN" => net'[x][n].arg0 < next_id'[Other(x)] /\ net'[x][n].gen = 0
               /\ net'[x][n].cmd = "CLSE" => net'[x][n].arg0 < next_id'[Other(x)] /\ net'[x][n].arg1 < next_id'[x]
    <3>1. CASE net'[x][n].cmd \in {"CNXN", "SYNC"}
      BY <3>1
    <3>2. CASE net'[x][n].cmd \notin {"CNXN", "SYNC"}
      BY <1>1, <1>2, <3>2 DEF MateInv, IdsUsed
    <3> QED BY <3>1, <3>2
  <2> QED BY <2>1, <2>2 DEF IdsUsed
<1>6. Announced'
  <2> SUFFICES ASSUME NEW z \in Side, NEW n \in Pos(z)', NEW p, p = net'[z][n]
               PROVE  /\ p.cmd \in {"OKAY", "WRTE"} => app'[Other(z)][p.arg0].mate = p.arg1
                      /\ p.cmd = "OPEN" =>
                           /\ Unasked(Other(z), p.arg0)'
                           /\ \A m \in Pos(z)' : net'[z][m].cmd = "OPEN" /\ net'[z][m].arg0 = p.arg0 => m = n
                      /\ p.cmd = "CLSE" /\ p.arg0 = 0 =>
                           /\ Unasked(z, p.arg1)'
                           /\ \A m \in Pos(Other(z))' :
                                ~(net'[Other(z)][m].cmd = "OPEN" /\ net'[Other(z)][m].arg0 = p.arg1)
    BY DEF Announced, Unasked
  <2>1. CASE p.cmd \in {"CNXN", "SYNC"}
    BY <2>1
  <2>2. CASE p.cmd \notin {"CNXN", "SYNC"}
    <3>1. n \in Pos(z) /\ p = net[z][n]
      BY <1>2, <2>2
    <3>2. /\ p.cmd \in {"OKAY", "WRTE"} => app[Other(z)][p.arg0].mate = p.arg1
          /\ p.cmd = "OPEN" =>
               /\ Unasked(Other(z), p.arg0)
               /\ \A m \in Pos(z) : net[z][m].cmd = "OPEN" /\ net[z][m].arg0 = p.arg0 => m = n
          /\ p.cmd = "CLSE" /\ p.arg0 = 0 =>
               /\ Unasked(z, p.arg1)
               /\ \A m \in Pos(Other(z)) :
                    ~(net[Other(z)][m].cmd = "OPEN" /\ net[Other(z)][m].arg0 = p.arg1)
      BY <3>1 DEF MateInv, Announced
    <3>3. PICK w : w = Other(z) /\ w \in Side
      BY Sides
    <3>4. /\ \A m \in Pos(z)' : net'[z][m].cmd = "OPEN" => m \in Pos(z) /\ net'[z][m] = net[z][m]
          /\ \A m \in Pos(w)' : net'[w][m].cmd = "OPEN" => m \in Pos(w) /\ net'[w][m] = net[w][m]
      BY <1>2, <3>3
    <3>5. /\ p.cmd = "OPEN" => Unasked(w, p.arg0)'
          /\ p.cmd = "CLSE" /\ p.arg0 = 0 => Unasked(z, p.arg1)'
      BY <1>1, <3>2, <3>3 DEF Unasked
    <3>6. p.cmd = "OPEN" => \A m \in Pos(z)' : net'[z][m].cmd = "OPEN" /\ net'[z][m].arg0 = p.arg0 => m = n
      BY <3>2, <3>4
    <3>7. p.cmd = "CLSE" /\ p.arg0 = 0 =>
            \A m \in Pos(w)' : ~(net'[w][m].cmd = "OPEN" /\ net'[w][m].arg0 = p.arg1)
      BY <3>2, <3>3, <3>4
    <3>8. p.cmd \in {"OKAY", "WRTE"} => app'[Other(z)][p.arg0].mate = p.arg1
      BY <1>1, <3>2
    <3> QED BY <3>3, <3>5, <3>6, <3>7, <3>8 DEF Pos
  <2> QED BY <2>1, <2>2
<1> QED BY <1>4, <1>5, <1>6 DEF MateInv

\* A failure of the wire, and its renewal, is such a loss.
LEMMA BreakThins ==
  ASSUME StreamInv, Break
  PROVE  Thinned
<1>1. TypeOK
  BY DEF StreamInv, TypeInv
<1>2. PICK h \in 0..Len(net["host"]), d \in 0..Len(net["device"]) :
        net' = [x \in Side |-> Append(SubSeq(net[x], 1, IF x = "host" THEN h ELSE d), Offline)]
  BY DEF Break
<1>3. ASSUME NEW z \in Side, NEW n \in Pos(z)'
      PROVE  \/ n \in Pos(z) /\ net'[z][n] = net[z][n]
             \/ net'[z][n].cmd \in {"CNXN", "SYNC"}
  <2>1. PICK c, q : c = (IF z = "host" THEN h ELSE d) /\ q = net[z]
    OBVIOUS
  <2>2. q \in Seq(Packet) /\ c \in 0..Len(q)
    BY <1>1, <2>1 DEF TypeOK, Side
  <2>3. net'[z] = Append(SubSeq(q, 1, c), Offline)
    BY <1>2, <2>1
  <2>4. PICK u : u = SubSeq(q, 1, c)
    OBVIOUS
  <2>5. u \in Seq(Packet) /\ Len(u) = c /\ (\A m \in 1..c : u[m] = q[m] /\ m \in 1..Len(q))
    BY <2>2, <2>4
  <2>6. n \in 1..(c + 1) /\ net'[z][n] = IF n <= c THEN u[n] ELSE Offline
    BY <2>3, <2>4, <2>5 DEF Pos
  <2>7. CASE n <= c
    BY <2>1, <2>2, <2>5, <2>6, <2>7 DEF Pos
  <2>8. CASE ~(n <= c)
    BY <2>6, <2>8 DEF Offline
  <2> QED BY <2>7, <2>8
<1> QED BY <1>3 DEF Break, Thinned

LEMMA ReconnectThins ==
  ASSUME StreamInv, Reconnect
  PROVE  Thinned
<1>1. TypeOK
  BY DEF StreamInv, TypeInv
<1>2. net' = [net EXCEPT !["device"] = <<Cnxn>>] /\ (\A x \in Side : net[x] = <<>>)
  BY DEF Reconnect
<1>3. ASSUME NEW z \in Side, NEW n \in Pos(z)'
      PROVE  net'[z][n].cmd \in {"CNXN", "SYNC"}
  <2>1. net'[z] = <<>> \/ net'[z] = <<Cnxn>>
    BY <1>1, <1>2 DEF TypeOK, Side
  <2>2. net'[z] = <<Cnxn>> /\ n = 1
    BY <2>1 DEF Pos
  <2>3. net'[z][n] = Cnxn
    BY <2>2
  <2> QED BY <2>3 DEF Cnxn
<1> QED BY <1>3 DEF Reconnect, Thinned

-----------------------------------------------------------------------------
(* What flows between two sockets *)

IsWrte(p, j, i) == p.cmd = "WRTE" /\ p.arg0 = j /\ p.arg1 = i
IsOkay(p, j, i) == p.cmd = "OKAY" /\ p.arg0 = j /\ p.arg1 = i

\* The numbers of the first and the last unit of a WRTE, and a WRTE whose
\* units follow each other.
FirstOf(p) == p.data[1].n
LastOf(p) == p.data[1].n + Len(p.data) - 1
Sound(p) ==
  /\ p.data \in Seq(Unit) /\ p.data # <<>> /\ FirstOf(p) \in Nat \ {0}
  /\ \A k \in 1..Len(p.data) : p.data[k] = [gen |-> 0, id |-> p.arg0, n |-> FirstOf(p) + k - 1]

\* The WRTEs of one stream on their way to x carry its units, in order, ...
InOrder(x) ==
  /\ \A n \in Pos(x), j, i \in Ids : IsWrte(net[x][n], j, i) =>
       Sound(net[x][n]) /\ LastOf(net[x][n]) <= app[Other(x)][j].sent
  /\ \A m, n \in Pos(x), j, i \in Ids :
       m < n /\ IsWrte(net[x][m], j, i) /\ IsWrte(net[x][n], j, i) => LastOf(net[x][m]) < FirstOf(net[x][n])

\* ... each from where the last one before it, or the receiver, has got to, ...
Follows(x) ==
  \A n \in Pos(x), j, i \in Ids : IsWrte(net[x][n], j, i) /\ sock[x][i].list = "open" =>
    \/ FirstOf(net[x][n]) = Len(Str(x, i)) + 1
    \/ \E m \in Pos(x) : m < n /\ IsWrte(net[x][m], j, i) /\ FirstOf(net[x][n]) = LastOf(net[x][m]) + 1

\* ... and behind the OKAY that connects the receiver.
OkayFirst(x) ==
  \A n \in Pos(x), j, i \in Ids :
    IsWrte(net[x][n], j, i) /\ sock[x][i].list = "open" /\ sock[x][i].peer = 0 =>
      \E m \in Pos(x) : m < n /\ IsOkay(net[x][m], j, i)

\* While the wire is up, that OKAY and all units of the sender are under way
\* or have arrived.
Complete(x) ==
  \A j, i \in Ids :
    link = "up" /\ sock[x][i].list = "open" /\ app[Other(x)][j].mate = i =>
      /\ sock[x][i].peer = 0 => \E m \in Pos(x) : IsOkay(net[x][m], j, i)
      /\ \/ Len(Str(x, i)) = app[Other(x)][j].sent
         \/ \E m \in Pos(x) : IsWrte(net[x][m], j, i) /\ LastOf(net[x][m]) = app[Other(x)][j].sent

\* What has arrived is what the mate sent, from its first unit.
Arrived(x) ==
  \A i \in Ids : \A n \in 1..Len(Str(x, i)) : Str(x, i)[n] = [gen |-> 0, id |-> app[x][i].mate, n |-> n]

Flow(x) == InOrder(x) /\ Follows(x) /\ OkayFirst(x) /\ Complete(x) /\ Arrived(x)

\* What a step of side x makes of its socket i: the units e arrive.
Heard(x, i, k, e) ==
  /\ \/ e = <<>>
     \/ /\ k = 1 /\ 1 \in Pos(x) /\ IsWrte(net[x][1], app[x][i].mate, i)
        /\ sock[x][i].list = "open" /\ e = net[x][1].data /\ app'[x][i].mate = app[x][i].mate
  /\ \/ Str(x, i)' = Str(x, i) \o e
     \/ /\ sock'[x][i].list # "open"
        /\ \E w \in Seq(Unit) : Str(x, i) = Str(x, i)' \o w
  /\ app'[x][i].mate = app[x][i].mate \/ Str(x, i) = <<>>
  /\ sock'[x][i].list = "open" =>
       \/ i >= next_id[x]
       \/ /\ sock[x][i].list = "open"
          /\ sock'[x][i].peer = sock[x][i].peer \/ sock'[x][i].peer # 0
          /\ k = 1 /\ net[x][1].cmd = "WRTE" /\ net[x][1].arg1 = i => e = net[x][1].data
          /\ k = 1 /\ net[x][1].cmd = "OKAY" /\ net[x][1].arg1 = i => sock'[x][i].peer # 0

Hears(x, k) ==
  /\ \A n \in Pos(x)' : n + k \in Pos(x) /\ net'[x][n] = net[x][n + k]
  /\ \A m \in Pos(x) : \/ k = 1 /\ m = 1
                       \/ m - k \in Pos(x)' /\ net'[x][m - k] = net[x][m]
  /\ app'[Other(x)] = app[Other(x)] /\ link' = link /\ k \in {0, 1}
  /\ \A i \in Ids : \E e : Heard(x, i, k, e)

\* The numbers of the units of a sound WRTE.
LEMMA SoundFacts ==
  ASSUME NEW p, Sound(p)
  PROVE  /\ FirstOf(p) \in Nat \ {0} /\ LastOf(p) \in Nat /\ Len(p.data) \in Nat \ {0}
         /\ LastOf(p) >= FirstOf(p) /\ LastOf(p) = FirstOf(p) + Len(p.data) - 1
         /\ p.data \in Seq(Unit)
<1>1. p.data \in Seq(Unit) /\ p.data # <<>> /\ FirstOf(p) \in Nat \ {0}
  BY DEF Sound
<1>2. Len(p.data) \in Nat \ {0}
  BY <1>1
<1>3. LastOf(p) = FirstOf(p) + Len(p.data) - 1
  BY DEF FirstOf, LastOf
<1> QED BY <1>1, <1>2, <1>3

\* What side x does with the packets for it keeps the flow towards it.
LEMMA HearFlow ==
  ASSUME StreamInv, StreamInv', MateInv, NEW x \in Side, NEW k, Flow(x), Hears(x, k)
  PROVE  Flow(x)'
<1> DEFINE y == Other(x)
<1>1. TypeOK /\ TypeOK' /\ Mates
  BY DEF StreamInv, TypeInv, MateInv
<1>2. y \in Side /\ Other(y) = x
  BY Sides
<1>3. /\ \A n \in Pos(x)' : n + k \in Pos(x) /\ net'[x][n] = net[x][n + k]
      /\ \A m \in Pos(x) : \/ k = 1 /\ m = 1
                           \/ m - k \in Pos(x)' /\ net'[x][m - k] = net[x][m]
      /\ app'[y] = app[y] /\ link' = link /\ k \in {0, 1}
  BY DEF Hears
<1>4. /\ \A n \in Pos(x)' : n \in Nat \ {0} /\ net'[x][n] \in Packet
      /\ \A n \in Pos(x) : n \in Nat \ {0} /\ net[x][n] \in Packet
  BY <1>1 DEF Pos, TypeOK
<1>5. /\ \A z \in Side, l \in Ids : app[Other(z)][l].mate < next_id[z]
      /\ \A z \in Side : \A n \in Pos(z) : net[z][n].cmd \in {"OKAY", "WRTE"} =>
              app[Other(z)][net[z][n].arg0].mate = net[z][n].arg1
      /\ \A z \in Side : next_id[z] \in Nat
      /\ Ids \subseteq Nat \ {0}
  BY MateFacts
<1>6. \A i \in Ids : Str(x, i) \in Seq(Unit) /\ Str(x, i)' \in Seq(Unit)
  BY <1>1 DEF TypeOK, App, Socket, Str
<1>7. /\ \A n \in Pos(x), j, i \in Ids : IsWrte(net[x][n], j, i) =>
           Sound(net[x][n]) /\ LastOf(net[x][n]) <= app[y][j].sent
      /\ \A m, n \in Pos(x), j, i \in Ids :
           m < n /\ IsWrte(net[x][m], j, i) /\ IsWrte(net[x][n], j, i) => LastOf(net[x][m]) < FirstOf(net[x][n])
  BY DEF Flow, InOrder
<1>8. \A n \in Pos(x), j, i \in Ids : IsWrte(net[x][n], j, i) \/ IsOkay(net[x][n], j, i) =>
        app[y][j].mate = i /\ i < next_id[x]
  <2> SUFFICES ASSUME NEW n \in Pos(x), NEW j \in Ids, NEW i \in Ids,
                      IsWrte(net[x][n], j, i) \/ IsOkay(net[x][n], j, i)
               PROVE  app[y][j].mate = i /\ i < next_id[x]
    OBVIOUS
  <2>1. app[y][j].mate = i
    BY <1>5 DEF IsWrte, IsOkay
  <2> QED BY <1>5, <2>1
\* Two WRTEs for one socket are from one socket.
<1>9. \A j, l, i \in Ids : app[y][j].mate = i /\ app[y][l].mate = i => j = l
  <2>1. \A j, l \in Ids : app[y][j].mate # 0 /\ app[y][l].mate = app[y][j].mate => l = j
    BY <1>1, <1>2 DEF Mates
  <2> QED BY <1>5, <2>1
\* A WRTE that is first is the next one of its stream.
<1>10. \A j, i \in Ids : 1 \in Pos(x) /\ IsWrte(net[x][1], j, i) /\ sock[x][i].list = "open" =>
         FirstOf(net[x][1]) = Len(Str(x, i)) + 1
  <2> SUFFICES ASSUME NEW j \in Ids, NEW i \in Ids, 1 \in Pos(x), IsWrte(net[x][1], j, i), sock[x][i].list = "open",
                      NEW m \in Pos(x), m < 1
               PROVE  FALSE
    BY DEF Flow, Follows
  <2> QED BY <1>4
<1>11. ASSUME NEW i \in Ids, sock'[x][i].list = "open", ~(i >= next_id[x])
       PROVE  /\ sock[x][i].list = "open"
              /\ sock'[x][i].peer = 0 => sock[x][i].peer = 0
              /\ k = 1 /\ net[x][1].cmd = "OKAY" /\ net[x][1].arg1 = i => sock'[x][i].peer # 0
              /\ \/ Str(x, i)' = Str(x, i)
                 \/ /\ k = 1 /\ 1 \in Pos(x) /\ IsWrte(net[x][1], app[x][i].mate, i)
              /\ k = 1 /\ 1 \in Pos(x) /\ net[x][1].cmd = "WRTE" /\ net[x][1].arg1 = i =>
                   Len(Str(x, i)') = LastOf(net[x][1])
  <2>1. PICK e : Heard(x, i, k, e)
    BY DEF Hears
  <2>2. /\ sock[x][i].list = "open"
        /\ sock'[x][i].peer = sock[x][i].peer \/ sock'[x][i].peer # 0
        /\ k = 1 /\ net[x][1].cmd = "WRTE" /\ net[x][1].arg1 = i => e = net[x][1].data
        /\ k = 1 /\ net[x][1].cmd = "OKAY" /\ net[x][1].arg1 = i => sock'[x][i].peer # 0
        /\ Str(x, i)' = Str(x, i) \o e
        /\ e = <<>> \/ (k = 1 /\ 1 \in Pos(x) /\ IsWrte(net[x][1], app[x][i].mate, i))
    BY <1>11, <2>1 DEF Heard
  <2>3. e = <<>> => Str(x, i)' = Str(x, i)
    BY <1>6, <2>2
  <2>4. ASSUME k = 1, 1 \in Pos(x), net[x][1].cmd = "WRTE", net[x][1].arg1 = i
        PROVE  Len(Str(x, i)') = LastOf(net[x][1])
    <3>1. PICK p : p = net[x][1] /\ p \in Packet
      BY <1>4, <2>4
    <3>2. p.arg0 \in Ids /\ IsWrte(p, p.arg0, i)
      BY <2>4, <3>1, PacketFields DEF IsWrte
    <3>3. Sound(p) /\ FirstOf(p) = Len(Str(x, i)) + 1
      BY <1>7, <1>10, <2>2, <2>4, <3>1, <3>2
    <3>4. e = p.data /\ p.data \in Seq(Unit) /\ LastOf(p) = FirstOf(p) + Len(p.data) - 1 /\ Len(p.data) \in Nat
      BY <2>2, <2>4, <3>1, <3>3, SoundFacts
    <3>5. PICK u, v : u = Str(x, i) /\ v = Str(x, i)' /\ u \in Seq(Unit)
      BY <1>6
    <3>6. v = u \o e /\ e \in Seq(Unit)
      BY <2>2, <3>4, <3>5
    <3>7. Len(v) = Len(u) + Len(e) /\ Len(u) \in Nat
      BY <3>5, <3>6
    <3>8. FirstOf(p) = Len(u) + 1 /\ LastOf(p) = FirstOf(p) + Len(e) - 1 /\ Len(e) \in Nat
      BY <3>3, <3>4, <3>5
    <3>9. Len(v) = LastOf(p)
      BY <3>7, <3>8
    <3> QED BY <3>1, <3>5, <3>9
  <2> QED BY <2>2, <2>3, <2>4
<1>12. InOrder(x)'
  <2>1. \A n \in Pos(x)', j, i \in Ids : IsWrte(net'[x][n], j, i) =>
          Sound(net'[x][n]) /\ LastOf(net'[x][n]) <= app'[y][j].sent
    BY <1>3, <1>7
  <2>2. \A m, n \in Pos(x)', j, i \in Ids :
          m < n /\ IsWrte(net'[x][m], j, i) /\ IsWrte(net'[x][n], j, i) => LastOf(net'[x][m]) < FirstOf(net'[x][n])
    <3> SUFFICES ASSUME NEW m \in Pos(x)', NEW n \in Pos(x)', NEW j \in Ids, NEW i \in Ids,
                        m < n, IsWrte(net'[x][m], j, i), IsWrte(net'[x][n], j, i)
                 PROVE  LastOf(net'[x][m]) < FirstOf(net'[x][n])
      OBVIOUS
    <3>1. m + k < n + k
      BY <1>3, <1>4
    <3> QED BY <1>3, <1>7, <3>1
  <2> QED BY <2>1, <2>2 DEF InOrder
<1>13. ASSUME NEW n \in Pos(x)', NEW m \in Pos(x), m < n + k, ~(k = 1 /\ m = 1)
       PROVE  m - k \in Pos(x)' /\ m - k < n /\ net'[x][m - k] = net[x][m]
  <2>1. m \in Nat /\ n \in Nat
    BY <1>4
  <2> QED BY <1>3, <1>13, <2>1
<1>14. Follows(x)'
  <2> SUFFICES ASSUME NEW n \in Pos(x)', NEW j \in Ids, NEW i \in Ids,
                      IsWrte(net'[x][n], j, i), sock'[x][i].list = "open"
               PROVE  \/ FirstOf(net'[x][n]) = Len(Str(x, i)') + 1
                      \/ \E m \in Pos(x)' : /\ m < n /\ IsWrte(net'[x][m], j, i)
                                            /\ FirstOf(net'[x][n]) = LastOf(net'[x][m]) + 1
    BY DEF Follows
  <2>1. PICK p : p = net'[x][n] /\ p = net[x][n + k] /\ n + k \in Pos(x)
    BY <1>3
  <2>2. app[y][j].mate = i /\ i < next_id[x] /\ i \in Nat /\ next_id[x] \in Nat /\ IsWrte(p, j, i)
    BY <1>5, <1>8, <2>1
  <2>3. ~(i >= next_id[x])
    BY <2>2
  <2>4. /\ sock[x][i].list = "open"
        /\ Str(x, i)' = Str(x, i) \/ (k = 1 /\ 1 \in Pos(x) /\ net[x][1].cmd = "WRTE" /\ net[x][1].arg1 = i)
        /\ k = 1 /\ 1 \in Pos(x) /\ net[x][1].cmd = "WRTE" /\ net[x][1].arg1 = i =>
             Len(Str(x, i)') = LastOf(net[x][1])
    BY <1>11, <2>3 DEF IsWrte
  <2>5. \/ FirstOf(p) = Len(Str(x, i)) + 1
        \/ \E m \in Pos(x) : m < n + k /\ IsWrte(net[x][m], j, i) /\ FirstOf(p) = LastOf(net[x][m]) + 1
    BY <2>1, <2>2, <2>4 DEF Flow, Follows
  <2>6. CASE \E m \in Pos(x) : m < n + k /\ IsWrte(net[x][m], j, i) /\ FirstOf(p) = LastOf(net[x][m]) + 1
    <3>1. PICK m \in Pos(x) : m < n + k /\ IsWrte(net[x][m], j, i) /\ FirstOf(p) = LastOf(net[x][m]) + 1
      BY <2>6
    <3>2. CASE k = 1 /\ m = 1
      BY <2>1, <2>4, <3>1, <3>2 DEF IsWrte
    <3>3. CASE ~(k = 1 /\ m = 1)
      BY <1>13, <2>1, <3>1, <3>3
    <3> QED BY <3>2, <3>3
  <2>7. CASE FirstOf(p) = Len(Str(x, i)) + 1
    <3>1. CASE Str(x, i)' = Str(x, i)
      BY <2>1, <2>7, <3>1
    <3>2. CASE k = 1 /\ 1 \in Pos(x) /\ net[x][1].cmd = "WRTE" /\ net[x][1].arg1 = i
      <4>1. PICK h : h = net[x][1] /\ h \in Packet
        BY <1>4, <3>2
      <4>2. h.arg0 \in Ids /\ IsWrte(h, h.arg0, i)
        BY <3>2, <4>1, PacketFields DEF IsWrte
      <4>3. app[y][h.arg0].mate = i
        BY <1>8, <3>2, <4>1, <4>2
      <4>4. h.arg0 = j
        BY <1>9, <2>2, <4>3, <4>2
      <4>5. IsWrte(h, j, i) /\ Sound(h) /\ FirstOf(h) = Len(Str(x, i)) + 1
        BY <1>7, <1>10, <2>4, <3>2, <4>1, <4>2, <4>4
      <4>6. 1 < n + k
        BY <1>4, <3>2
      <4>7. LastOf(h) < FirstOf(p)
        BY <1>7, <2>1, <2>2, <3>2, <4>1, <4>5, <4>6
      <4>8. FirstOf(h) \in Nat /\ LastOf(h) \in Nat /\ LastOf(h) >= FirstOf(h)
        BY <4>5, SoundFacts
      <4> QED BY <2>7, <4>5, <4>7, <4>8
    <3> QED BY <2>4, <3>1, <3>2
  <2> QED BY <2>5, <2>6, <2>7
<1>15. OkayFirst(x)'
  <2> SUFFICES ASSUME NEW n \in Pos(x)', NEW j \in Ids, NEW i \in Ids,
                      IsWrte(net'[x][n], j, i), sock'[x][i].list = "open", sock'[x][i].peer = 0
               PROVE  \E m \in Pos(x)' : m < n /\ IsOkay(net'[x][m], j, i)
    BY DEF OkayFirst
  <2>1. n + k \in Pos(x) /\ IsWrte(net[x][n + k], j, i)
    BY <1>3
  <2>2. i < next_id[x] /\ i \in Nat /\ next_id[x] \in Nat
    BY <1>5, <1>8, <2>1
  <2>3. ~(i >= next_id[x])
    BY <2>2
  <2>4. sock[x][i].list = "open" /\ sock[x][i].peer = 0 /\ ~(k = 1 /\ net[x][1].cmd = "OKAY" /\ net[x][1].arg1 = i)
    BY <1>11, <2>3
  <2>5. PICK m \in Pos(x) : m < n + k /\ IsOkay(net[x][m], j, i)
    BY <2>1, <2>4 DEF Flow, OkayFirst
  <2>6. ~(k = 1 /\ m = 1)
    BY <2>4, <2>5 DEF IsOkay
  <2> QED BY <1>13, <2>5, <2>6
<1>16. Complete(x)'
  <2> SUFFICES ASSUME NEW j \in Ids, NEW i \in Ids, link = "up", sock'[x][i].list = "open", app[y][j].mate = i
               PROVE  /\ sock'[x][i].peer = 0 => \E m \in Pos(x)' : IsOkay(net'[x][m], j, i)
                      /\ \/ Len(Str(x, i)') = app[y][j].sent
                         \/ \E m \in Pos(x)' : IsWrte(net'[x][m], j, i) /\ LastOf(net'[x][m]) = app[y][j].sent
    BY <1>3 DEF Complete
  <2>1. i < next_id[x] /\ i \in Nat /\ next_id[x] \in Nat
    BY <1>5
  <2>2. ~(i >= next_id[x])
    BY <2>1
  <2>3. /\ sock[x][i].list = "open"
        /\ sock'[x][i].peer = 0 => sock[x][i].peer = 0
        /\ k = 1 /\ net[x][1].cmd = "OKAY" /\ net[x][1].arg1 = i => sock'[x][i].peer # 0
        /\ Str(x, i)' = Str(x, i) \/ (k = 1 /\ 1 \in Pos(x) /\ net[x][1].cmd = "WRTE" /\ net[x][1].arg1 = i)
        /\ k = 1 /\ 1 \in Pos(x) /\ net[x][1].cmd = "WRTE" /\ net[x][1].arg1 = i =>
             Len(Str(x, i)') = LastOf(net[x][1])
    BY <1>11, <2>2 DEF IsWrte
  <2>4. /\ sock[x][i].peer = 0 => \E m \in Pos(x) : IsOkay(net[x][m], j, i)
        /\ \/ Len(Str(x, i)) = app[y][j].sent
           \/ \E m \in Pos(x) : IsWrte(net[x][m], j, i) /\ LastOf(net[x][m]) = app[y][j].sent
    BY <2>3 DEF Flow, Complete
  <2>5. ASSUME sock'[x][i].peer = 0 PROVE \E m \in Pos(x)' : IsOkay(net'[x][m], j, i)
    <3>1. PICK m \in Pos(x) : IsOkay(net[x][m], j, i)
      BY <2>3, <2>4, <2>5
    <3>2. ~(k = 1 /\ m = 1)
      BY <2>3, <2>5, <3>1 DEF IsOkay
    <3> QED BY <1>3, <3>1, <3>2
  <2>6. CASE \E m \in Pos(x) : IsWrte(net[x][m], j, i) /\ LastOf(net[x][m]) = app[y][j].sent
    <3>1. PICK m \in Pos(x) : IsWrte(net[x][m], j, i) /\ LastOf(net[x][m]) = app[y][j].sent
      BY <2>6
    <3>2. CASE k = 1 /\ m = 1
      BY <2>3, <2>5, <3>1, <3>2 DEF IsWrte
    <3>3. CASE ~(k = 1 /\ m = 1)
      BY <1>3, <2>5, <3>1, <3>3
    <3> QED BY <3>2, <3>3
  <2>7. CASE Len(Str(x, i)) = app[y][j].sent
    <3>1. CASE Str(x, i)' = Str(x, i)
      BY <2>5, <2>7, <3>1
    <3>2. CASE k = 1 /\ 1 \in Pos(x) /\ net[x][1].cmd = "WRTE" /\ net[x][1].arg1 = i
      <4>1. PICK h : h = net[x][1] /\ h \in Packet
        BY <1>4, <3>2
      <4>2. h.arg0 \in Ids /\ IsWrte(h, h.arg0, i)
        BY <3>2, <4>1, PacketFields DEF IsWrte
      <4>3. h.arg0 = j
        BY <1>8, <1>9, <3>2, <4>1, <4>2
      <4>4. Sound(h) /\ FirstOf(h) = Len(Str(x, i)) + 1 /\ LastOf(h) <= app[y][j].sent
        BY <1>7, <1>10, <2>3, <3>2, <4>1, <4>2, <4>3
      <4>5. FirstOf(h) \in Nat /\ LastOf(h) \in Nat /\ LastOf(h) >= FirstOf(h)
        BY <4>4, SoundFacts
      <4>6. app[y][j].sent \in Nat
        BY <1>1, <1>2 DEF TypeOK, App
      <4> QED BY <2>7, <4>4, <4>5, <4>6
    <3> QED BY <2>3, <3>1, <3>2
  <2> QED BY <2>4, <2>5, <2>6, <2>7
<1>17. Arrived(x)'
  <2> SUFFICES ASSUME NEW i \in Ids, NEW v, v = Str(x, i)', NEW n \in 1..Len(v)
               PROVE  v[n] = [gen |-> 0, id |-> app'[x][i].mate, n |-> n]
    BY DEF Arrived
  <2>1. PICK e : Heard(x, i, k, e)
    BY DEF Hears
  <2>2. PICK u : u = Str(x, i) /\ u \in Seq(Unit) /\ v \in Seq(Unit)
    BY <1>6
  <2>3. \A m \in 1..Len(u) : u[m] = [gen |-> 0, id |-> app[x][i].mate, n |-> m]
    BY <2>2 DEF Flow, Arrived
  <2>4. app'[x][i].mate = app[x][i].mate \/ u = <<>>
    BY <2>1, <2>2 DEF Heard
  <2>5. CASE v = u \o e /\ e = <<>>
    <3>1. v = u
      BY <2>2, <2>5
    <3>2. u # <<>>
      BY <2>2, <3>1
    <3> QED BY <2>3, <2>4, <3>1, <3>2
  <2>6. CASE \E w \in Seq(Unit) : u = v \o w
    <3>1. PICK w \in Seq(Unit) : u = v \o w
      BY <2>6
    <3>2. n \in 1..Len(u) /\ u[n] = v[n]
      BY <2>2, <3>1, Joined
    <3>3. u # <<>>
      BY <2>2, <3>2
    <3> QED BY <2>3, <2>4, <3>2, <3>3
  <2>7. CASE /\ v = u \o e
             /\ k = 1 /\ 1 \in Pos(x) /\ IsWrte(net[x][1], app[x][i].mate, i)
             /\ sock[x][i].list = "open" /\ e = net[x][1].data /\ app'[x][i].mate = app[x][i].mate
    <3>1. PICK p : p = net[x][1] /\ p \in Packet /\ IsWrte(p, app[x][i].mate, i) /\ e = p.data
      BY <1>4, <2>7
    <3>2. app[x][i].mate \in Ids /\ p.arg0 = app[x][i].mate
      BY <3>1, PacketFields DEF IsWrte
    <3>3. Sound(p) /\ FirstOf(p) = Len(u) + 1
      BY <1>7, <1>10, <2>2, <2>7, <3>1, <3>2
    <3>4. e \in Seq(Unit) /\ \A l \in 1..Len(e) : e[l] = [gen |-> 0, id |-> app[x][i].mate, n |-> FirstOf(p) + l - 1]
      BY <3>1, <3>2, <3>3 DEF Sound
    <3>5. /\ Len(v) = Len(u) + Len(e) /\ Len(u) \in Nat /\ Len(e) \in Nat
          /\ \A m \in 1..Len(u) : v[m] = u[m]
          /\ \A m \in 1..Len(v) : m > Len(u) => m - Len(u) \in 1..Len(e) /\ v[m] = e[m - Len(u)]
      BY <2>2, <2>7, <3>4, Joined
    <3>6. CASE n <= Len(u)
      BY <2>3, <2>7, <3>5, <3>6
    <3>7. CASE n > Len(u)
      <4>1. n - Len(u) \in 1..Len(e) /\ v[n] = e[n - Len(u)]
        BY <3>5, <3>7
      <4>2. FirstOf(p) + (n - Len(u)) - 1 = n
        BY <3>3, <3>5
      <4>3. PICK l : l = n - Len(u) /\ l \in 1..Len(e)
        BY <4>1
      <4>4. v[n] = [gen |-> 0, id |-> app[x][i].mate, n |-> FirstOf(p) + l - 1]
        BY <3>4, <4>1, <4>3
      <4> QED BY <2>7, <4>2, <4>3, <4>4
    <3> QED BY <3>5, <3>6, <3>7
  <2>8. \/ v = u \o e
        \/ \E w \in Seq(Unit) : u = v \o w
    BY <2>1, <2>2 DEF Heard
  <2>9. \/ e = <<>>
        \/ /\ k = 1 /\ 1 \in Pos(x) /\ IsWrte(net[x][1], app[x][i].mate, i)
           /\ sock[x][i].list = "open" /\ e = net[x][1].data /\ app'[x][i].mate = app[x][i].mate
    BY <2>1 DEF Heard
  <2> QED BY <2>5, <2>6, <2>7, <2>8, <2>9
<1> QED BY <1>12, <1>14, <1>15, <1>16, <1>17 DEF Flow

\* What a step of side x says for its socket j: the units d are sent.
Spoke(x, j, d, o) ==
  /\ d \in Seq(Unit) /\ app'[x][j].sent = app[x][j].sent + Len(d)
  /\ \A l \in 1..Len(d) : d[l] = [gen |-> 0, id |-> j, n |-> app[x][j].sent + l]
  /\ \A n \in 1..Len(o) : o[n].cmd = "WRTE" /\ o[n].arg0 = j =>
       o[n].data = d /\ d # <<>> /\ app[x][j].mate = o[n].arg1
  /\ \A m, n \in 1..Len(o) : o[m].cmd = "WRTE" /\ o[n].cmd = "WRTE" => m = n
  /\ link = "up" /\ d # <<>> => \E n \in 1..Len(o) : IsWrte(o[n], j, app[x][j].mate)
  /\ \/ app'[x][j].mate = app[x][j].mate
     \/ /\ app[x][j].mate = 0 /\ app'[x][j].mate \in Ids /\ d = <<>>
        /\ Str(Other(x), app'[x][j].mate) = <<>>
        /\ link = "up" /\ sock[Other(x)][app'[x][j].mate].list = "open"
             /\ sock[Other(x)][app'[x][j].mate].peer = 0 =>
             \E n \in 1..Len(o) : IsOkay(o[n], j, app'[x][j].mate)

Says(x, o) ==
  /\ \A n \in Pos(Other(x)) : n \in Pos(Other(x))' /\ net'[Other(x)][n] = net[Other(x)][n]
  /\ \A n \in Pos(Other(x))' :
       \/ n \in Pos(Other(x))
       \/ /\ n - Len(net[Other(x)]) \in 1..Len(o) /\ n > Len(net[Other(x)])
          /\ net'[Other(x)][n] = o[n - Len(net[Other(x)])]
  /\ \A n \in 1..Len(o) : /\ Len(net[Other(x)]) + n \in Pos(Other(x))'
                          /\ net'[Other(x)][Len(net[Other(x)]) + n] = o[n]
  /\ sock'[Other(x)] = sock[Other(x)] /\ app'[Other(x)] = app[Other(x)]
  /\ link' = link /\ (o = <<>> \/ link = "up")
  /\ \A j \in Ids : \E d : Spoke(x, j, d, o)

\* What side x sends keeps the flow towards the other side.
LEMMA SayFlow ==
  ASSUME StreamInv, StreamInv', MateInv, NEW x \in Side, NEW o \in Seq(Packet), Flow(Other(x)), Says(x, o)
  PROVE  Flow(Other(x))'
<1>1. PICK y : y = Other(x) /\ y \in Side /\ Other(y) = x
  BY Sides
<1>2. TypeOK /\ TypeOK' /\ Mates /\ Flow(y)
  BY <1>1 DEF StreamInv, TypeInv, MateInv
<1>3. net[y] \in Seq(Packet) /\ net'[y] \in Seq(Packet)
  BY <1>2, <1>1 DEF TypeOK
<1>4. PICK L : L = Len(net[y]) /\ L \in Nat /\ Pos(y) = 1..L
  BY <1>3 DEF Pos
<1>5. /\ \A n \in Pos(y) : n \in Pos(y)' /\ net'[y][n] = net[y][n]
      /\ \A n \in Pos(y)' : n \in Pos(y) \/ (n - L \in 1..Len(o) /\ n > L /\ net'[y][n] = o[n - L])
      /\ \A n \in 1..Len(o) : L + n \in Pos(y)' /\ net'[y][L + n] = o[n]
      /\ sock'[y] = sock[y] /\ app'[y] = app[y] /\ link' = link /\ (o = <<>> \/ link = "up")
      /\ \A j \in Ids : \E d : Spoke(x, j, d, o)
  BY <1>1, <1>4 DEF Says, Pos
<1>6. /\ \A n \in Pos(y)' : n \in Nat \ {0} /\ net'[y][n] \in Packet
      /\ \A n \in Pos(y) : n \in Nat \ {0} /\ net[y][n] \in Packet
  BY <1>3 DEF Pos
<1>7. \A i \in Ids : Str(y, i)' = Str(y, i)
  BY <1>5 DEF Str
<1>8. /\ \A n \in Pos(y), j, i \in Ids : IsWrte(net[y][n], j, i) =>
           Sound(net[y][n]) /\ LastOf(net[y][n]) <= app[x][j].sent
      /\ \A m, n \in Pos(y), j, i \in Ids :
           m < n /\ IsWrte(net[y][m], j, i) /\ IsWrte(net[y][n], j, i) => LastOf(net[y][m]) < FirstOf(net[y][n])
  BY <1>2, <1>1 DEF Flow, InOrder
<1>9. \A j \in Ids : app[x][j].sent \in Nat /\ app'[x][j].sent \in Nat /\ app'[x][j].sent >= app[x][j].sent
  <2> SUFFICES ASSUME NEW j \in Ids
               PROVE  app[x][j].sent \in Nat /\ app'[x][j].sent \in Nat /\ app'[x][j].sent >= app[x][j].sent
    OBVIOUS
  <2>1. PICK d : Spoke(x, j, d, o)
    BY <1>5
  <2>2. d \in Seq(Unit) /\ app'[x][j].sent = app[x][j].sent + Len(d)
    BY <2>1 DEF Spoke
  <2>3. app[x][j].sent \in Nat /\ Len(d) \in Nat
    <3>1. app \in [Side -> [Ids -> App]]
      BY <1>2 DEF TypeOK
    <3>2. app[x][j] \in App
      BY <3>1
    <3> QED BY <2>2, <3>2 DEF App
  <2> QED BY <2>2, <2>3
\* A WRTE that is new.
<1>10. ASSUME NEW p, NEW l \in 1..Len(o), p = o[l], NEW j \in Ids, NEW i \in Ids, IsWrte(p, j, i)
       PROVE  /\ Sound(p) /\ FirstOf(p) = app[x][j].sent + 1 /\ LastOf(p) = app'[x][j].sent
              /\ app[x][j].mate = i /\ link = "up"
  <2>1. PICK d : Spoke(x, j, d, o)
    BY <1>5
  <2>2. /\ d \in Seq(Unit) /\ app'[x][j].sent = app[x][j].sent + Len(d)
        /\ \A m \in 1..Len(d) : d[m] = [gen |-> 0, id |-> j, n |-> app[x][j].sent + m]
        /\ p.data = d /\ d # <<>> /\ app[x][j].mate = i
    BY <1>10, <2>1 DEF Spoke, IsWrte
  <2>3. link = "up"
    BY <1>5, <1>10
  <2>4. PICK s : s = app[x][j].sent /\ s \in Nat
    BY <1>9
  <2>5. Len(d) \in Nat \ {0} /\ 1 \in 1..Len(d) /\ p.arg0 = j
    BY <1>10, <2>2 DEF IsWrte
  <2>6. d[1] = [gen |-> 0, id |-> j, n |-> s + 1]
    BY <2>2, <2>4, <2>5
  <2>7. d[1].n = s + 1
    BY <2>6
  <2>8. FirstOf(p) = s + 1 /\ LastOf(p) = s + Len(d)
    BY <2>2, <2>4, <2>5, <2>7 DEF FirstOf, LastOf
  <2>9. Sound(p)
    <3>1. ASSUME NEW m \in 1..Len(d) PROVE d[m] = [gen |-> 0, id |-> j, n |-> FirstOf(p) + m - 1]
      <4>1. FirstOf(p) + m - 1 = s + m
        BY <2>4, <2>5, <2>8
      <4> QED BY <2>2, <2>4, <4>1
    <3>2. FirstOf(p) \in Nat \ {0}
      BY <2>4, <2>8
    <3> QED BY <2>2, <2>5, <3>1, <3>2 DEF Sound
  <2> QED BY <2>2, <2>3, <2>4, <2>8, <2>9
<1>11. ASSUME NEW n \in Pos(y)' PROVE (n \in Pos(y) /\ net'[y][n] = net[y][n]) \/ (n > L /\ \E l \in 1..Len(o) : l = n - L /\ net'[y][n] = o[l])
  BY <1>5
<1>12. InOrder(y)'
  <2>1. ASSUME NEW n \in Pos(y)', NEW j \in Ids, NEW i \in Ids, IsWrte(net'[y][n], j, i)
        PROVE  Sound(net'[y][n]) /\ LastOf(net'[y][n]) <= app'[x][j].sent
    <3>1. CASE n \in Pos(y) /\ net'[y][n] = net[y][n]
      <4>1. Sound(net[y][n]) /\ LastOf(net[y][n]) <= app[x][j].sent
        BY <1>8, <2>1, <3>1
      <4>2. LastOf(net[y][n]) \in Nat
        BY <4>1, SoundFacts
      <4> QED BY <1>9, <3>1, <4>1, <4>2
    <3>2. CASE \E l \in 1..Len(o) : l = n - L /\ net'[y][n] = o[l]
      <4>1. Sound(net'[y][n]) /\ LastOf(net'[y][n]) = app'[x][j].sent
        BY <1>10, <2>1, <3>2
      <4> QED BY <1>9, <4>1
    <3> QED BY <1>11, <3>1, <3>2
  <2>2. ASSUME NEW m \in Pos(y)', NEW n \in Pos(y)', NEW j \in Ids, NEW i \in Ids, m < n,
               IsWrte(net'[y][m], j, i), IsWrte(net'[y][n], j, i)
        PROVE  LastOf(net'[y][m]) < FirstOf(net'[y][n])
    <3>1. CASE n \in Pos(y)
      <4>1. m \in Pos(y)
        BY <1>4, <1>6, <2>2, <3>1
      <4> QED BY <1>5, <1>8, <2>2, <3>1, <4>1
    <3>2. CASE n \notin Pos(y)
      <4>1. PICK l \in 1..Len(o) : l = n - L /\ net'[y][n] = o[l]
        BY <1>11, <3>2
      <4>2. FirstOf(net'[y][n]) = app[x][j].sent + 1
        BY <1>10, <2>2, <4>1
      <4>3. CASE m \in Pos(y)
        <5>1. Sound(net[y][m]) /\ LastOf(net[y][m]) <= app[x][j].sent /\ net'[y][m] = net[y][m]
          BY <1>5, <1>8, <2>2, <4>3
        <5>2. LastOf(net[y][m]) \in Nat
          BY <5>1, SoundFacts
        <5> QED BY <1>9, <4>2, <5>1, <5>2
      <4>4. CASE m \notin Pos(y)
        <5>1. PICK h \in 1..Len(o) : h = m - L /\ net'[y][m] = o[h]
          BY <1>11, <4>4
        <5>2. h = l
          <6>1. PICK d : Spoke(x, j, d, o)
            BY <1>5
          <6> QED BY <2>2, <4>1, <5>1, <6>1 DEF Spoke, IsWrte
        <5> QED BY <1>4, <1>6, <2>2, <4>1, <5>1, <5>2
      <4> QED BY <4>3, <4>4
    <3> QED BY <3>1, <3>2
  <2> QED BY <1>1, <2>1, <2>2 DEF InOrder
<1>13. /\ \A j, i \in Ids :
            link = "up" /\ sock[y][i].list = "open" /\ app[x][j].mate = i =>
              /\ sock[y][i].peer = 0 => \E m \in Pos(y) : IsOkay(net[y][m], j, i)
              /\ \/ Len(Str(y, i)) = app[x][j].sent
                 \/ \E m \in Pos(y) : IsWrte(net[y][m], j, i) /\ LastOf(net[y][m]) = app[x][j].sent
  BY <1>2, <1>1 DEF Flow, Complete
<1>14. ASSUME NEW m \in Pos(y), NEW n \in Pos(y)', n \notin Pos(y) PROVE m < n
  BY <1>4, <1>6, <1>11, <1>14
<1>15. Follows(y)'
  <2> SUFFICES ASSUME NEW n \in Pos(y)', NEW j \in Ids, NEW i \in Ids,
                      IsWrte(net'[y][n], j, i), sock'[y][i].list = "open"
               PROVE  \/ FirstOf(net'[y][n]) = Len(Str(y, i)') + 1
                      \/ \E m \in Pos(y)' : /\ m < n /\ IsWrte(net'[y][m], j, i)
                                            /\ FirstOf(net'[y][n]) = LastOf(net'[y][m]) + 1
    BY DEF Follows
  <2>1. CASE n \in Pos(y)
    <3>1. \/ FirstOf(net[y][n]) = Len(Str(y, i)) + 1
          \/ \E m \in Pos(y) : /\ m < n /\ IsWrte(net[y][m], j, i)
                               /\ FirstOf(net[y][n]) = LastOf(net[y][m]) + 1
      BY <1>2, <1>5, <2>1 DEF Flow, Follows
    <3> QED BY <1>5, <1>7, <2>1, <3>1
  <2>2. CASE n \notin Pos(y)
    <3>1. FirstOf(net'[y][n]) = app[x][j].sent + 1 /\ app[x][j].mate = i /\ link = "up"
      BY <1>10, <1>11, <2>2
    <3>2. \/ Len(Str(y, i)) = app[x][j].sent
          \/ \E m \in Pos(y) : IsWrte(net[y][m], j, i) /\ LastOf(net[y][m]) = app[x][j].sent
      BY <1>5, <1>13, <3>1
    <3> QED BY <1>5, <1>7, <1>14, <2>2, <3>1, <3>2
  <2> QED BY <2>1, <2>2
<1>16. OkayFirst(y)'
  <2> SUFFICES ASSUME NEW n \in Pos(y)', NEW j \in Ids, NEW i \in Ids,
                      IsWrte(net'[y][n], j, i), sock'[y][i].list = "open", sock'[y][i].peer = 0
               PROVE  \E m \in Pos(y)' : m < n /\ IsOkay(net'[y][m], j, i)
    BY DEF OkayFirst
  <2>1. CASE n \in Pos(y)
    <3>1. \E m \in Pos(y) : m < n /\ IsOkay(net[y][m], j, i)
      BY <1>2, <1>5, <2>1 DEF Flow, OkayFirst
    <3> QED BY <1>5, <3>1
  <2>2. CASE n \notin Pos(y)
    <3>1. app[x][j].mate = i /\ link = "up"
      BY <1>10, <1>11, <2>2
    <3>2. \E m \in Pos(y) : IsOkay(net[y][m], j, i)
      BY <1>5, <1>13, <3>1
    <3> QED BY <1>5, <1>14, <2>2, <3>2
  <2> QED BY <2>1, <2>2
<1>17. Complete(y)'
  <2> SUFFICES ASSUME NEW j \in Ids, NEW i \in Ids, link = "up", sock[y][i].list = "open", app'[x][j].mate = i
               PROVE  /\ sock[y][i].peer = 0 => \E m \in Pos(y)' : IsOkay(net'[y][m], j, i)
                      /\ \/ Len(Str(y, i)) = app'[x][j].sent
                         \/ \E m \in Pos(y)' : IsWrte(net'[y][m], j, i) /\ LastOf(net'[y][m]) = app'[x][j].sent
    BY <1>5, <1>7, <1>1 DEF Complete
  <2>1. PICK d : Spoke(x, j, d, o)
    BY <1>5
  <2>2. d \in Seq(Unit) /\ app'[x][j].sent = app[x][j].sent + Len(d)
    BY <2>1 DEF Spoke
  <2>3. d = <<>> => app'[x][j].sent = app[x][j].sent
    <3>1. d = <<>> => Len(d) = 0
      OBVIOUS
    <3> QED BY <1>9, <2>2, <3>1
  <2>4. CASE app'[x][j].mate = app[x][j].mate
    <3>1. /\ sock[y][i].peer = 0 => \E m \in Pos(y) : IsOkay(net[y][m], j, i)
          /\ \/ Len(Str(y, i)) = app[x][j].sent
             \/ \E m \in Pos(y) : IsWrte(net[y][m], j, i) /\ LastOf(net[y][m]) = app[x][j].sent
      BY <1>13, <2>4
    <3>2. sock[y][i].peer = 0 => \E m \in Pos(y)' : IsOkay(net'[y][m], j, i)
      BY <1>5, <3>1
    <3>3. CASE d = <<>>
      BY <1>5, <2>3, <3>1, <3>2, <3>3
    <3>4. CASE d # <<>>
      <4>1. PICK n \in 1..Len(o) : IsWrte(o[n], j, i)
        BY <2>1, <2>4, <3>4 DEF Spoke
      <4>2. LastOf(o[n]) = app'[x][j].sent
        BY <1>10, <4>1
      <4> QED BY <1>5, <3>2, <4>1, <4>2
    <3> QED BY <3>3, <3>4
  <2>5. CASE app'[x][j].mate # app[x][j].mate
    <3>1. /\ app[x][j].mate = 0 /\ d = <<>> /\ Str(y, i) = <<>>
          /\ sock[y][i].peer = 0 => \E n \in 1..Len(o) : IsOkay(o[n], j, i)
      BY <1>1, <2>1, <2>5 DEF Spoke
    <3>2. app'[x][j].sent = 0
      BY <1>2, <2>3, <3>1 DEF Mates
    <3>3. Len(Str(y, i)) = 0
      BY <3>1
    <3>4. sock[y][i].peer = 0 => \E m \in Pos(y)' : IsOkay(net'[y][m], j, i)
      BY <1>5, <3>1
    <3> QED BY <3>2, <3>3, <3>4
  <2> QED BY <2>4, <2>5
<1>18. Arrived(y)'
  <2>1. Arrived(y)
    BY <1>2 DEF Flow
  <2> QED BY <1>5, <1>7, <2>1 DEF Arrived
<1>19. Flow(y)'
  BY <1>12, <1>15, <1>16, <1>17, <1>18 DEF Flow
<1> QED BY <1>19, <1>1

\* The two queues of a step, as HearFlow and SayFlow need them.
LEMMA NetHeard ==
  ASSUME TypeOK, TypeOK', NEW x \in Side, NEW k, NEW o, NetMoves(x, k, o)
  PROVE  /\ \A n \in Pos(x)' : n + k \in Pos(x) /\ net'[x][n] = net[x][n + k]
         /\ \A m \in Pos(x) : \/ k = 1 /\ m = 1
                              \/ m - k \in Pos(x)' /\ net'[x][m - k] = net[x][m]
         /\ k \in {0, 1}
<1>1. k \in {0, 1} /\ Len(net[x]) = Len(net'[x]) + k
  BY DEF NetMoves
<1>2. \A n \in Pos(x)' : n + k \in Pos(x) /\ net'[x][n] = net[x][n + k]
  BY DEF NetMoves, Pos
<1>3. net[x] \in Seq(Packet) /\ net'[x] \in Seq(Packet)
  BY DEF TypeOK
<1>4. Len(net[x]) \in Nat /\ Len(net'[x]) \in Nat
  BY <1>3
<1>5. ASSUME NEW m \in Pos(x), ~(k = 1 /\ m = 1)
      PROVE  m - k \in Pos(x)' /\ net'[x][m - k] = net[x][m]
  <2>1. m \in Nat /\ m >= 1 /\ m <= Len(net[x])
    BY <1>4 DEF Pos
  <2>2. m - k \in 1..Len(net'[x]) /\ (m - k) + k = m
    BY <1>1, <1>4, <1>5, <2>1
  <2> QED BY <1>2, <2>2 DEF Pos
<1> QED BY <1>1, <1>2, <1>5

LEMMA NetSaid ==
  ASSUME NEW x \in Side, NEW k, NEW o, NetMoves(x, k, o)
  PROVE  /\ \A n \in Pos(Other(x)) : n \in Pos(Other(x))' /\ net'[Other(x)][n] = net[Other(x)][n]
         /\ \A n \in Pos(Other(x))' :
              \/ n \in Pos(Other(x))
              \/ /\ n - Len(net[Other(x)]) \in 1..Len(o) /\ n > Len(net[Other(x)])
                 /\ net'[Other(x)][n] = o[n - Len(net[Other(x)])]
         /\ \A n \in 1..Len(o) : /\ Len(net[Other(x)]) + n \in Pos(Other(x))'
                                 /\ net'[Other(x)][Len(net[Other(x)]) + n] = o[n]
BY DEF NetMoves, Pos

LEMMA SentUp ==
  ASSUME NEW out
  PROVE  Sent(out) = <<>> \/ (link = "up" /\ Sent(out) = out)
BY DEF Sent

\* Nothing of a stream is sent, and no socket of x is connected.
LEMMA QuietSays ==
  ASSUME TypeOK, MateInv, NEW x \in Side, NEW k, NEW o, NetMoves(x, k, o), o = <<>> \/ link = "up",
         sock'[Other(x)] = sock[Other(x)], app'[Other(x)] = app[Other(x)], link' = link,
         \A j \in Ids : app'[x][j].sent = app[x][j].sent /\ app'[x][j].mate = app[x][j].mate,
         \A n \in 1..Len(o) : o[n].cmd # "WRTE"
  PROVE  Says(x, o)
<1>1. PICK d : d = <<>>
  OBVIOUS
<1>2. d = <<>> /\ d \in Seq(Unit) /\ Len(d) = 0
  BY <1>1
<1>3. \A j \in Ids : Spoke(x, j, d, o)
  <2> TAKE j \in Ids
  <2>1. app[x][j].sent \in Nat
    BY DEF TypeOK, App
  <2>2. app'[x][j].sent = app[x][j].sent + Len(d)
    BY <1>2, <2>1
  <2> QED BY <1>2, <2>2 DEF Spoke
<1> QED BY <1>3, NetSaid DEF Says

\* The packet at the head of the queue meets an open socket.
LEMMA HeadDelivered ==
  ASSUME StreamInv, MateInv, NEW x \in Side, Flow(x), 1 \in Pos(x), net[x][1].cmd = "WRTE",
         sock[x][net[x][1].arg1].list = "open"
  PROVE  online[x] /\ Found(x, net[x][1].arg1, net[x][1].arg0)
<1>1. TypeOK /\ Mates
  BY DEF StreamInv, TypeInv, MateInv
<1>2. PICK p, i, j, y : p = net[x][1] /\ i = p.arg1 /\ j = p.arg0 /\ y = Other(x)
  OBVIOUS
<1>3. p \in Packet
  BY <1>1, <1>2 DEF TypeOK, Pos
<1>4. i \in Ids /\ j \in Ids /\ y \in Side /\ Other(y) = x /\ IsWrte(p, j, i)
  BY <1>2, <1>3, PacketFields, Sides DEF IsWrte
<1>5. /\ sock[x][i].list = "open" /\ sock[x][i].peer = app[x][i].mate /\ online[x]
      /\ app[y][j].mate = i /\ i # 0
  BY <1>2, <1>4, MateFacts
<1>6. app[x][i].mate \in {0, j}
  BY <1>1, <1>4, <1>5 DEF Mates
<1>7. sock[x][i].peer # 0
  <2> SUFFICES ASSUME sock[x][i].peer = 0 PROVE FALSE
    OBVIOUS
  <2>1. PICK m \in Pos(x) : m < 1
    BY <1>2, <1>4, <1>5 DEF Flow, OkayFirst
  <2> QED BY <1>1, <2>1 DEF Pos, TypeOK
<1> QED BY <1>2, <1>5, <1>6, <1>7 DEF Found

\* An OKAY for an open socket connects it or is from its peer.
LEMMA HeadAnswers ==
  ASSUME StreamInv, MateInv, NEW x \in Side, 1 \in Pos(x), net[x][1].cmd = "OKAY",
         sock[x][net[x][1].arg1].list = "open"
  PROVE  Answers(x, net[x][1])
<1>1. TypeOK /\ Mates
  BY DEF StreamInv, TypeInv, MateInv
<1>2. PICK p, i, j, y : p = net[x][1] /\ i = p.arg1 /\ j = p.arg0 /\ y = Other(x)
  OBVIOUS
<1>3. p \in Packet
  BY <1>1, <1>2 DEF TypeOK, Pos
<1>4. i \in Ids /\ j \in Ids /\ y \in Side /\ Other(y) = x
  BY <1>2, <1>3, PacketFields, Sides
<1>5. /\ sock[x][i].list = "open" /\ sock[x][i].peer = app[x][i].mate /\ online[x]
      /\ app[y][j].mate = i /\ i # 0
  BY <1>2, <1>4, MateFacts
<1>6. app[x][i].mate \in {0, j}
  BY <1>1, <1>4, <1>5 DEF Mates
<1> QED BY <1>2, <1>5, <1>6 DEF Answers, Found


\* What has arrived on a stream is a sequence of units.
LEMMA StrTyped ==
  ASSUME TypeOK, NEW x \in Side, NEW i \in Ids
  PROVE  /\ Str(x, i) \in Seq(Unit) /\ app[x][i].got \in Seq(Unit) /\ sock[x][i].pkts \in Seq(Unit)
         /\ app[x][i].sent \in Nat
BY DEF TypeOK, App, Socket, Str

\* A socket that does not change hears nothing.
LEMMA SameHeard ==
  ASSUME TypeOK, NEW x \in Side, NEW i \in Ids, NEW k, sock'[x][i] = sock[x][i], app'[x][i] = app[x][i],
         ~(k = 1 /\ net[x][1].cmd \in {"WRTE", "OKAY"} /\ net[x][1].arg1 = i /\ sock[x][i].list = "open")
  PROVE  \E e : Heard(x, i, k, e)
<1>1. PICK e : e = <<>>
  OBVIOUS
<1>2. Str(x, i)' = Str(x, i) /\ Str(x, i) \in Seq(Unit)
  BY StrTyped DEF Str
<1>3. Str(x, i)' = Str(x, i) \o e
  BY <1>1, <1>2
<1>4. Heard(x, i, k, e)
  BY <1>1, <1>3 DEF Heard
<1> QED BY <1>4

\* A step of one socket hears and says what is allowed.
LEMMA TalkHears ==
  ASSUME StreamInv, StreamInv', MateInv, NEW x \in Side, NEW i \in Ids, NEW r, NEW out, NEW d, NEW e, NEW k, NEW o,
         Talks(x, i, r, out, d, e), NetMoves(x, k, o), Taken(x, k, r)
  PROVE  Hears(x, k)
<1> DEFINE y == Other(x)
<1>1. TypeOK /\ TypeOK' /\ Mates
  BY DEF StreamInv, TypeInv, MateInv
<1>2. y \in Side /\ y # x
  BY Sides
<1>3. Frame(x, i) /\ Gets(x, i, e) /\ Lives(x, i, r) /\ Takes(x, i, r, e)
  BY DEF Talks
<1>4. /\ \A j \in Ids \ {i} : sock'[x][j] = sock[x][j] /\ app'[x][j] = app[x][j]
      /\ sock'[y] = sock[y] /\ app'[y] = app[y] /\ link' = link
  BY <1>3 DEF Frame
<1>5. /\ sock[x][i].list # "none"
      /\ \/ sock'[x][i].list = sock[x][i].list /\ sock'[x][i].peer = sock[x][i].peer
         \/ sock'[x][i].list \in {"closing", "none"} /\ sock'[x][i].peer = 0
      /\ app'[x][i].mate = app[x][i].mate
  BY <1>3 DEF Lives
<1>6. \A z \in Side, j \in Ids : sock[z][j].list = "open" => sock[z][j].peer = app[z][j].mate
  BY MateFacts
<1>7. k = 0 => e = <<>>
  <2> SUFFICES ASSUME k = 0, e # <<>> PROVE FALSE
    OBVIOUS
  <2>1. r = net /\ r = Rest(x) /\ net[x] # <<>>
    BY <1>3 DEF Taken, Takes, Receive
  <2> QED BY <1>1, <2>1, RestDiffers
<1>8. ASSUME k = 1
      PROVE  /\ 1 \in Pos(x) /\ net[x][1].arg1 = i
             /\ \/ net[x][1].cmd = "WRTE" /\ e = net[x][1].data /\ Found(x, i, net[x][1].arg0)
                \/ net[x][1].cmd = "CLSE" /\ e = <<>> /\ sock'[x][i].list # "open"
  <2>1. net[x] # <<>> /\ r = Rest(x) /\ 1 \in Pos(x) /\ Head(net[x]) = net[x][1]
    BY <1>8 DEF Taken
  <2>2. r # net
    BY <1>1, <2>1, RestDiffers
  <2> QED BY <1>3, <2>1, <2>2 DEF Takes, Receive
<1>9. e = <<>> \/ (/\ k = 1 /\ 1 \in Pos(x) /\ IsWrte(net[x][1], app[x][i].mate, i)
                   /\ sock[x][i].list = "open" /\ e = net[x][1].data /\ app'[x][i].mate = app[x][i].mate)
  <2> SUFFICES ASSUME e # <<>>
               PROVE  /\ k = 1 /\ 1 \in Pos(x) /\ IsWrte(net[x][1], app[x][i].mate, i)
                      /\ sock[x][i].list = "open" /\ e = net[x][1].data /\ app'[x][i].mate = app[x][i].mate
    OBVIOUS
  <2>1. k = 1
    BY <1>7 DEF NetMoves
  <2>2. PICK p : p = net[x][1] /\ 1 \in Pos(x) /\ p.arg1 = i /\ p.cmd = "WRTE" /\ e = p.data /\ Found(x, i, p.arg0)
    BY <1>8, <2>1
  <2>3. p \in Packet
    BY <1>1, <2>2 DEF TypeOK, Pos
  <2>4. p.arg0 \in Ids /\ p.arg0 # 0
    BY <2>2, <2>3, PacketFields, MateFacts
  <2>5. sock[x][i].list = "open" /\ sock[x][i].peer = p.arg0
    BY <2>2, <2>4 DEF Found
  <2>6. app[x][i].mate = p.arg0
    BY <1>6, <2>5
  <2> QED BY <1>5, <2>1, <2>2, <2>5, <2>6 DEF IsWrte
<1>10. \/ Str(x, i)' = Str(x, i) \o e
       \/ sock'[x][i].list # "open" /\ \E w \in Seq(Unit) : Str(x, i) = Str(x, i)' \o w
  <2>1. ASSUME sock'[x][i].pkts = <<>>, app'[x][i].got = app[x][i].got
        PROVE  \E w \in Seq(Unit) : Str(x, i) = Str(x, i)' \o w
    <3>1. app[x][i].got \in Seq(Unit) /\ sock[x][i].pkts \in Seq(Unit)
      BY <1>1, StrTyped
    <3>2. Str(x, i)' = app[x][i].got
      BY <2>1, <3>1 DEF Str
    <3>3. Str(x, i) = app[x][i].got \o sock[x][i].pkts
      BY DEF Str
    <3> QED BY <3>1, <3>2, <3>3
  <2>2. CASE Str(x, i)' = Str(x, i) \o e
    BY <2>2
  <2>3. CASE /\ sock'[x][i].list = "none" /\ app[x][i].end # "open"
             /\ sock'[x][i].pkts = <<>> /\ app'[x][i].got = app[x][i].got
    BY <2>1, <2>3
  <2> QED BY <1>3, <2>2, <2>3 DEF Gets
<1>11. Heard(x, i, k, e)
  <2>1. sock'[x][i].list = "open" => sock[x][i].list = "open" /\ sock'[x][i].peer = sock[x][i].peer
    BY <1>5
  <2>2. sock'[x][i].list = "open" /\ k = 1 => net[x][1].cmd = "WRTE" /\ e = net[x][1].data
    BY <1>8
  <2> QED BY <1>5, <1>9, <1>10, <2>1, <2>2 DEF Heard
<1>12. ASSUME NEW j \in Ids, j # i PROVE \E f : Heard(x, j, k, f)
  <2>1. sock'[x][j] = sock[x][j] /\ app'[x][j] = app[x][j]
    BY <1>4, <1>12
  <2>2. ~(k = 1 /\ net[x][1].arg1 = j)
    BY <1>8, <1>12
  <2> QED BY <1>1, <2>1, <2>2, SameHeard
<1>13. \A j \in Ids : \E f : Heard(x, j, k, f)
  BY <1>11, <1>12
<1> QED BY <1>1, <1>4, <1>13, NetHeard DEF Hears

LEMMA TalkSays ==
  ASSUME StreamInv, StreamInv', MateInv, NEW x \in Side, NEW i \in Ids, NEW r, NEW out, NEW d, NEW e, NEW k, NEW o,
         Talks(x, i, r, out, d, e), o = Sent(out), NetMoves(x, k, o)
  PROVE  Says(x, o)
<1> DEFINE y == Other(x)
<1>1. TypeOK /\ TypeOK' /\ Mates
  BY DEF StreamInv, TypeInv, MateInv
<1>2. /\ Frame(x, i) /\ TalkOut(sock[x][i], sock'[x][i], i, out, d) /\ Sends(x, i, d)
      /\ Lives(x, i, r) /\ out \in Seq(Packet)
  BY DEF Talks
<1>3. /\ \A j \in Ids \ {i} : sock'[x][j] = sock[x][j] /\ app'[x][j] = app[x][j]
      /\ sock'[y] = sock[y] /\ app'[y] = app[y] /\ link' = link
  BY <1>2 DEF Frame
<1>4. sock[x][i].list = "open" => sock[x][i].peer = app[x][i].mate
  BY MateFacts
<1>5. /\ \A n \in 1..Len(o) : n \in 1..Len(out) /\ o[n] = out[n]
      /\ o = <<>> \/ (link = "up" /\ o = out)
      /\ link = "up" => o = out
  BY <1>2, SentOf DEF Sent
<1>6. \A n \in 1..Len(o) : o[n].arg0 = i /\ o[n].arg1 = app[x][i].mate
                            /\ (o[n].cmd = "WRTE" => o[n].data = d /\ d # <<>>)
  BY <1>2, <1>4, <1>5 DEF TalkOut
<1>7. \A m, n \in 1..Len(o) : o[m].cmd = "WRTE" /\ o[n].cmd = "WRTE" => m = n
  BY <1>2, <1>5 DEF TalkOut
<1>8. link = "up" /\ d # <<>> => \E n \in 1..Len(o) : IsWrte(o[n], i, app[x][i].mate)
  <2> SUFFICES ASSUME link = "up", d # <<>> PROVE \E n \in 1..Len(o) : IsWrte(o[n], i, app[x][i].mate)
    OBVIOUS
  <2>1. PICK n \in 1..Len(o) : o[n].cmd = "WRTE"
    BY <1>2, <1>5 DEF TalkOut
  <2> QED BY <1>6, <2>1 DEF IsWrte
<1>9. Spoke(x, i, d, o)
  <2>1. app[x][i].gen = 0 /\ app'[x][i].mate = app[x][i].mate
    BY <1>1, <1>2 DEF Mates, Lives
  <2>2. /\ d \in Seq(Unit) /\ app'[x][i].sent = app[x][i].sent + Len(d)
        /\ \A l \in 1..Len(d) : d[l] = [gen |-> 0, id |-> i, n |-> app[x][i].sent + l]
    BY <1>2, <2>1 DEF Sends
  <2> QED BY <1>6, <1>7, <1>8, <2>1, <2>2 DEF Spoke
<1>10. ASSUME NEW j \in Ids, j # i PROVE \E f : Spoke(x, j, f, o)
  <2>1. PICK f : f = <<>>
    OBVIOUS
  <2>2. f = <<>> /\ f \in Seq(Unit) /\ Len(f) = 0
    BY <2>1
  <2>3. app'[x][j] = app[x][j] /\ app[x][j].sent \in Nat
    BY <1>1, <1>3, <1>10, StrTyped
  <2>4. app'[x][j].sent = app[x][j].sent + Len(f)
    BY <2>2, <2>3
  <2>5. \A n \in 1..Len(o) : o[n].arg0 # j
    BY <1>6, <1>10
  <2>6. Spoke(x, j, f, o)
    BY <1>7, <2>2, <2>3, <2>4, <2>5 DEF Spoke
  <2> QED BY <2>6
<1>11. \A j \in Ids : \E f : Spoke(x, j, f, o)
  BY <1>9, <1>10
<1> QED BY <1>3, <1>5, <1>11, NetSaid DEF Says

\* So does a packet for nobody, ...
LEMMA IgnoredFlows ==
  ASSUME StreamInv, StreamInv', MateInv, NEW x \in Side, Flow(x), NEW out, Ignored(x, out)
  PROVE  Hears(x, 1) /\ Says(x, Sent(out))
<1>1. TypeOK /\ TypeOK' /\ out \in Seq(Packet)
  BY IgnoredKept DEF StreamInv, TypeInv
<1>2. /\ UNCHANGED <<next_id, sock, app, online, link, gen, breaks, opens>>
      /\ net[x] # <<>> /\ net' = Send(Rest(x), x, out)
  BY DEF Ignored
<1>3. NetMoves(x, 1, Sent(out)) /\ 1 \in Pos(x) /\ Head(net[x]) = net[x][1] /\ Head(net[x]) \in Packet
  BY <1>1, <1>2, HeadTaken
<1>4. PICK p, o : p = Head(net[x]) /\ o = Sent(out)
  OBVIOUS
<1>5. ASSUME NEW n \in 1..Len(o) PROVE o[n].cmd # "WRTE"
  <2>1. n \in 1..Len(out) /\ o[n] = out[n]
    BY <1>1, <1>4, SentOf
  <2>2. PICK a, b : out = <<Clse(a, b)>>
    <3>1. out # <<>>
      BY <2>1
    <3> QED BY <3>1 DEF Ignored
  <2>3. out[n] = Clse(a, b)
    BY <2>1, <2>2
  <2> QED BY <2>1, <2>3 DEF Clse
<1>6. o = <<>> \/ link = "up"
  BY <1>4, SentUp
<1>7. Says(x, o)
  BY <1>1, <1>2, <1>3, <1>4, <1>5, <1>6, QuietSays
<1>8. ASSUME NEW i \in Ids PROVE \E e : Heard(x, i, 1, e)
  <2>1. ASSUME p.cmd = "WRTE", p.arg1 = i, sock[x][i].list = "open" PROVE FALSE
    <3>1. online[x] /\ Found(x, p.arg1, p.arg0)
      BY <1>3, <1>4, <2>1, HeadDelivered
    <3> QED BY <1>4, <2>1, <3>1 DEF Ignored
  <2>2. ASSUME p.cmd = "OKAY", p.arg1 = i, sock[x][i].list = "open" PROVE FALSE
    <3>1. Answers(x, p)
      BY <1>3, <1>4, <2>2, HeadAnswers
    <3> QED BY <1>4, <2>2, <3>1 DEF Ignored
  <2>3. sock'[x][i] = sock[x][i] /\ app'[x][i] = app[x][i]
    BY <1>2
  <2> QED BY <1>1, <1>3, <1>4, <2>1, <2>2, <2>3, SameHeard
<1>9. Hears(x, 1)
  BY <1>1, <1>2, <1>3, <1>8, NetHeard DEF Hears
<1> QED BY <1>4, <1>7, <1>9

\* ... a CNXN or a SYNC, ...
LEMMA ResetFlows ==
  ASSUME StreamInv, StreamInv', MateInv, NEW x \in Side, NEW out, Reset(x, out)
  PROVE  Hears(x, 1) /\ Says(x, Sent(out))
<1> DEFINE y == Other(x)
<1>1. TypeOK /\ TypeOK' /\ out \in Seq(Packet)
  BY DEF StreamInv, TypeInv, Reset
<1>2. /\ UNCHANGED <<next_id, app, link, gen, breaks, opens>>
      /\ net[x] # <<>> /\ net' = Send(Rest(x), x, out)
      /\ sock'[y] = sock[y]
      /\ Head(net[x]).cmd \in {"CNXN", "SYNC"}
      /\ \A i \in Ids : \/ sock'[x][i] = sock[x][i]
                        \/ /\ sock[x][i].list = "open" /\ sock'[x][i].list \in {"closing", "none"}
                           /\ sock'[x][i].peer = 0 /\ sock'[x][i].pkts = sock[x][i].pkts
  BY DEF Reset
<1>3. NetMoves(x, 1, Sent(out)) /\ 1 \in Pos(x) /\ Head(net[x]) = net[x][1]
  BY <1>1, <1>2, HeadTaken
<1>4. PICK o : o = Sent(out)
  OBVIOUS
<1>5. ASSUME NEW n \in 1..Len(o) PROVE o[n].cmd # "WRTE"
  <2>1. n \in 1..Len(out) /\ o[n] = out[n]
    BY <1>1, <1>4, SentOf
  <2>2. (\E a, b : out[n] = Clse(a, b)) \/ out[n] = Cnxn
    BY <2>1 DEF Reset
  <2>3. ASSUME NEW a, NEW b, out[n] = Clse(a, b) PROVE o[n].cmd # "WRTE"
    BY <2>1, <2>3 DEF Clse
  <2>4. CASE out[n] = Cnxn
    BY <2>1, <2>4 DEF Cnxn
  <2> QED BY <2>2, <2>3, <2>4
<1>6. o = <<>> \/ link = "up"
  BY <1>4, SentUp
<1>7. Says(x, o)
  BY <1>1, <1>2, <1>3, <1>4, <1>5, <1>6, QuietSays
<1>8. ASSUME NEW i \in Ids PROVE \E e : Heard(x, i, 1, e)
  <2>1. CASE sock'[x][i] = sock[x][i]
    BY <1>1, <1>2, <1>3, <2>1, SameHeard
  <2>2. CASE /\ sock'[x][i].list \in {"closing", "none"}
             /\ sock'[x][i].pkts = sock[x][i].pkts
    <3>1. PICK e : e = <<>>
      OBVIOUS
    <3>2. Str(x, i)' = Str(x, i) /\ Str(x, i) \in Seq(Unit)
      BY <1>1, <1>2, <2>2, StrTyped DEF Str
    <3>3. Str(x, i)' = Str(x, i) \o e
      BY <3>1, <3>2
    <3>4. Heard(x, i, 1, e)
      BY <1>2, <2>2, <3>1, <3>3 DEF Heard
    <3> QED BY <3>4
  <2> QED BY <1>2, <2>1, <2>2
<1>9. Hears(x, 1)
  BY <1>1, <1>2, <1>3, <1>8, NetHeard DEF Hears
<1> QED BY <1>4, <1>7, <1>9

\* ... the creation of a socket, ...
LEMMA CreatedHears ==
  ASSUME StreamInv, StreamInv', MateInv, NEW x \in Side, NEW s, NEW a, NEW k, NEW o, NetMoves(x, k, o),
         Created(x, s, a), s.pkts = <<>>, a.got = <<>>, k = 1 => net[x][1].cmd = "OPEN"
  PROVE  Hears(x, k)
<1>1. TypeOK /\ TypeOK'
  BY DEF StreamInv, TypeInv
<1>2. PICK i : i = next_id[x]
  OBVIOUS
<1>3. /\ i \in Ids
      /\ sock' = [sock EXCEPT ![x][i] = s] /\ app' = [app EXCEPT ![x][i] = a]
      /\ UNCHANGED <<online, link, gen, breaks>>
  BY <1>2 DEF Created
<1>4. /\ \A z \in Side, j \in Ids : (z # x \/ j # i) => sock'[z][j] = sock[z][j] /\ app'[z][j] = app[z][j]
      /\ sock'[x][i] = s /\ app'[x][i] = a
      /\ app'[Other(x)] = app[Other(x)]
  <2>1. sock \in [Side -> [Ids -> Socket]] /\ app \in [Side -> [Ids -> App]]
    BY <1>1 DEF TypeOK
  <2>2. Other(x) \in Side /\ Other(x) # x
    BY Sides
  <2> QED BY <1>3, <2>1, <2>2
<1>5. Fresh(x, i) /\ i >= next_id[x]
  <2>1. i >= next_id[x] /\ i \in Nat
    BY <1>2, <1>3, MateFacts
  <2> QED BY <1>3, <2>1, MateFacts
<1>6. \E e : Heard(x, i, k, e)
  <2>1. PICK e : e = <<>>
    OBVIOUS
  <2>2. Str(x, i)' = <<>>
    BY <1>4 DEF Str
  <2>3. Str(x, i) = <<>>
    BY <1>5 DEF Fresh
  <2>4. Str(x, i)' = Str(x, i) \o e
    BY <2>1, <2>2, <2>3
  <2>5. Heard(x, i, k, e)
    BY <1>5, <2>1, <2>3, <2>4 DEF Heard
  <2> QED BY <2>5
<1>7. ASSUME NEW j \in Ids, j # i PROVE \E e : Heard(x, j, k, e)
  BY <1>1, <1>4, <1>7, SameHeard
<1>8. \A j \in Ids : \E e : Heard(x, j, k, e)
  BY <1>6, <1>7
<1> QED BY <1>1, <1>3, <1>4, <1>8, NetHeard DEF Hears

\* ... by a client that is accepted ...
LEMMA ConnectedFlows ==
  ASSUME StreamInv, StreamInv', MateInv, NEW x \in Side, NEW out \in Seq(Packet), Connected(x),
         NetMoves(x, 0, Sent(out)), out = <<Open(next_id[x])>>
  PROVE  Hears(x, 0) /\ Says(x, Sent(out))
<1>1. TypeOK /\ TypeOK'
  BY DEF StreamInv, TypeInv
<1>2. PICK i, s, a, o : /\ i = next_id[x] /\ s = [NoSocket EXCEPT !.list = "open"] /\ a = NewApp(gen, 0)
                        /\ o = Sent(out)
  OBVIOUS
<1>3. Created(x, s, a)
  BY <1>2 DEF Connected
<1>4. s.pkts = <<>> /\ a.got = <<>> /\ a.mate = 0 /\ a.sent = 0
  BY <1>2 DEF NoSocket, NewApp
<1>5. Hears(x, 0)
  <2>1. PICK k : k = 0
    OBVIOUS
  <2>2. NetMoves(x, k, o) /\ (k = 1 => net[x][1].cmd = "OPEN") /\ s.pkts = <<>> /\ a.got = <<>>
    BY <1>2, <1>4, <2>1
  <2>3. Hears(x, k)
    BY <1>3, <2>2, CreatedHears
  <2> QED BY <2>1, <2>3
<1>6. /\ i \in Ids
      /\ sock' = [sock EXCEPT ![x][i] = s] /\ app' = [app EXCEPT ![x][i] = a]
      /\ UNCHANGED <<online, link, gen, breaks>>
  BY <1>2, <1>3 DEF Created
<1>7. /\ \A j \in Ids : j # i => app'[x][j] = app[x][j]
      /\ app'[x][i] = a
      /\ app'[Other(x)] = app[Other(x)] /\ sock'[Other(x)] = sock[Other(x)]
  BY <1>1, <1>6, Sides DEF TypeOK
<1>8. app[x][i].mate = 0 /\ app[x][i].sent = 0
  <2>1. i >= next_id[x]
    BY <1>2, <1>6, MateFacts
  <2>2. Fresh(x, i)
    BY <1>6, <2>1, MateFacts
  <2> QED BY <2>2 DEF Fresh
<1>9. ASSUME NEW n \in 1..Len(o) PROVE o[n].cmd # "WRTE"
  <2>1. n \in 1..Len(out) /\ o[n] = out[n]
    BY <1>2, SentOf
  <2>2. out[n] = Open(i)
    BY <1>2, <2>1
  <2> QED BY <2>1, <2>2 DEF Open
<1>10. o = <<>> \/ link = "up"
  BY <1>2, SentUp
<1>11. \A j \in Ids : app'[x][j].sent = app[x][j].sent /\ app'[x][j].mate = app[x][j].mate
  BY <1>4, <1>7, <1>8
<1>12. Says(x, o)
  BY <1>1, <1>2, <1>6, <1>7, <1>9, <1>10, <1>11, QuietSays
<1> QED BY <1>2, <1>5, <1>12

\* ... or an OPEN that is served, ...
LEMMA AcceptedFlows ==
  ASSUME StreamInv, StreamInv', MateInv, NEW x \in Side, NEW p, Accepted(x, p)
  PROVE  \E o \in Seq(Packet) : NetMoves(x, 1, o) /\ Hears(x, 1) /\ Says(x, o) /\ (o = <<>> \/ link = "up")
<1> DEFINE y == Other(x)
<1>1. TypeOK /\ TypeOK' /\ Mates /\ Announced
  BY DEF StreamInv, TypeInv, MateInv
<1>2. PICK i, j, s, a, out, o : /\ i = next_id[x] /\ j = p.arg0 /\ out = <<Okay(i, j)>>
                                /\ s = [list |-> "open", peer |-> j, fde |-> {"READ"}, pkts |-> <<>>]
                                /\ a = NewApp(p.gen, j) /\ o = Sent(out)
  OBVIOUS
<1>3. /\ net[x] # <<>> /\ p = Head(net[x]) /\ p.cmd = "OPEN" /\ j \in Ids
      /\ Created(x, s, a) /\ net' = Send(Rest(x), x, out)
  BY <1>2 DEF Accepted, Receive
<1>4. s.pkts = <<>> /\ a.got = <<>> /\ a.mate = j /\ a.sent = 0
  BY <1>2 DEF NewApp
<1>5. /\ i \in Ids
      /\ sock' = [sock EXCEPT ![x][i] = s] /\ app' = [app EXCEPT ![x][i] = a]
      /\ UNCHANGED <<online, link, gen, breaks>>
  BY <1>2, <1>3 DEF Created
<1>6. out \in Seq(Packet) /\ o \in Seq(Packet)
  <2>1. out \in Seq(Packet)
    BY <1>2, <1>3, <1>5, PacketsMade
  <2> QED BY <1>2, <2>1 DEF Sent
<1>7. NetMoves(x, 1, o) /\ 1 \in Pos(x) /\ p = net[x][1]
  BY <1>1, <1>2, <1>3, <1>6, HeadTaken
<1>8. Hears(x, 1)
  BY <1>3, <1>4, <1>7, CreatedHears
<1>9. /\ \A l \in Ids : l # i => app'[x][l] = app[x][l]
      /\ app'[x][i] = a
      /\ app'[y] = app[y] /\ sock'[y] = sock[y]
  BY <1>1, <1>5, Sides DEF TypeOK
<1>10. app[x][i].mate = 0 /\ app[x][i].sent = 0
  <2>1. i >= next_id[x]
    BY <1>2, <1>5, MateFacts
  <2>2. Fresh(x, i)
    BY <1>5, <2>1, MateFacts
  <2> QED BY <2>2 DEF Fresh
<1>11. Str(y, j) = <<>>
  <2>1. Unasked(y, j)
    BY <1>1, <1>2, <1>3, <1>7 DEF Announced
  <2>2. y \in Side
    BY Sides
  <2> QED BY <1>1, <1>3, <2>1, <2>2 DEF Unasked, Mates
<1>12. /\ \A n \in 1..Len(o) : o[n].cmd # "WRTE"
       /\ link = "up" => \E n \in 1..Len(o) : IsOkay(o[n], i, j)
       /\ o = <<>> \/ link = "up"
  <2>1. Okay(i, j).cmd = "OKAY" /\ Okay(i, j).arg0 = i /\ Okay(i, j).arg1 = j
    BY DEF Okay
  <2>2. PICK q : q = Okay(i, j) /\ q.cmd = "OKAY" /\ q.arg0 = i /\ q.arg1 = j
    BY <2>1
  <2>3. Len(out) = 1 /\ out[1] = q
    BY <1>2, <2>2
  <2>4. \A n \in 1..Len(o) : o[n].cmd # "WRTE"
    <3> TAKE n \in 1..Len(o)
    <3>1. n \in 1..Len(out) /\ o[n] = out[n]
      BY <1>2, <1>6, SentOf
    <3> QED BY <2>2, <2>3, <3>1
  <2>5. link = "up" => \E n \in 1..Len(o) : IsOkay(o[n], i, j)
    <3> SUFFICES ASSUME link = "up" PROVE 1 \in 1..Len(o) /\ IsOkay(o[1], i, j)
      OBVIOUS
    <3>1. o = out
      BY <1>2 DEF Sent
    <3> QED BY <2>2, <2>3, <3>1 DEF IsOkay
  <2>6. o = <<>> \/ link = "up"
    BY <1>2, SentUp
  <2> QED BY <2>4, <2>5, <2>6
<1>13. PICK d : d = <<>>
  OBVIOUS
<1>14. d = <<>> /\ d \in Seq(Unit) /\ Len(d) = 0
  BY <1>13
<1>15. Spoke(x, i, d, o)
  <2>1. app'[x][i].sent = app[x][i].sent + Len(d) /\ app'[x][i].mate = j
    BY <1>4, <1>9, <1>10, <1>14
  <2> QED BY <1>3, <1>10, <1>11, <1>12, <1>14, <2>1 DEF Spoke
<1>16. ASSUME NEW l \in Ids, l # i PROVE Spoke(x, l, d, o)
  <2>1. app'[x][l] = app[x][l] /\ app[x][l].sent \in Nat
    BY <1>1, <1>9, <1>16, StrTyped
  <2>2. app'[x][l].sent = app[x][l].sent + Len(d)
    BY <1>14, <2>1
  <2> QED BY <1>12, <1>14, <2>1, <2>2 DEF Spoke
<1>17. \A l \in Ids : \E f : Spoke(x, l, f, o)
  BY <1>15, <1>16
<1>18. Says(x, o)
  BY <1>5, <1>7, <1>9, <1>12, <1>17, NetSaid DEF Says
<1> QED BY <1>6, <1>7, <1>8, <1>12, <1>18

\* ... and an OKAY.
LEMMA OkayedFlows ==
  ASSUME StreamInv, StreamInv', MateInv, NEW x \in Side, NEW p, Okayed(x, p)
  PROVE  NetMoves(x, 1, <<>>) /\ Hears(x, 1) /\ Says(x, <<>>)
<1> DEFINE y == Other(x)
<1>1. TypeOK /\ TypeOK' /\ Mates /\ Announced
  BY DEF StreamInv, TypeInv, MateInv
<1>2. PICK i, j, o : i = p.arg1 /\ j = p.arg0 /\ o = <<>>
  OBVIOUS
<1>3. /\ net[x] # <<>> /\ p = Head(net[x]) /\ p \in Packet /\ p.cmd = "OKAY"
      /\ i \in Ids /\ j \in Ids /\ net' = Send(Rest(x), x, o)
      /\ online[x] /\ sock[x][i].list = "open" /\ sock[x][i].peer \in {0, j}
  BY <1>2 DEF Okayed, Receive, Answers, Found
<1>4. /\ \A l \in Ids \ {i} : sock'[x][l] = sock[x][l] /\ app'[x][l] = app[x][l]
      /\ sock'[y] = sock[y] /\ app'[y] = app[y]
      /\ UNCHANGED <<next_id, online, link, gen, breaks, opens>>
  BY <1>2 DEF Okayed, Frame
<1>5. /\ sock'[x][i].list = sock[x][i].list /\ sock'[x][i].peer = j /\ sock'[x][i].pkts = sock[x][i].pkts
      /\ app'[x][i].mate = j /\ app'[x][i].sent = app[x][i].sent /\ app'[x][i].got = app[x][i].got
  BY <1>2 DEF Okayed
<1>6. o \in Seq(Packet) /\ Sent(o) = o /\ (\A n \in 1..Len(o) : FALSE) /\ o = <<>>
  BY <1>2 DEF Sent
<1>7. NetMoves(x, 1, o) /\ 1 \in Pos(x) /\ p = net[x][1]
  BY <1>1, <1>3, <1>6, HeadTaken
<1>8. y \in Side /\ Other(y) = x
  BY Sides
<1>9. /\ app[y][j].mate = i /\ app[x][i].mate \in {0, j} /\ i # 0 /\ j # 0
      /\ sock[y][j].list = "open" => sock[y][j].peer = i
  BY <1>2, <1>3, <1>7, <1>8, MateFacts
<1>10. app[x][i].mate = 0 => Str(x, i) = <<>> /\ Str(y, j) = <<>>
  BY <1>1, <1>3, <1>8, <1>9 DEF Mates
<1>11. \E e : Heard(x, i, 1, e)
  <2>1. PICK e : e = <<>>
    OBVIOUS
  <2>2. Str(x, i)' = Str(x, i) /\ Str(x, i) \in Seq(Unit)
    BY <1>1, <1>3, <1>5, StrTyped DEF Str
  <2>3. Str(x, i)' = Str(x, i) \o e
    BY <2>1, <2>2
  <2>4. app'[x][i].mate = app[x][i].mate \/ Str(x, i) = <<>>
    BY <1>5, <1>9, <1>10
  <2>5. Heard(x, i, 1, e)
    BY <1>3, <1>5, <1>7, <1>9, <2>1, <2>3, <2>4 DEF Heard
  <2> QED BY <2>5
<1>12. ASSUME NEW l \in Ids, l # i PROVE \E e : Heard(x, l, 1, e)
  <2>1. sock'[x][l] = sock[x][l] /\ app'[x][l] = app[x][l] /\ net[x][1].arg1 # l
    BY <1>2, <1>4, <1>7, <1>12
  <2> QED BY <1>1, <2>1, SameHeard
<1>13. \A l \in Ids : \E e : Heard(x, l, 1, e)
  BY <1>11, <1>12
<1>14. Hears(x, 1)
  BY <1>1, <1>4, <1>7, <1>13, NetHeard DEF Hears
<1>15. PICK d : d = <<>>
  OBVIOUS
<1>16. d = <<>> /\ d \in Seq(Unit) /\ Len(d) = 0
  BY <1>15
<1>17. Spoke(x, i, d, o)
  <2>1. app[x][i].sent \in Nat
    BY <1>1, <1>3, StrTyped
  <2>2. app'[x][i].sent = app[x][i].sent + Len(d)
    BY <1>5, <1>16, <2>1
  <2>3. \/ app'[x][i].mate = app[x][i].mate
        \/ /\ app[x][i].mate = 0 /\ app'[x][i].mate \in Ids /\ Str(y, app'[x][i].mate) = <<>>
           /\ ~(sock[y][app'[x][i].mate].list = "open" /\ sock[y][app'[x][i].mate].peer = 0)
    BY <1>3, <1>5, <1>9, <1>10
  <2> QED BY <1>6, <1>16, <2>2, <2>3 DEF Spoke
<1>18. ASSUME NEW l \in Ids, l # i PROVE Spoke(x, l, d, o)
  <2>1. app'[x][l] = app[x][l] /\ app[x][l].sent \in Nat
    BY <1>1, <1>4, <1>18, StrTyped
  <2>2. app'[x][l].sent = app[x][l].sent + Len(d)
    BY <1>16, <2>1
  <2> QED BY <1>6, <1>16, <2>1, <2>2 DEF Spoke
<1>19. \A l \in Ids : \E f : Spoke(x, l, f, o)
  BY <1>17, <1>18
<1>20. Says(x, o)
  BY <1>4, <1>6, <1>7, <1>19, NetSaid DEF Says
<1> QED BY <1>2, <1>7, <1>14, <1>20

-----------------------------------------------------------------------------
(* Failures of the wire *)

\* Behind a failed wire each queue ends with the SYNC its read thread posted,
\* or that SYNC has taken the transport offline.
LinkInv ==
  link = "broken" => \A x \in Side :
    IF Len(net[x]) = 0 THEN ~online[x] ELSE net[x][Len(net[x])].cmd = "SYNC"

\* What a step of side x does to the queues and to its transport.
Linked(x, k, o) ==
  /\ NetMoves(x, k, o) /\ link' = link /\ (o = <<>> \/ link = "up")
  /\ online'[Other(x)] = online[Other(x)]
  /\ k = 0 => online'[x] = online[x]
  /\ k = 1 /\ net[x][1].cmd = "SYNC" => ~online'[x]

\* A step of one side keeps LinkInv.
LEMMA LinkKept ==
  ASSUME TypeOK, TypeOK', LinkInv, NEW x \in Side, NEW k, NEW o, Linked(x, k, o)
  PROVE  LinkInv'
<1> DEFINE y == Other(x)
<1> SUFFICES ASSUME link = "broken", NEW z \in Side
             PROVE  IF Len(net'[z]) = 0 THEN ~online'[z] ELSE net'[z][Len(net'[z])].cmd = "SYNC"
  BY DEF LinkInv, Linked
<1>1. NetMoves(x, k, o) /\ o = <<>>
  BY DEF Linked
<1>2. /\ k \in {0, 1} /\ Len(net[x]) = Len(net'[x]) + k
      /\ \A n \in 1..Len(net'[x]) : n + k \in Pos(x) /\ net'[x][n] = net[x][n + k]
      /\ Len(net'[y]) = Len(net[y]) + Len(o)
      /\ \A n \in Pos(y) : n \in 1..Len(net'[y]) /\ net'[y][n] = net[y][n]
  BY <1>1 DEF NetMoves
<1>3. \A w \in Side : Len(net[w]) \in Nat /\ Len(net'[w]) \in Nat
  <2>1. \A w \in Side : net[w] \in Seq(Packet) /\ net'[w] \in Seq(Packet)
    BY DEF TypeOK
  <2> QED BY <2>1
<1>4. \A w \in Side : IF Len(net[w]) = 0 THEN ~online[w] ELSE net[w][Len(net[w])].cmd = "SYNC"
  BY DEF LinkInv
<1>5. CASE z = x
  <2>1. CASE Len(net'[x]) # 0
    <3>1. Len(net'[x]) \in 1..Len(net'[x]) /\ Len(net[x]) # 0
      BY <1>2, <1>3, <2>1
    <3>2. net'[x][Len(net'[x])] = net[x][Len(net[x])]
      BY <1>2, <3>1
    <3> QED BY <1>4, <1>5, <2>1, <3>1, <3>2
  <2>2. CASE Len(net'[x]) = 0 /\ k = 0
    <3>1. Len(net[x]) = 0 /\ online'[x] = online[x]
      BY <1>2, <1>3, <2>2 DEF Linked
    <3> QED BY <1>4, <1>5, <2>2, <3>1
  <2>3. CASE Len(net'[x]) = 0 /\ k = 1
    <3>1. Len(net[x]) = 1
      BY <1>2, <2>3
    <3>2. net[x][1].cmd = "SYNC"
      BY <1>4, <3>1
    <3> QED BY <1>5, <2>3, <3>2 DEF Linked
  <2> QED BY <1>2, <2>1, <2>2, <2>3
<1>6. CASE z = y
  <2>1. Len(net'[y]) = Len(net[y])
    BY <1>1, <1>2, <1>3, <1>6
  <2>2. online'[y] = online[y]
    BY DEF Linked
  <2>3. CASE Len(net[y]) # 0
    <3>1. Len(net[y]) \in Pos(y)
      BY <1>3, <1>6, <2>3 DEF Pos
    <3> QED BY <1>2, <1>4, <1>6, <2>1, <2>3, <3>1
  <2>4. CASE Len(net[y]) = 0
    BY <1>4, <1>6, <2>1, <2>2, <2>4
  <2> QED BY <2>3, <2>4
<1> QED BY <1>5, <1>6, Sides

\* A step of one side, as the streams see it.
Session(x, k, o) == o \in Seq(Packet) /\ Hears(x, k) /\ Says(x, o) /\ Linked(x, k, o)

\* Every step of one side is a step of the session.
LEMMA TalkSession ==
  ASSUME StreamInv, StreamInv', MateInv, NEW x \in Side, NEW i \in Ids, SocketStep(x, i)
  PROVE  MateInv' /\ gen' = gen /\ \E k, o : Session(x, k, o)
<1>1. TypeOK /\ TypeOK'
  BY DEF StreamInv, TypeInv
<1>2. PICK r, out, d, e : Talks(x, i, r, out, d, e)
  BY DEF SocketStep
<1>3. /\ net' = Send(r, x, out) /\ out \in Seq(Packet) /\ Takes(x, i, r, e)
      /\ UNCHANGED <<online, link, gen>>
  BY <1>2 DEF Talks, Frame
<1>4. r = net \/ (net[x] # <<>> /\ r = Rest(x))
  BY <1>3 DEF Takes, Receive
<1>5. PICK o : o = Sent(out)
  OBVIOUS
<1>6. PICK k \in {0, 1} : NetMoves(x, k, o) /\ Taken(x, k, r)
  BY <1>1, <1>3, <1>4, <1>5, NetMoved
<1>7. o \in Seq(Packet) /\ (o = <<>> \/ link = "up")
  BY <1>3, <1>5 DEF Sent
<1>8. Quiet(x, k, o) /\ OpenMates'
  BY <1>2, <1>5, <1>6, TalkQuiet
<1>9. MateInv'
  BY <1>8, QuietMates
<1>10. Hears(x, k) /\ Says(x, o)
  BY <1>2, <1>5, <1>6, TalkHears, TalkSays
<1>11. ASSUME k = 1 PROVE net[x][1].cmd # "SYNC"
  <2>1. r = Rest(x) /\ net[x] # <<>> /\ Head(net[x]) = net[x][1]
    BY <1>6, <1>11 DEF Taken
  <2>2. r # net
    BY <1>1, <2>1, RestDiffers
  <2> QED BY <1>3, <2>1, <2>2 DEF Takes, Receive
<1>12. Linked(x, k, o)
  BY <1>3, <1>6, <1>7, <1>11 DEF Linked
<1> QED BY <1>3, <1>7, <1>9, <1>10, <1>12 DEF Session

LEMMA OneSideSession ==
  ASSUME StreamInv, StreamInv', MateInv, gen = 0, NEW x \in Side, Flow(x), SideStep(x)
  PROVE  MateInv' /\ gen' = 0 /\ \E k, o : Session(x, k, o)
<1>1. TypeOK /\ TypeOK'
  BY DEF StreamInv, TypeInv
<1>2. Other(x) \in Side /\ Other(x) # x
  BY Sides
<1>3. ASSUME NEW i \in Ids, SocketStep(x, i)
      PROVE  MateInv' /\ gen' = 0 /\ \E k, o : Session(x, k, o)
  BY <1>3, TalkSession
<1>4. ASSUME NEW out, Ignored(x, out)
      PROVE  MateInv' /\ gen' = 0 /\ \E k, o : Session(x, k, o)
  <2>1. PICK o, k : o = Sent(out) /\ k = 1
    OBVIOUS
  <2>2. out \in Seq(Packet) /\ o \in Seq(Packet) /\ (o = <<>> \/ link = "up")
    BY <1>4, <2>1, IgnoredKept DEF Sent
  <2>3. Quiet(x, k, o) /\ OpenMates'
    BY <1>4, <2>1, IgnoredQuiet
  <2>4. MateInv' /\ NetMoves(x, k, o)
    BY <2>3, QuietMates DEF Quiet
  <2>5. Hears(x, k) /\ Says(x, o)
    BY <1>4, <2>1, IgnoredFlows
  <2>6. net[x] # <<>> /\ net' = Send(Rest(x), x, out)
        /\ Head(net[x]).cmd # "SYNC" /\ UNCHANGED <<online, link, gen>>
    BY <1>4 DEF Ignored
  <2>7. net[x][1].cmd # "SYNC"
    BY <1>1, <2>2, <2>6, HeadTaken
  <2>8. Linked(x, k, o)
    BY <2>2, <2>4, <2>6, <2>7 DEF Linked
  <2> QED BY <2>2, <2>4, <2>5, <2>6, <2>8 DEF Session
<1>5. ASSUME NEW out, Reset(x, out)
      PROVE  MateInv' /\ gen' = 0 /\ \E k, o : Session(x, k, o)
  <2>1. PICK o, k : o = Sent(out) /\ k = 1
    OBVIOUS
  <2>2. /\ net[x] # <<>> /\ net' = Send(Rest(x), x, out) /\ out \in Seq(Packet)
        /\ online' = [online EXCEPT ![x] = (Head(net[x]).cmd = "CNXN")] /\ UNCHANGED <<link, gen>>
    BY <1>5 DEF Reset
  <2>3. o \in Seq(Packet) /\ (o = <<>> \/ link = "up")
    BY <2>1, <2>2 DEF Sent
  <2>4. Quiet(x, k, o) /\ OpenMates'
    BY <1>5, <2>1, ResetQuiet
  <2>5. MateInv' /\ NetMoves(x, k, o)
    BY <2>4, QuietMates DEF Quiet
  <2>6. Hears(x, k) /\ Says(x, o)
    BY <1>5, <2>1, ResetFlows
  <2>7. Head(net[x]) = net[x][1]
    BY <1>1, <2>2, HeadTaken
  <2>8. online'[Other(x)] = online[Other(x)] /\ (net[x][1].cmd = "SYNC" => ~online'[x])
    <3>1. online \in [Side -> BOOLEAN]
      BY <1>1 DEF TypeOK
    <3>2. online'[Other(x)] = online[Other(x)] /\ online'[x] = (Head(net[x]).cmd = "CNXN")
      BY <1>2, <2>2, <3>1
    <3>3. net[x][1].cmd = "SYNC" => ~(Head(net[x]).cmd = "CNXN")
      BY <2>7
    <3> QED BY <3>2, <3>3
  <2>9. Linked(x, k, o)
    BY <2>1, <2>3, <2>5, <2>2, <2>8 DEF Linked
  <2> QED BY <2>3, <2>5, <2>6, <2>2, <2>9 DEF Session
<1>6. ASSUME NEW p, Accepted(x, p)
      PROVE  MateInv' /\ gen' = 0 /\ \E k, o : Session(x, k, o)
  <2>1. MateInv'
    BY <1>6, AcceptedJoins, JoinMates
  <2>2. PICK o \in Seq(Packet) : NetMoves(x, 1, o) /\ Hears(x, 1) /\ Says(x, o) /\ (o = <<>> \/ link = "up")
    BY <1>6, AcceptedFlows
  <2>3. PICK k : k = 1
    OBVIOUS
  <2>4. net[x] # <<>> /\ Head(net[x]).cmd = "OPEN" /\ UNCHANGED <<online, link, gen>>
    BY <1>6 DEF Accepted, Created, Receive
  <2>5. Head(net[x]) = net[x][1]
    BY <1>1, <2>4 DEF TypeOK
  <2>6. Linked(x, k, o)
    BY <2>2, <2>3, <2>4, <2>5 DEF Linked
  <2> QED BY <2>1, <2>2, <2>3, <2>4, <2>6 DEF Session
<1>7. ASSUME NEW p, Okayed(x, p)
      PROVE  MateInv' /\ gen' = 0 /\ \E k, o : Session(x, k, o)
  <2>1. PICK o, k : o = <<>> /\ k = 1
    OBVIOUS
  <2>2. MateInv'
    BY <1>7, OkayedJoins, JoinMates
  <2>3. NetMoves(x, k, o) /\ Hears(x, k) /\ Says(x, o)
    BY <1>7, <2>1, OkayedFlows
  <2>4. net[x] # <<>> /\ Head(net[x]).cmd = "OKAY" /\ UNCHANGED <<online, link, gen>>
    BY <1>7 DEF Okayed, Receive, Frame
  <2>5. Head(net[x]) = net[x][1]
    BY <1>1, <2>4 DEF TypeOK
  <2>6. Linked(x, k, o) /\ o \in Seq(Packet)
    BY <2>1, <2>3, <2>4, <2>5 DEF Linked
  <2> QED BY <2>2, <2>3, <2>4, <2>6 DEF Session
<1>8. ASSUME Connected(x)
      PROVE  MateInv' /\ gen' = 0 /\ \E k, o : Session(x, k, o)
  <2>1. PICK out \in Seq(Packet) : /\ out = <<Open(next_id[x])>> /\ NetMoves(x, 0, Sent(out))
                                   /\ Quiet(x, 0, Sent(out)) /\ OpenMates'
    BY <1>8, ConnectedQuiet
  <2>2. PICK o, k : o = Sent(out) /\ k = 0
    OBVIOUS
  <2>3. o \in Seq(Packet) /\ (o = <<>> \/ link = "up")
    BY <2>1, <2>2 DEF Sent
  <2>4. MateInv'
    BY <2>1, QuietMates
  <2>5. Hears(x, k) /\ Says(x, o)
    BY <1>8, <2>1, <2>2, ConnectedFlows
  <2>6. UNCHANGED <<online, link, gen>>
    BY <1>8 DEF Connected, Created
  <2>7. Linked(x, k, o)
    BY <2>1, <2>2, <2>3, <2>6 DEF Linked
  <2> QED BY <2>3, <2>4, <2>5, <2>6, <2>7 DEF Session
<1> QED BY <1>3, <1>4, <1>5, <1>6, <1>7, <1>8 DEF SideStep

\* Of the packets on their way to z only the first ones are left.
Shortened(z) ==
  \A n \in Pos(z)' :
    \/ /\ n \in Pos(z) /\ net'[z][n] = net[z][n]
       /\ \A m \in Pos(z) : m < n => m \in Pos(z)' /\ net'[z][m] = net[z][m]
    \/ net'[z][n].cmd \in {"CNXN", "SYNC"}

\* A loss of the last packets keeps the flow.
LEMMA ShortenedFlow ==
  ASSUME NEW z \in Side, Flow(z), Shortened(z), UNCHANGED <<sock, app>>, Complete(z)'
  PROVE  Flow(z)'
<1>1. \A i \in Ids : Str(z, i)' = Str(z, i)
  BY DEF Str
<1>2. ASSUME NEW n \in Pos(z)', net'[z][n].cmd \in {"WRTE", "OKAY"}
      PROVE  /\ n \in Pos(z) /\ net'[z][n] = net[z][n]
             /\ \A m \in Pos(z) : m < n => m \in Pos(z)' /\ net'[z][m] = net[z][m]
  BY <1>2 DEF Shortened
<1>3. InOrder(z)'
  <2>1. \A n \in Pos(z)', j, i \in Ids : IsWrte(net'[z][n], j, i) =>
          Sound(net'[z][n]) /\ LastOf(net'[z][n]) <= app'[Other(z)][j].sent
    <3> SUFFICES ASSUME NEW n \in Pos(z)', NEW j \in Ids, NEW i \in Ids, IsWrte(net'[z][n], j, i)
                 PROVE  Sound(net'[z][n]) /\ LastOf(net'[z][n]) <= app'[Other(z)][j].sent
      OBVIOUS
    <3>1. n \in Pos(z) /\ net'[z][n] = net[z][n]
      BY <1>2 DEF IsWrte
    <3>2. Sound(net[z][n]) /\ LastOf(net[z][n]) <= app[Other(z)][j].sent
      BY <3>1 DEF Flow, InOrder
    <3> QED BY <3>1, <3>2
  <2>2. \A m, n \in Pos(z)', j, i \in Ids :
          m < n /\ IsWrte(net'[z][m], j, i) /\ IsWrte(net'[z][n], j, i) => LastOf(net'[z][m]) < FirstOf(net'[z][n])
    <3> SUFFICES ASSUME NEW m \in Pos(z)', NEW n \in Pos(z)', NEW j \in Ids, NEW i \in Ids,
                        m < n, IsWrte(net'[z][m], j, i), IsWrte(net'[z][n], j, i)
                 PROVE  LastOf(net'[z][m]) < FirstOf(net'[z][n])
      OBVIOUS
    <3>1. n \in Pos(z) /\ net'[z][n] = net[z][n] /\ m \in Pos(z) /\ net'[z][m] = net[z][m]
      BY <1>2 DEF IsWrte
    <3> QED BY <3>1 DEF Flow, InOrder
  <2> QED BY <2>1, <2>2 DEF InOrder
<1>4. Follows(z)'
  <2> SUFFICES ASSUME NEW n \in Pos(z)', NEW j \in Ids, NEW i \in Ids,
                      IsWrte(net'[z][n], j, i), sock[z][i].list = "open"
               PROVE  \/ FirstOf(net'[z][n]) = Len(Str(z, i)') + 1
                      \/ \E m \in Pos(z)' : /\ m < n /\ IsWrte(net'[z][m], j, i)
                                            /\ FirstOf(net'[z][n]) = LastOf(net'[z][m]) + 1
    BY DEF Follows
  <2>1. /\ n \in Pos(z) /\ net'[z][n] = net[z][n]
        /\ \A m \in Pos(z) : m < n => m \in Pos(z)' /\ net'[z][m] = net[z][m]
    BY <1>2 DEF IsWrte
  <2>2. \/ FirstOf(net[z][n]) = Len(Str(z, i)) + 1
        \/ \E m \in Pos(z) : m < n /\ IsWrte(net[z][m], j, i) /\ FirstOf(net[z][n]) = LastOf(net[z][m]) + 1
    BY <2>1 DEF Flow, Follows
  <2> QED BY <1>1, <2>1, <2>2
<1>5. OkayFirst(z)'
  <2> SUFFICES ASSUME NEW n \in Pos(z)', NEW j \in Ids, NEW i \in Ids,
                      IsWrte(net'[z][n], j, i), sock[z][i].list = "open", sock[z][i].peer = 0
               PROVE  \E m \in Pos(z)' : m < n /\ IsOkay(net'[z][m], j, i)
    BY DEF OkayFirst
  <2>1. /\ n \in Pos(z) /\ net'[z][n] = net[z][n]
        /\ \A m \in Pos(z) : m < n => m \in Pos(z)' /\ net'[z][m] = net[z][m]
    BY <1>2 DEF IsWrte
  <2>2. \E m \in Pos(z) : m < n /\ IsOkay(net[z][m], j, i)
    BY <2>1 DEF Flow, OkayFirst
  <2> QED BY <2>1, <2>2
<1>6. Arrived(z)'
  BY <1>1 DEF Flow, Arrived
<1> QED BY <1>3, <1>4, <1>5, <1>6 DEF Flow

\* The wire fails: what is left in the queues still flows.
LEMMA BreakFlow ==
  ASSUME StreamInv, Break, \A z \in Side : Flow(z)
  PROVE  LinkInv' /\ \A z \in Side : Flow(z)'
<1>1. TypeOK
  BY DEF StreamInv, TypeInv
<1>2. PICK h \in 0..Len(net["host"]), d \in 0..Len(net["device"]) :
        net' = [x \in Side |-> Append(SubSeq(net[x], 1, IF x = "host" THEN h ELSE d), Offline)]
  BY DEF Break
<1>3. UNCHANGED <<sock, app>> /\ link' = "broken"
  BY DEF Break
<1>4. ASSUME NEW z \in Side
      PROVE  Shortened(z) /\ Len(net'[z]) # 0 /\ net'[z][Len(net'[z])].cmd = "SYNC"
  <2>1. PICK c, q : c = (IF z = "host" THEN h ELSE d) /\ q = net[z]
    OBVIOUS
  <2>2. q \in Seq(Packet) /\ c \in 0..Len(q)
    BY <1>1, <2>1 DEF TypeOK, Side
  <2>3. net'[z] = Append(SubSeq(q, 1, c), Offline)
    BY <1>2, <2>1
  <2>4. PICK u : u = SubSeq(q, 1, c)
    OBVIOUS
  <2>5. u \in Seq(Packet) /\ Len(u) = c /\ (\A m \in 1..c : u[m] = q[m] /\ m \in 1..Len(q))
    BY <2>2, <2>4
  <2>6. Len(net'[z]) = c + 1 /\ (\A n \in 1..(c + 1) : net'[z][n] = IF n <= c THEN u[n] ELSE Offline)
    BY <2>3, <2>4, <2>5
  <2>7. Len(net'[z]) # 0 /\ net'[z][Len(net'[z])] = Offline
    BY <2>2, <2>6
  <2>8. Shortened(z)
    <3> SUFFICES ASSUME NEW n \in Pos(z)', ~(n <= c)
                        \/ ~(/\ n \in Pos(z) /\ net'[z][n] = net[z][n]
                             /\ \A m \in Pos(z) : m < n => m \in Pos(z)' /\ net'[z][m] = net[z][m])
                 PROVE  net'[z][n].cmd \in {"CNXN", "SYNC"}
      BY DEF Shortened
    <3>1. n \in 1..(c + 1)
      BY <2>6 DEF Pos
    <3>2. CASE ~(n <= c)
      <4>1. net'[z][n] = Offline
        BY <2>6, <3>1, <3>2
      <4> QED BY <4>1 DEF Offline
    <3>3. CASE n <= c
      <4>1. n \in Pos(z) /\ net'[z][n] = net[z][n]
        BY <2>1, <2>2, <2>5, <2>6, <3>1, <3>3 DEF Pos
      <4>2. ASSUME NEW m \in Pos(z), m < n PROVE m \in Pos(z)' /\ net'[z][m] = net[z][m]
        <5>1. m \in 1..Len(q) /\ m <= c /\ m \in 1..(c + 1)
          BY <2>1, <2>2, <3>1, <3>3, <4>2 DEF Pos
        <5>2. m \in 1..c
          BY <2>2, <5>1
        <5> QED BY <2>1, <2>2, <2>5, <2>6, <5>1, <5>2 DEF Pos
      <4> QED BY <3>3, <4>1, <4>2
    <3> QED BY <3>2, <3>3
  <2> QED BY <2>7, <2>8 DEF Offline
<1>5. LinkInv'
  BY <1>4 DEF LinkInv
<1>6. \A z \in Side : Complete(z)'
  BY <1>3 DEF Complete
<1> QED BY <1>3, <1>4, <1>5, <1>6, ShortenedFlow

\* The wire is renewed when both sides have seen the failure: nobody has an
\* open socket any more.
LEMMA ReconnectFlow ==
  ASSUME StreamInv, MateInv, LinkInv, Reconnect, \A z \in Side : Flow(z)
  PROVE  LinkInv' /\ \A z \in Side : Flow(z)'
<1>1. TypeOK
  BY DEF StreamInv, TypeInv
<1>2. /\ net' = [net EXCEPT !["device"] = <<Cnxn>>] /\ (\A x \in Side : net[x] = <<>>)
      /\ UNCHANGED <<sock, app>> /\ link = "broken" /\ link' = "up"
  BY DEF Reconnect
<1>3. ASSUME NEW z \in Side PROVE Shortened(z)
  <2> SUFFICES ASSUME NEW n \in Pos(z)' PROVE net'[z][n].cmd \in {"CNXN", "SYNC"}
    BY DEF Shortened
  <2>1. net'[z] = <<>> \/ net'[z] = <<Cnxn>>
    <3>1. net \in [Side -> Seq(Packet)]
      BY <1>1 DEF TypeOK
    <3> QED BY <1>2, <3>1
  <2>2. net'[z] = <<Cnxn>> /\ n = 1
    <3>1. PICK q : q = net'[z] /\ n \in 1..Len(q)
      BY DEF Pos
    <3>2. Len(<<>>) = 0 /\ Len(<<Cnxn>>) = 1
      OBVIOUS
    <3>3. q # <<>>
      BY <3>1, <3>2
    <3>4. q = <<Cnxn>> /\ Len(q) = 1
      BY <2>1, <3>1, <3>2, <3>3
    <3>5. n = 1
      BY <3>1, <3>4
    <3> QED BY <3>1, <3>4, <3>5
  <2>3. net'[z][n] = Cnxn
    BY <2>2
  <2> QED BY <2>3 DEF Cnxn
<1>4. ASSUME NEW z \in Side, NEW i \in Ids PROVE sock[z][i].list # "open"
  <2>1. Len(net[z]) = 0
    BY <1>2
  <2>2. ~online[z]
    BY <1>2, <2>1 DEF LinkInv
  <2> QED BY <2>2, MateFacts
<1>5. \A z \in Side : Complete(z)'
  BY <1>2, <1>4 DEF Complete
<1>6. LinkInv'
  BY <1>2 DEF LinkInv
<1> QED BY <1>2, <1>3, <1>5, <1>6, ShortenedFlow

\* The invariant of a session.
SessionInv == StreamInv /\ (gen = 0 => MateInv /\ LinkInv /\ \A x \in Side : Flow(x))

LEMMA SessionInit == Init => SessionInv
<1> SUFFICES ASSUME Init PROVE SessionInv
  OBVIOUS
<1>1. StreamInv
  BY StreamInvInit
<1>2. /\ next_id = [x \in Side |-> 1]
      /\ sock = [x \in Side |-> [i \in Ids |-> NoSocket]]
      /\ app = [x \in Side |-> [i \in Ids |-> NewApp(0, 0)]]
      /\ net = [x \in Side |-> IF x = "device" THEN <<Cnxn>> ELSE <<>>]
      /\ link = "up"
  BY DEF Init
<1>3. /\ NoSocket.list = "none" /\ NoSocket.pkts = <<>> /\ NewApp(0, 0).mate = 0 /\ NewApp(0, 0).sent = 0
      /\ NewApp(0, 0).got = <<>> /\ NewApp(0, 0).gen = 0
  BY DEF NoSocket, NewApp
<1>4. \A x \in Side, i \in Ids :
        /\ sock[x][i].list = "none" /\ sock[x][i].pkts = <<>>
        /\ app[x][i].mate = 0 /\ app[x][i].sent = 0 /\ app[x][i].got = <<>> /\ app[x][i].gen = 0
  BY <1>2, <1>3
<1>5. \A x \in Side, i \in Ids : Str(x, i) = <<>>
  BY <1>4 DEF Str
<1>6. \A x \in Side : \A n \in Pos(x) : net[x][n].cmd = "CNXN"
  <2> SUFFICES ASSUME NEW x \in Side, NEW n \in Pos(x) PROVE net[x][n].cmd = "CNXN"
    OBVIOUS
  <2>1. net[x] = <<>> \/ net[x] = <<Cnxn>>
    BY <1>2
  <2>2. net[x] = <<Cnxn>> /\ n = 1
    <3>1. PICK q : q = net[x] /\ n \in 1..Len(q)
      BY DEF Pos
    <3>2. Len(<<>>) = 0 /\ Len(<<Cnxn>>) = 1
      OBVIOUS
    <3>3. q # <<>>
      BY <3>1, <3>2
    <3>4. q = <<Cnxn>> /\ Len(q) = 1
      BY <2>1, <3>1, <3>2, <3>3
    <3>5. n = 1
      BY <3>1, <3>4
    <3> QED BY <3>1, <3>4, <3>5
  <2>3. net[x][n] = Cnxn
    BY <2>2
  <2> QED BY <2>3 DEF Cnxn
<1>7. IdsUsed
  <2>1. \A x \in Side : next_id[x] = 1 /\ Other(x) \in Side
    BY <1>2, Sides
  <2> QED BY <1>4, <1>5, <1>6, <2>1 DEF IdsUsed, Fresh
<1>8. Mates
  BY <1>4, <1>5 DEF Mates
<1>9. OpenMates
  BY <1>4 DEF OpenMates
<1>10. Announced
  BY <1>6 DEF Announced
<1>11. LinkInv
  BY <1>2 DEF LinkInv
<1>12. ASSUME NEW x \in Side PROVE Flow(x)
  <2>1. InOrder(x) /\ Follows(x) /\ OkayFirst(x)
    BY <1>6 DEF InOrder, Follows, OkayFirst, IsWrte
  <2>2. Complete(x)
    BY <1>4 DEF Complete
  <2>3. Arrived(x)
    BY <1>5 DEF Arrived
  <2> QED BY <2>1, <2>2, <2>3 DEF Flow
<1> QED BY <1>1, <1>7, <1>8, <1>9, <1>10, <1>11, <1>12 DEF SessionInv, MateInv

LEMMA SessionNext == SessionInv /\ [Next]_vars => SessionInv'
<1> SUFFICES ASSUME SessionInv, [Next]_vars, gen' = 0
             PROVE  (MateInv /\ LinkInv /\ \A x \in Side : Flow(x))'
  BY StreamInvNext DEF SessionInv
<1>1. StreamInv /\ StreamInv' /\ TypeOK /\ TypeOK'
  BY StreamInvNext DEF SessionInv, StreamInv, TypeInv
<1>2. CASE UNCHANGED vars
  <2>1. gen = 0 /\ MateInv /\ LinkInv /\ (\A x \in Side : Flow(x))
    BY <1>2 DEF vars, SessionInv
  <2>2. MateInv'
    <3>1. Thinned
      BY <1>2 DEF vars, Thinned, Pos
    <3> QED BY <2>1, <3>1, ThinnedMates
  <2>3. LinkInv'
    BY <1>2, <2>1 DEF vars, LinkInv
  <2>4. ASSUME NEW x \in Side PROVE Flow(x)'
    <3>1. Shortened(x)
      BY <1>2 DEF vars, Shortened, Pos
    <3>2. Complete(x)'
      BY <1>2, <2>1 DEF vars, Flow, Complete, Str, Pos
    <3> QED BY <1>2, <2>1, <3>1, <3>2, ShortenedFlow DEF vars
  <2> QED BY <2>2, <2>3, <2>4
<1>3. ASSUME NEW x \in Side, HandlePacket(x) \/ Connect(x) \/ \E i \in Ids : Event(x, i) \/ HangUp(x, i)
      PROVE  (MateInv /\ LinkInv /\ \A z \in Side : Flow(z))'
  <2>1. SideStep(x)
    BY <1>1, <1>3, SideSteps
  <2>2. gen = 0
    BY <1>3 DEF HandlePacket, HandleCnxn, HandleOffline, HandleOpen, HandleOkay, HandleClse, HandleWrte,
                Connect, Event, EventRead, EventWriteSome, EventWriteError, EventWriteAll, HangUp
  <2>3. MateInv /\ LinkInv /\ (\A z \in Side : Flow(z))
    BY <2>2 DEF SessionInv
  <2>4. MateInv' /\ \E k, o : Session(x, k, o)
    BY <1>1, <2>1, <2>2, <2>3, OneSideSession
  <2>5. PICK k, o : Session(x, k, o)
    BY <2>4
  <2>6. LinkInv'
    BY <1>1, <2>3, <2>5, LinkKept DEF Session
  <2>7. Flow(x)'
    BY <1>1, <2>3, <2>5, HearFlow DEF Session
  <2>8. Flow(Other(x))'
    BY <1>1, <2>3, <2>5, SayFlow, Sides DEF Session
  <2>9. ASSUME NEW z \in Side PROVE Flow(z)'
    <3>1. z = x \/ z = Other(x)
      BY Sides
    <3>2. Flow(x)' /\ Flow(Other(x))'
      BY <2>7, <2>8
    <3> QED BY <3>1, <3>2
  <2> QED BY <2>4, <2>6, <2>9
<1>4. CASE Break
  <2>1. gen = 0
    BY <1>4 DEF Break
  <2>2. MateInv /\ LinkInv /\ (\A z \in Side : Flow(z))
    BY <2>1 DEF SessionInv
  <2>3. MateInv'
    BY <1>1, <1>4, <2>2, BreakThins, ThinnedMates
  <2>4. LinkInv' /\ \A z \in Side : Flow(z)'
    BY <1>1, <1>4, <2>2, BreakFlow
  <2> QED BY <2>3, <2>4
<1>5. CASE Reconnect
  <2>1. gen = 0
    BY <1>5 DEF Reconnect
  <2>2. MateInv /\ LinkInv /\ (\A z \in Side : Flow(z))
    BY <2>1 DEF SessionInv
  <2>3. MateInv'
    BY <1>1, <1>5, <2>2, ReconnectThins, ThinnedMates
  <2>4. LinkInv' /\ \A z \in Side : Flow(z)'
    BY <1>1, <1>5, <2>2, ReconnectFlow
  <2> QED BY <2>3, <2>4
<1>6. CASE HostRestart
  BY <1>1, <1>6 DEF HostRestart, TypeOK
<1> QED BY <1>2, <1>3, <1>4, <1>5, <1>6 DEF Next

\* What was written to a fd is the first part of what has arrived.
LEMMA SessionInOrder == SessionInv => (gen = 0 => InOrderDelivery)
<1> SUFFICES ASSUME SessionInv, gen = 0, NEW x \in Side, NEW i \in Ids, NEW n \in 1..Len(app[x][i].got)
             PROVE  /\ app[x][i].got[n].n = n /\ app[x][i].got[n].id = app[x][i].mate
                    /\ app[x][i].got[n].gen = app[x][i].got[1].gen
  BY DEF InOrderDelivery
<1>1. TypeOK /\ Arrived(x)
  BY DEF SessionInv, StreamInv, TypeInv, Flow
<1>2. app[x][i].got \in Seq(Unit) /\ sock[x][i].pkts \in Seq(Unit)
  BY <1>1, StrTyped
<1>3. PICK g, q, s : g = app[x][i].got /\ q = sock[x][i].pkts /\ s = Str(x, i)
  OBVIOUS
<1>4. s = g \o q /\ g \in Seq(Unit) /\ q \in Seq(Unit)
  BY <1>2, <1>3 DEF Str
<1>5. Len(s) = Len(g) + Len(q) /\ Len(g) \in Nat /\ Len(q) \in Nat /\ (\A l \in 1..Len(g) : s[l] = g[l])
  BY <1>4, Joined
<1>6. \A l \in 1..Len(g) : g[l] = [gen |-> 0, id |-> app[x][i].mate, n |-> l]
  <2> SUFFICES ASSUME NEW l \in 1..Len(g) PROVE g[l] = [gen |-> 0, id |-> app[x][i].mate, n |-> l]
    OBVIOUS
  <2>1. l \in 1..Len(s)
    BY <1>5
  <2> QED BY <1>1, <1>3, <1>5, <2>1 DEF Arrived
<1>7. n \in 1..Len(g) /\ 1 \in 1..Len(g)
  BY <1>3, <1>5
<1>8. /\ g[n] = [gen |-> 0, id |-> app[x][i].mate, n |-> n]
      /\ g[1] = [gen |-> 0, id |-> app[x][i].mate, n |-> 1]
  BY <1>6, <1>7
<1>9. g[n].n = n /\ g[n].id = app[x][i].mate /\ g[n].gen = 0 /\ g[1].gen = 0
  BY <1>8
<1> QED BY <1>3, <1>9

\* Nothing that is written to a client or a service in the session of one
\* server process is mixed in from another stream, repeated, skipped or
\* reordered.
THEOREM InOrderInSession == Spec => [](gen = 0 => InOrderDelivery)
BY SessionInit, SessionNext, SessionInOrder, PTL DEF Spec

-----------------------------------------------------------------------------
(* The end of a stream *)

IsClse(p, j, i) == p.cmd = "CLSE" /\ p.arg0 = j /\ p.arg1 = i

\* Before the first failure of the wire there is one CNXN in each direction,
\* and each finds the transport offline: it closes nothing.
OneSession ==
  /\ link = "up"
  /\ \A x \in Side : \A n \in Pos(x) :
       /\ net[x][n].cmd # "SYNC"
       /\ net[x][n].cmd = "CNXN" => ~online[x] /\ ~online["host"]
  /\ \A x, z \in Side : \A n \in Pos(x), m \in Pos(z) :
       net[x][n].cmd = "CNXN" /\ net[z][m].cmd = "CNXN" => x = z /\ n = m

\* A CLSE is the last packet of its stream, ...
ClseLast(x) ==
  \A n \in Pos(x), j, i \in Ids : IsClse(net[x][n], j, i) =>
    /\ sock[Other(x)][j].list # "open"
    /\ \A m \in Pos(x) : IsWrte(net[x][m], j, i) => m < n

\* ... and a socket adb has closed although its program had not hung up has
\* got all that its mate, which is closed too, has sent.
ClosedGotAll(x) ==
  \A i \in Ids :
    i < next_id[x] /\ sock[x][i].list # "open" /\ app[x][i].end = "open" /\ app[x][i].mate # 0 =>
      /\ Len(Str(x, i)) = app[Other(x)][app[x][i].mate].sent
      /\ sock[Other(x)][app[x][i].mate].list # "open"

Closing == \A x \in Side : ClseLast(x) /\ ClosedGotAll(x)

\* What a step of side x does to the handshake, ...
Greets(x, k, o) ==
  /\ NetMoves(x, k, o) /\ link' = link
  /\ online'[Other(x)] = online[Other(x)]
  /\ \A n \in 1..Len(o) : o[n].cmd # "SYNC"
  /\ \/ online'[x] = online[x] /\ \A n \in 1..Len(o) : o[n].cmd # "CNXN"
     \/ /\ k = 1 /\ net[x][1].cmd = "CNXN"
        /\ \A n \in 1..Len(o) : o[n].cmd = "CNXN" => x = "device"
        /\ \A m, n \in 1..Len(o) : o[m].cmd = "CNXN" /\ o[n].cmd = "CNXN" => m = n

\* ... and to its own closed and closing sockets.
ClosedStays(x, j) ==
  /\ sock'[x][j].list # "open" /\ app'[x][j].sent = app[x][j].sent
  /\ app'[x][j].end = "open" =>
       app[x][j].end = "open" /\ app'[x][j].mate = app[x][j].mate /\ Str(x, j)' = Str(x, j)
ToldToClose(x, i, k) ==
  /\ k = 1 /\ 1 \in Pos(x) /\ net[x][1].cmd = "CLSE" /\ net[x][1].arg1 = i
  /\ Found(x, i, net[x][1].arg0)
  /\ app'[x][i].mate = app[x][i].mate /\ Str(x, i)' = Str(x, i)
Closes(x, k, o) ==
  /\ sock'[Other(x)] = sock[Other(x)] /\ app'[Other(x)] = app[Other(x)] /\ next_id'[Other(x)] = next_id[Other(x)]
  /\ \A j \in Ids : j < next_id[x] /\ sock[x][j].list # "open" => ClosedStays(x, j)
  /\ \A n \in 1..Len(o), j, i \in Ids : IsClse(o[n], j, i) => sock'[x][j].list # "open" /\ n = Len(o)
  /\ \A n \in 1..Len(o), j, i \in Ids : IsWrte(o[n], j, i) => sock[x][j].list = "open"
  /\ \A i \in Ids : sock[x][i].list = "open" /\ sock'[x][i].list # "open" /\ app'[x][i].end = "open" =>
       ToldToClose(x, i, k)
  /\ \A i \in Ids : i < next_id'[x] /\ sock'[x][i].list # "open" => i < next_id[x]

\* A step of one side keeps OneSession.
LEMMA GreetingKept ==
  ASSUME TypeOK, TypeOK', OneSession, NEW x \in Side, NEW k, NEW o, Greets(x, k, o)
  PROVE  OneSession'
<1> DEFINE y == Other(x)
<1>1. NetMoves(x, k, o) /\ link' = link /\ online'[y] = online[y] /\ (\A n \in 1..Len(o) : o[n].cmd # "SYNC")
  BY DEF Greets
<1>2. /\ \A n \in Pos(x)' : n + k \in Pos(x) /\ net'[x][n] = net[x][n + k] /\ (k = 1 => n + k # 1)
      /\ \A n \in Pos(y)' :
           \/ n \in Pos(y) /\ net'[y][n] = net[y][n]
           \/ /\ n - Len(net[y]) \in 1..Len(o) /\ n \notin Pos(y)
              /\ net'[y][n] = o[n - Len(net[y])]
      /\ \A z \in Side : z = x \/ z = y
      /\ \A z \in Side : \A n \in Pos(z)' : n \in Nat \ {0}
      /\ k \in {0, 1} /\ Len(net[y]) \in Nat
  BY <1>1, PacketsFrom
<1>3. /\ \A z \in Side : \A n \in Pos(z) :
           /\ net[z][n].cmd # "SYNC"
           /\ net[z][n].cmd = "CNXN" => ~online[z] /\ ~online["host"]
      /\ \A z, w \in Side : \A n \in Pos(z), m \in Pos(w) :
           net[z][n].cmd = "CNXN" /\ net[w][m].cmd = "CNXN" => z = w /\ n = m
      /\ link = "up"
  BY DEF OneSession
<1>4. y \in Side /\ y # x /\ "host" \in Side /\ (x = "device" => y = "host") /\ "device" # "host"
  BY DEF Side, Other
<1>5. \A z \in Side : \A n \in Pos(z)' : net'[z][n].cmd # "SYNC"
  BY <1>1, <1>2, <1>3
<1>6. CASE online'[x] = online[x] /\ \A n \in 1..Len(o) : o[n].cmd # "CNXN"
  <2>1. \A z \in Side : online'[z] = online[z]
    BY <1>1, <1>2, <1>6
  <2>2. ASSUME NEW z \in Side, NEW n \in Pos(z)', net'[z][n].cmd = "CNXN"
        PROVE  /\ z = x => n + k \in Pos(x) /\ net[x][n + k].cmd = "CNXN"
               /\ z = y => n \in Pos(y) /\ net[y][n].cmd = "CNXN"
    BY <1>2, <1>6, <2>2
  <2>3. ASSUME NEW z \in Side, NEW n \in Pos(z)', net'[z][n].cmd = "CNXN"
        PROVE  ~online'[z] /\ ~online'["host"]
    BY <1>2, <1>3, <1>4, <2>1, <2>2, <2>3
  <2>4. ASSUME NEW z \in Side, NEW w \in Side, NEW n \in Pos(z)', NEW m \in Pos(w)',
               net'[z][n].cmd = "CNXN", net'[w][m].cmd = "CNXN"
        PROVE  z = w /\ n = m
    <3>1. z = w
      BY <1>2, <1>3, <1>4, <2>2, <2>4
    <3>2. CASE z = x
      <4>1. n + k = m + k /\ n \in Nat /\ m \in Nat /\ k \in Nat
        BY <1>2, <1>3, <2>2, <2>4, <3>1, <3>2
      <4> QED BY <3>1, <4>1
    <3>3. CASE z = y
      BY <1>3, <2>2, <2>4, <3>1, <3>3
    <3> QED BY <1>2, <3>2, <3>3
  <2> QED BY <1>1, <1>3, <1>5, <2>3, <2>4 DEF OneSession
<1>7. CASE /\ k = 1 /\ net[x][1].cmd = "CNXN"
           /\ \A n \in 1..Len(o) : o[n].cmd = "CNXN" => x = "device"
           /\ \A m, n \in 1..Len(o) : o[m].cmd = "CNXN" /\ o[n].cmd = "CNXN" => m = n
  <2>1. 1 \in Pos(x)
    <3>1. Len(net[x]) = Len(net'[x]) + 1 /\ Len(net'[x]) \in Nat
      <4>1. net'[x] \in Seq(Packet)
        BY DEF TypeOK
      <4> QED BY <1>1, <1>7, <4>1 DEF NetMoves
    <3> QED BY <3>1 DEF Pos
  <2>2. \A n \in Pos(x)' : net'[x][n].cmd # "CNXN"
    BY <1>2, <1>3, <1>7, <2>1
  <2>3. ~online[x] /\ ~online["host"] /\ (\A n \in Pos(y) : net[y][n].cmd # "CNXN")
    BY <1>3, <1>4, <1>7, <2>1
  <2>4. ASSUME NEW z \in Side, NEW n \in Pos(z)', net'[z][n].cmd = "CNXN"
        PROVE  z = y /\ y = "host" /\ n - Len(net[y]) \in 1..Len(o) /\ o[n - Len(net[y])].cmd = "CNXN"
               /\ n \in Nat
    BY <1>2, <1>4, <1>7, <2>2, <2>3, <2>4
  <2>5. ASSUME NEW z \in Side, NEW n \in Pos(z)', net'[z][n].cmd = "CNXN"
        PROVE  ~online'[z] /\ ~online'["host"]
    BY <1>1, <2>3, <2>4, <2>5
  <2>6. ASSUME NEW z \in Side, NEW w \in Side, NEW n \in Pos(z)', NEW m \in Pos(w)',
               net'[z][n].cmd = "CNXN", net'[w][m].cmd = "CNXN"
        PROVE  z = w /\ n = m
    <3>1. z = w /\ n - Len(net[y]) = m - Len(net[y]) /\ n \in Nat /\ m \in Nat
      BY <1>7, <2>4, <2>6
    <3> QED BY <1>2, <3>1
  <2> QED BY <1>1, <1>3, <1>5, <2>5, <2>6 DEF OneSession
<1> QED BY <1>6, <1>7 DEF Greets

\* A step of one side keeps Closing.
LEMMA ClosingKept ==
  ASSUME StreamInv, StreamInv', MateInv, Closing, NEW x \in Side, link = "up", Flow(x),
         NEW k, NEW o, NetMoves(x, k, o), Closes(x, k, o)
  PROVE  Closing'
<1> DEFINE y == Other(x)
<1>1. TypeOK /\ TypeOK' /\ Mates /\ Announced /\ IdsUsed
  BY DEF StreamInv, TypeInv, MateInv
<1>2. /\ \A n \in Pos(x)' : n + k \in Pos(x) /\ net'[x][n] = net[x][n + k] /\ (k = 1 => n + k # 1)
      /\ \A n \in Pos(y)' :
           \/ n \in Pos(y) /\ net'[y][n] = net[y][n]
           \/ /\ n - Len(net[y]) \in 1..Len(o) /\ n \notin Pos(y)
              /\ net'[y][n] = o[n - Len(net[y])]
      /\ \A z \in Side : z = x \/ z = y
      /\ \A z \in Side : \A n \in Pos(z)' : n \in Nat \ {0} /\ net'[z][n] \in Packet
      /\ \A z \in Side : \A n \in Pos(z) : n \in Nat \ {0} /\ net[z][n] \in Packet
      /\ k \in {0, 1} /\ Len(net[y]) \in Nat
  BY <1>1, PacketsFrom
<1>3. /\ sock'[y] = sock[y] /\ app'[y] = app[y] /\ next_id'[y] = next_id[y]
      /\ \A j \in Ids : j < next_id[x] /\ sock[x][j].list # "open" => ClosedStays(x, j)
      /\ \A n \in 1..Len(o), j, i \in Ids : IsClse(o[n], j, i) => sock'[x][j].list # "open" /\ n = Len(o)
      /\ \A n \in 1..Len(o), j, i \in Ids : IsWrte(o[n], j, i) => sock[x][j].list = "open"
      /\ \A i \in Ids : sock[x][i].list = "open" /\ sock'[x][i].list # "open" /\ app'[x][i].end = "open" =>
           ToldToClose(x, i, k)
      /\ \A i \in Ids : i < next_id'[x] /\ sock'[x][i].list # "open" => i < next_id[x]
  BY DEF Closes
<1>4. y \in Side /\ Other(y) = x /\ y # x
  BY Sides
<1>5. /\ \A z \in Side, j \in Ids : app[Other(z)][j].mate < next_id[z]
      /\ \A z \in Side, j \in Ids :
           sock[z][j].list = "open" => sock[z][j].peer = app[z][j].mate /\ online[z]
      /\ Ids \subseteq Nat \ {0}
  BY MateFacts
<1>6. \A z \in Side : ClseLast(z) /\ ClosedGotAll(z)
  BY DEF Closing
<1>7. ClseLast(x)'
  <2> SUFFICES ASSUME NEW n \in Pos(x)', NEW j \in Ids, NEW i \in Ids, IsClse(net'[x][n], j, i)
               PROVE  /\ sock'[y][j].list # "open"
                      /\ \A m \in Pos(x)' : IsWrte(net'[x][m], j, i) => m < n
    BY DEF ClseLast
  <2>1. /\ sock[y][j].list # "open"
        /\ \A m \in Pos(x) : IsWrte(net[x][m], j, i) => m < n + k
    BY <1>2, <1>6 DEF ClseLast
  <2>2. ASSUME NEW m \in Pos(x)', IsWrte(net'[x][m], j, i) PROVE m < n
    <3>1. m + k < n + k
      BY <1>2, <2>1, <2>2
    <3>2. m \in Nat /\ n \in Nat /\ k \in Nat
      BY <1>2
    <3> QED BY <3>1, <3>2
  <2> QED BY <1>3, <2>1, <2>2
<1>8. ClseLast(y)'
  <2> SUFFICES ASSUME NEW n \in Pos(y)', NEW j \in Ids, NEW i \in Ids, IsClse(net'[y][n], j, i)
               PROVE  /\ sock'[x][j].list # "open"
                      /\ \A m \in Pos(y)' : IsWrte(net'[y][m], j, i) => m < n
    BY <1>4 DEF ClseLast
  <2>1. CASE n \in Pos(y) /\ net'[y][n] = net[y][n]
    <3>1. sock[x][j].list # "open" /\ (\A m \in Pos(y) : IsWrte(net[y][m], j, i) => m < n)
      BY <1>4, <1>6, <2>1 DEF ClseLast
    <3>2. j < next_id[x]
      BY <1>1, <1>4, <2>1 DEF IdsUsed, IsClse
    <3>3. sock'[x][j].list # "open"
      BY <1>3, <3>1, <3>2 DEF ClosedStays
    <3>4. ASSUME NEW m \in Pos(y)', IsWrte(net'[y][m], j, i) PROVE m < n
      BY <1>2, <1>3, <3>1, <3>4
    <3> QED BY <3>3, <3>4
  <2>2. CASE n - Len(net[y]) \in 1..Len(o) /\ net'[y][n] = o[n - Len(net[y])]
    <3>1. sock'[x][j].list # "open" /\ n - Len(net[y]) = Len(o)
      BY <1>3, <2>2
    <3>2. ASSUME NEW m \in Pos(y)', IsWrte(net'[y][m], j, i) PROVE m < n
      <4>1. m # n
        BY <3>2 DEF IsWrte, IsClse
      <4>2. m \in Nat /\ n \in Nat /\ m <= Len(net[y]) + Len(o)
        <5>1. Len(net'[y]) = Len(net[y]) + Len(o)
          BY DEF NetMoves
        <5> QED BY <1>2, <1>4, <5>1 DEF Pos
      <4> QED BY <1>2, <2>2, <3>1, <4>1, <4>2
    <3> QED BY <3>1, <3>2
  <2> QED BY <1>2, <2>1, <2>2
<1>9. ClosedGotAll(x)'
  <2> SUFFICES ASSUME NEW i \in Ids, i < next_id'[x], sock'[x][i].list # "open", app'[x][i].end = "open",
                      app'[x][i].mate # 0
               PROVE  /\ Len(Str(x, i)') = app[y][app'[x][i].mate].sent
                      /\ sock[y][app'[x][i].mate].list # "open"
    BY <1>3 DEF ClosedGotAll
  <2>1. i < next_id[x]
    BY <1>3
  <2>2. CASE sock[x][i].list # "open"
    <3>1. app[x][i].end = "open" /\ app'[x][i].mate = app[x][i].mate /\ Str(x, i)' = Str(x, i)
      BY <1>3, <2>1, <2>2 DEF ClosedStays
    <3> QED BY <1>6, <2>1, <2>2, <3>1 DEF ClosedGotAll
  <2>3. CASE sock[x][i].list = "open"
    <3>1. ToldToClose(x, i, k)
      BY <1>3, <2>3
    <3>2. PICK p : p = net[x][1] /\ 1 \in Pos(x) /\ p \in Packet
      BY <1>2, <3>1 DEF ToldToClose
    <3>3. PICK j : j = p.arg0
      OBVIOUS
    <3>4. /\ p.cmd = "CLSE" /\ p.arg1 = i /\ Found(x, i, j)
          /\ app'[x][i].mate = app[x][i].mate /\ Str(x, i)' = Str(x, i)
      BY <3>1, <3>2, <3>3 DEF ToldToClose
    <3>5. j # 0
      <4>1. ASSUME j = 0 PROVE FALSE
        <5>1. Unasked(x, i)
          BY <1>1, <3>2, <3>3, <3>4, <4>1 DEF Announced
        <5> QED BY <3>4, <5>1 DEF Unasked
      <4> QED BY <4>1
    <3>6. j \in Ids
      BY <3>2, <3>3, <3>4, <3>5, PacketFields
    <3>7. app[x][i].mate = j
      BY <1>5, <2>3, <3>4, <3>5 DEF Found
    <3>8. sock[y][j].list # "open" /\ (\A m \in Pos(x) : ~IsWrte(net[x][m], j, i))
      <4>1. IsClse(net[x][1], j, i)
        BY <3>2, <3>3, <3>4 DEF IsClse
      <4>2. sock[y][j].list # "open" /\ (\A m \in Pos(x) : IsWrte(net[x][m], j, i) => m < 1)
        BY <1>6, <3>2, <3>6, <4>1 DEF ClseLast
      <4> QED BY <1>2, <4>2
    <3>9. Len(Str(x, i)) = app[y][j].sent
      <4>1. CASE app[y][j].mate = i
        BY <2>3, <3>6, <3>8, <4>1 DEF Flow, Complete
      <4>2. CASE app[y][j].mate # i
        <5>1. app[y][j].mate = 0 /\ Str(x, i) = <<>>
          BY <1>1, <3>5, <3>7, <4>2 DEF Mates
        <5>2. app[y][j].sent = 0
          BY <1>1, <1>4, <3>6, <5>1 DEF Mates
        <5> QED BY <5>1, <5>2
      <4> QED BY <4>1, <4>2
    <3> QED BY <3>4, <3>7, <3>8, <3>9
  <2> QED BY <2>2, <2>3
<1>10. ClosedGotAll(y)'
  <2> SUFFICES ASSUME NEW i \in Ids, i < next_id[y], sock[y][i].list # "open", app[y][i].end = "open",
                      app[y][i].mate # 0
               PROVE  /\ Len(Str(y, i)') = app'[x][app[y][i].mate].sent
                      /\ sock'[x][app[y][i].mate].list # "open"
    BY <1>3, <1>4 DEF ClosedGotAll
  <2>1. PICK j : j = app[y][i].mate
    OBVIOUS
  <2>2. j \in Ids /\ j < next_id[x]
    <3>1. app \in [Side -> [Ids -> App]]
      BY <1>1 DEF TypeOK
    <3>2. app[y][i].mate \in Ids \cup {0}
      BY <1>4, <3>1 DEF App
    <3> QED BY <1>4, <1>5, <2>1, <3>2
  <2>3. Len(Str(y, i)) = app[x][j].sent /\ sock[x][j].list # "open"
    BY <1>4, <1>6, <2>1 DEF ClosedGotAll
  <2>4. sock'[x][j].list # "open" /\ app'[x][j].sent = app[x][j].sent
    BY <1>3, <2>2, <2>3 DEF ClosedStays
  <2>5. Str(y, i)' = Str(y, i)
    BY <1>3 DEF Str
  <2> QED BY <2>1, <2>3, <2>4, <2>5
<1> QED BY <1>2, <1>7, <1>8, <1>9, <1>10 DEF Closing

\* A step of one socket closes it only if its program has hung up or a CLSE
\* says so.
LEMMA TalkCloses ==
  ASSUME StreamInv, StreamInv', MateInv, link = "up", NEW x \in Side, NEW i \in Ids, SocketStep(x, i)
  PROVE  \E k, o : Greets(x, k, o) /\ Closes(x, k, o)
<1> DEFINE y == Other(x)
<1>1. TypeOK /\ TypeOK'
  BY DEF StreamInv, TypeInv
<1>2. PICK r, out, d, e : Talks(x, i, r, out, d, e)
  BY DEF SocketStep
<1>3. /\ net' = Send(r, x, out) /\ out \in Seq(Packet) /\ Takes(x, i, r, e)
      /\ \A l \in Ids \ {i} : sock'[x][l] = sock[x][l] /\ app'[x][l] = app[x][l]
      /\ sock'[y] = sock[y] /\ app'[y] = app[y]
      /\ UNCHANGED <<next_id, online, link>>
      /\ TalkOut(sock[x][i], sock'[x][i], i, out, d) /\ Sends(x, i, d) /\ Gets(x, i, e) /\ Lives(x, i, r)
  BY <1>2 DEF Talks, Frame
<1>4. r = net \/ (net[x] # <<>> /\ r = Rest(x))
  BY <1>3 DEF Takes, Receive
<1>5. Sent(out) = out
  BY DEF Sent
<1>6. PICK k \in {0, 1} : NetMoves(x, k, out) /\ Taken(x, k, r)
  BY <1>1, <1>3, <1>4, <1>5, NetMoved
<1>7. \A n \in 1..Len(out) :
        /\ out[n].cmd \in {"OKAY", "WRTE", "CLSE"} /\ out[n].arg0 = i
        /\ sock[x][i].list = "open"
        /\ out[n].cmd = "CLSE" => sock'[x][i].list # "open" /\ n = Len(out)
  BY <1>3 DEF TalkOut
<1>8. Greets(x, k, out)
  BY <1>3, <1>6, <1>7 DEF Greets
<1>9. ASSUME sock[x][i].list # "open" PROVE ClosedStays(x, i)
  <2>1. sock'[x][i].list # "open"
    BY <1>3, <1>9 DEF Lives
  <2>2. d = <<>>
    BY <1>3, <1>9 DEF TalkOut
  <2>3. app'[x][i].sent = app[x][i].sent
    <3>1. app'[x][i].sent = app[x][i].sent + Len(d) /\ app[x][i].sent \in Nat
      BY <1>1, <1>3, StrTyped DEF Sends
    <3>2. Len(d) = 0
      BY <2>2
    <3> QED BY <3>1, <3>2
  <2>4. ASSUME app'[x][i].end = "open"
        PROVE  app[x][i].end = "open" /\ app'[x][i].mate = app[x][i].mate /\ Str(x, i)' = Str(x, i)
    <3>1. app[x][i].end = "open" /\ app'[x][i].mate = app[x][i].mate
      BY <1>3, <2>4 DEF Lives
    <3>2. e = <<>>
      BY <1>3, <1>9 DEF Takes, Found
    <3>3. Str(x, i)' = Str(x, i) \o e
      BY <1>3, <3>1 DEF Gets
    <3>4. Str(x, i) \in Seq(Unit)
      BY <1>1, StrTyped
    <3>5. PICK u : u = Str(x, i)
      OBVIOUS
    <3>6. u \o <<>> = u
      BY <3>4, <3>5
    <3> QED BY <3>1, <3>2, <3>3, <3>5, <3>6
  <2> QED BY <2>1, <2>3, <2>4 DEF ClosedStays
<1>10. ASSUME NEW j \in Ids, sock[x][j].list # "open" PROVE ClosedStays(x, j)
  <2>1. CASE j = i
    BY <1>9, <1>10, <2>1
  <2>2. CASE j # i
    <3>1. sock'[x][j] = sock[x][j] /\ app'[x][j] = app[x][j]
      BY <1>3, <2>2
    <3>2. Str(x, j)' = Str(x, j)
      BY <3>1 DEF Str
    <3> QED BY <1>10, <3>1, <3>2 DEF ClosedStays
  <2> QED BY <2>1, <2>2
<1>11. ASSUME NEW j \in Ids, sock[x][j].list = "open", sock'[x][j].list # "open", app'[x][j].end = "open"
       PROVE  ToldToClose(x, j, k)
  <2>1. j = i
    BY <1>3, <1>11
  <2>2. app[x][i].end = "open" /\ app'[x][i].mate = app[x][i].mate /\ r = Rest(x) /\ Receive(x, "CLSE")
    BY <1>3, <1>11, <2>1 DEF Lives
  <2>3. r # net
    BY <1>1, <2>2, RestDiffers DEF Receive
  <2>4. k = 1 /\ 1 \in Pos(x) /\ Head(net[x]) = net[x][1]
    BY <1>6, <2>3 DEF Taken
  <2>5. e = <<>> /\ Head(net[x]).cmd = "CLSE" /\ Head(net[x]).arg1 = i /\ Found(x, i, Head(net[x]).arg0)
    BY <1>3, <2>2, <2>3 DEF Takes, Receive
  <2>6. Str(x, i)' = Str(x, i) \o e /\ Str(x, i) \in Seq(Unit)
    BY <1>1, <1>3, <2>2, StrTyped DEF Gets
  <2>7. PICK u : u = Str(x, i)
    OBVIOUS
  <2>8. u \o <<>> = u
    BY <2>6, <2>7
  <2>9. Str(x, i)' = Str(x, i)
    BY <2>5, <2>6, <2>7, <2>8
  <2> QED BY <2>1, <2>2, <2>4, <2>5, <2>9 DEF ToldToClose
<1>12. /\ \A n \in 1..Len(out), j, l \in Ids : IsClse(out[n], j, l) => sock'[x][j].list # "open" /\ n = Len(out)
       /\ \A n \in 1..Len(out), j, l \in Ids : IsWrte(out[n], j, l) => sock[x][j].list = "open"
  BY <1>7 DEF IsClse, IsWrte
<1>13. Closes(x, k, out)
  BY <1>3, <1>10, <1>11, <1>12 DEF Closes
<1> QED BY <1>8, <1>13

\* A socket that does not change.
LEMMA SameStays ==
  ASSUME NEW x, NEW j, sock'[x][j] = sock[x][j], app'[x][j] = app[x][j], sock[x][j].list # "open"
  PROVE  ClosedStays(x, j)
<1>1. Str(x, j)' = Str(x, j)
  BY DEF Str
<1> QED BY <1>1 DEF ClosedStays

\* A packet for nobody closes nothing, nor does the CNXN of the first session.
LEMMA HandledCloses ==
  ASSUME StreamInv, link = "up", OneSession, NEW x \in Side, NEW out,
         Ignored(x, out) \/ Reset(x, out)
  PROVE  Greets(x, 1, out) /\ Closes(x, 1, out)
<1> DEFINE y == Other(x)
<1>1. TypeOK
  BY DEF StreamInv, TypeInv
<1>2. net[x] # <<>> /\ net' = Send(Rest(x), x, out) /\ UNCHANGED <<next_id, app, link>>
  BY DEF Ignored, Reset
<1>3. out \in Seq(Packet) /\ Sent(out) = out
  BY IgnoredKept DEF Reset, Sent
<1>4. NetMoves(x, 1, out) /\ 1 \in Pos(x) /\ Head(net[x]) = net[x][1]
  BY <1>1, <1>2, <1>3, HeadTaken
<1>5. y \in Side /\ y # x
  BY Sides
<1>6. ASSUME Reset(x, out)
      PROVE  /\ net[x][1].cmd = "CNXN" /\ sock' = sock /\ online'[y] = online[y]
             /\ \A n \in 1..Len(out) : out[n] = Cnxn /\ x = "device"
             /\ \A m, n \in 1..Len(out) : m = n
  <2>1. net[x][1].cmd = "CNXN" /\ ~online[x]
    BY <1>4, <1>6 DEF Reset, OneSession
  <2>2. sock' = sock /\ (\A n \in 1..Len(out) : out[n] = Cnxn /\ x = "device")
    BY <1>4, <1>6, <2>1 DEF Reset
  <2>3. online'[y] = online[y]
    <3>1. online' = [online EXCEPT ![x] = (Head(net[x]).cmd = "CNXN")] /\ online \in [Side -> BOOLEAN]
      BY <1>1, <1>6 DEF Reset, TypeOK
    <3> QED BY <1>5, <3>1
  <2>4. \A m, n \in 1..Len(out) : m = n
    BY <1>6, <2>2 DEF Reset
  <2> QED BY <2>1, <2>2, <2>3, <2>4
<1>7. ASSUME Ignored(x, out)
      PROVE  /\ sock' = sock /\ online' = online
             /\ \A n \in 1..Len(out) : /\ out[n].cmd = "CLSE" /\ n = Len(out)
                                       /\ out[n].arg0 # 0 => sock[x][out[n].arg0].list # "open"
  <2>1. sock' = sock /\ online' = online
    BY <1>7 DEF Ignored
  <2>2. PICK p : p = Head(net[x])
    OBVIOUS
  <2>3. CASE out = <<>>
    BY <2>1, <2>3
  <2>4. CASE out # <<>>
    <3>1. \/ out = <<Clse(0, p.arg0)>>
          \/ out = <<Clse(p.arg1, p.arg0)>> /\ sock[x][p.arg1].list # "open"
      BY <1>7, <2>2, <2>4 DEF Ignored
    <3>2. PICK q : \/ q = Clse(0, p.arg0) /\ out = <<q>>
                   \/ q = Clse(p.arg1, p.arg0) /\ out = <<q>> /\ sock[x][p.arg1].list # "open"
      BY <3>1
    <3>3. q.cmd = "CLSE" /\ (q.arg0 # 0 => sock[x][q.arg0].list # "open")
      BY <3>2 DEF Clse
    <3>4. out = <<q>>
      BY <3>2
    <3>5. Len(out) = 1 /\ out[1] = q
      BY <3>4
    <3> QED BY <2>1, <3>3, <3>5
  <2> QED BY <2>3, <2>4
<1>8. Greets(x, 1, out)
  <2>1. CASE Reset(x, out)
    <3>1. \A n \in 1..Len(out) : out[n].cmd = "CNXN"
      BY <1>6, <2>1 DEF Cnxn
    <3> QED BY <1>2, <1>4, <1>6, <2>1, <3>1 DEF Greets
  <2>2. CASE Ignored(x, out)
    BY <1>2, <1>4, <1>7, <2>2 DEF Greets
  <2> QED BY <2>1, <2>2
<1>9. sock' = sock
  BY <1>6, <1>7
<1>10. \A j \in Ids : sock[x][j].list # "open" => ClosedStays(x, j)
  BY <1>2, <1>9, SameStays
<1>11. \A n \in 1..Len(out), j, i \in Ids : IsClse(out[n], j, i) => sock[x][j].list # "open" /\ n = Len(out)
  <2> SUFFICES ASSUME NEW n \in 1..Len(out), NEW j \in Ids, NEW i \in Ids, IsClse(out[n], j, i)
               PROVE  sock[x][j].list # "open" /\ n = Len(out)
    OBVIOUS
  <2>1. ~Reset(x, out)
    BY <1>6 DEF Cnxn, IsClse
  <2>2. j # 0
    BY StreamsAssumption DEF Ids
  <2> QED BY <1>7, <2>1, <2>2 DEF IsClse
<1>12. \A n \in 1..Len(out), j, i \in Ids : ~IsWrte(out[n], j, i)
  <2>1. \A n \in 1..Len(out) : out[n].cmd \in {"CNXN", "CLSE"}
    BY <1>6, <1>7 DEF Cnxn
  <2> QED BY <2>1 DEF IsWrte
<1>13. Closes(x, 1, out)
  BY <1>2, <1>9, <1>10, <1>11, <1>12 DEF Closes
<1> QED BY <1>8, <1>13

\* Nor does a new socket.
LEMMA CreatedCloses ==
  ASSUME StreamInv, MateInv, link = "up", NEW x \in Side, NEW s, NEW a, Created(x, s, a), s.list = "open",
         NEW k, NEW o, NetMoves(x, k, o), \A n \in 1..Len(o) : o[n].cmd \in {"OPEN", "OKAY"}
  PROVE  Greets(x, k, o) /\ Closes(x, k, o)
<1> DEFINE y == Other(x)
<1>1. TypeOK
  BY DEF StreamInv, TypeInv
<1>2. PICK i : i = next_id[x]
  OBVIOUS
<1>3. /\ i \in Ids /\ next_id' = [next_id EXCEPT ![x] = i + 1]
      /\ sock' = [sock EXCEPT ![x][i] = s] /\ app' = [app EXCEPT ![x][i] = a]
      /\ UNCHANGED <<online, link>>
  BY <1>2 DEF Created
<1>4. y \in Side /\ y # x
  BY Sides
<1>5. /\ \A j \in Ids : j # i => sock'[x][j] = sock[x][j] /\ app'[x][j] = app[x][j]
      /\ sock'[x][i] = s /\ sock'[y] = sock[y] /\ app'[y] = app[y]
      /\ next_id'[y] = next_id[y] /\ next_id'[x] = i + 1
  BY <1>1, <1>3, <1>4 DEF TypeOK
<1>6. i \in Nat /\ Ids \subseteq Nat
  BY <1>3, MateFacts
<1>7. \A j \in Ids : j < next_id[x] /\ sock[x][j].list # "open" => ClosedStays(x, j)
  <2> SUFFICES ASSUME NEW j \in Ids, j < next_id[x], sock[x][j].list # "open" PROVE ClosedStays(x, j)
    OBVIOUS
  <2>1. j # i
    BY <1>2, <1>6
  <2> QED BY <1>5, <2>1, SameStays
<1>8. \A j \in Ids : sock[x][j].list = "open" => sock'[x][j].list = "open"
  BY <1>5
<1>9. \A j \in Ids : j < next_id'[x] /\ sock'[x][j].list # "open" => j < next_id[x]
  <2> SUFFICES ASSUME NEW j \in Ids, j < i + 1, sock'[x][j].list # "open" PROVE j < i
    BY <1>2, <1>5
  <2>1. j # i
    BY <1>5
  <2> QED BY <1>6, <2>1
<1>10. Greets(x, k, o)
  BY <1>3 DEF Greets
<1>11. Closes(x, k, o)
  BY <1>5, <1>7, <1>8, <1>9 DEF Closes, IsClse, IsWrte
<1> QED BY <1>10, <1>11

LEMMA SideCloses ==
  ASSUME StreamInv, StreamInv', MateInv, gen = 0, OneSession, NEW x \in Side, SideStep(x)
  PROVE  \E k, o : Greets(x, k, o) /\ Closes(x, k, o)
<1>1. TypeOK /\ link = "up"
  BY DEF StreamInv, TypeInv, OneSession
<1>2. ASSUME NEW i \in Ids, SocketStep(x, i) PROVE \E k, o : Greets(x, k, o) /\ Closes(x, k, o)
  BY <1>1, <1>2, TalkCloses
<1>3. ASSUME NEW out, Ignored(x, out) \/ Reset(x, out) PROVE \E k, o : Greets(x, k, o) /\ Closes(x, k, o)
  <2>1. Greets(x, 1, out) /\ Closes(x, 1, out)
    BY <1>1, <1>3, HandledCloses
  <2> QED BY <2>1
<1>4. ASSUME NEW p, Accepted(x, p) PROVE \E k, o : Greets(x, k, o) /\ Closes(x, k, o)
  <2>1. PICK s, a, q, out : /\ s = [list |-> "open", peer |-> p.arg0, fde |-> {"READ"}, pkts |-> <<>>]
                            /\ a = NewApp(p.gen, p.arg0) /\ q = Okay(next_id[x], p.arg0) /\ out = <<q>>
    OBVIOUS
  <2>2. /\ net[x] # <<>> /\ Created(x, s, a) /\ net' = Send(Rest(x), x, out)
        /\ next_id[x] \in Ids /\ p.arg0 \in Ids
    BY <1>4, <2>1 DEF Accepted, Receive, Created
  <2>3. q \in Packet /\ q.cmd = "OKAY" /\ s.list = "open"
    BY <2>1, <2>2, PacketsMade DEF Okay
  <2>4. out \in Seq(Packet) /\ Sent(out) = out /\ (\A n \in 1..Len(out) : out[n].cmd \in {"OPEN", "OKAY"})
    BY <1>1, <2>1, <2>3 DEF Sent
  <2>5. NetMoves(x, 1, out)
    BY <1>1, <2>2, <2>4, HeadTaken
  <2>6. Greets(x, 1, out) /\ Closes(x, 1, out)
    BY <1>1, <2>2, <2>3, <2>4, <2>5, CreatedCloses
  <2> QED BY <2>6
<1>5. ASSUME NEW p, Okayed(x, p) PROVE \E k, o : Greets(x, k, o) /\ Closes(x, k, o)
  <2>1. PICK i, o, k : i = p.arg1 /\ o = <<>> /\ k = 1
    OBVIOUS
  <2>2. /\ i \in Ids /\ sock[x][i].list = "open" /\ sock'[x][i].list = "open"
        /\ \A l \in Ids \ {i} : sock'[x][l] = sock[x][l] /\ app'[x][l] = app[x][l]
        /\ sock'[Other(x)] = sock[Other(x)] /\ app'[Other(x)] = app[Other(x)]
        /\ UNCHANGED <<next_id, online, link>>
    BY <1>5, <2>1 DEF Okayed, Frame, Answers, Found
  <2>3. NetMoves(x, k, o) /\ (\A n \in 1..Len(o) : FALSE)
    BY <1>5, <2>1, OkayedFlows
  <2>4. \A j \in Ids : sock[x][j].list # "open" => ClosedStays(x, j)
    BY <2>2, SameStays
  <2>5. Greets(x, k, o)
    BY <2>2, <2>3 DEF Greets
  <2>6. Closes(x, k, o)
    BY <2>2, <2>3, <2>4 DEF Closes
  <2> QED BY <2>5, <2>6
<1>6. ASSUME Connected(x) PROVE \E k, o : Greets(x, k, o) /\ Closes(x, k, o)
  <2>1. PICK out \in Seq(Packet) : out = <<Open(next_id[x])>> /\ NetMoves(x, 0, Sent(out))
    BY <1>6, ConnectedQuiet
  <2>2. PICK s, a, q : /\ s = [NoSocket EXCEPT !.list = "open"] /\ a = NewApp(gen, 0) /\ q = Open(next_id[x])
    OBVIOUS
  <2>3. Created(x, s, a) /\ s.list = "open" /\ q.cmd = "OPEN"
    BY <1>6, <2>2 DEF Connected, NoSocket, Open
  <2>4. \A n \in 1..Len(out) : out[n].cmd \in {"OPEN", "OKAY"}
    BY <2>1, <2>2, <2>3
  <2>5. PICK k : k = 0
    OBVIOUS
  <2>6. NetMoves(x, k, out)
    BY <1>1, <2>1, <2>5 DEF Sent
  <2> QED BY <1>1, <2>3, <2>4, <2>6, CreatedCloses
<1> QED BY <1>2, <1>3, <1>4, <1>5, <1>6 DEF SideStep

\* The invariant of a session on one wire.
WireInv == SessionInv /\ (gen = 0 /\ breaks = 0 => OneSession /\ Closing)

LEMMA WireInit == Init => WireInv
<1> SUFFICES ASSUME Init PROVE SessionInv /\ OneSession /\ Closing
  BY DEF WireInv
<1>1. SessionInv
  BY SessionInit
<1>2. /\ next_id = [x \in Side |-> 1]
      /\ net = [x \in Side |-> IF x = "device" THEN <<Cnxn>> ELSE <<>>]
      /\ link = "up" /\ online = [x \in Side |-> FALSE]
  BY DEF Init
<1>3. \A x \in Side : \A n \in Pos(x) : x = "device" /\ n = 1 /\ net[x][n].cmd = "CNXN"
  <2> SUFFICES ASSUME NEW x \in Side, NEW n \in Pos(x) PROVE x = "device" /\ n = 1 /\ net[x][n].cmd = "CNXN"
    OBVIOUS
  <2>1. PICK q : q = net[x] /\ n \in 1..Len(q)
    BY DEF Pos
  <2>2. Len(<<>>) = 0 /\ Len(<<Cnxn>>) = 1
    OBVIOUS
  <2>3. q = (IF x = "device" THEN <<Cnxn>> ELSE <<>>)
    BY <1>2, <2>1
  <2>4. x = "device" /\ q = <<Cnxn>> /\ Len(q) = 1
    BY <2>1, <2>2, <2>3
  <2>5. n = 1
    <3>1. Len(q) = 1 /\ n \in 1..Len(q)
      BY <2>1, <2>4
    <3> QED BY <3>1
  <2>6. net[x][n] = Cnxn
    BY <2>1, <2>4, <2>5
  <2> QED BY <2>4, <2>5, <2>6 DEF Cnxn
<1>4. OneSession
  <2>1. \A x \in Side : ~online[x] /\ ~online["host"]
    BY <1>2 DEF Side
  <2> QED BY <1>2, <1>3, <2>1 DEF OneSession
<1>5. Closing
  <2>1. \A x \in Side, i \in Ids : ~(i < next_id[x])
    <3>1. \A i \in Ids : ~(i < 1)
      BY StreamsAssumption DEF Ids
    <3> QED BY <1>2, <3>1
  <2> QED BY <1>3, <2>1 DEF Closing, ClseLast, ClosedGotAll, IsClse
<1> QED BY <1>1, <1>4, <1>5

LEMMA WireNext == WireInv /\ [Next]_vars => WireInv'
<1> SUFFICES ASSUME WireInv, [Next]_vars, gen' = 0, breaks' = 0 PROVE (OneSession /\ Closing)'
  BY SessionNext DEF WireInv
<1>1. StreamInv /\ StreamInv' /\ TypeOK /\ TypeOK'
  BY StreamInvNext DEF WireInv, SessionInv, StreamInv, TypeInv
<1>2. CASE UNCHANGED vars
  <2>1. OneSession /\ Closing
    BY <1>2 DEF WireInv, vars
  <2>2. OneSession'
    BY <1>2, <2>1 DEF vars, OneSession, Pos
  <2>3. Closing'
    BY <1>2, <2>1 DEF vars, Closing, ClseLast, ClosedGotAll, Pos, Str
  <2> QED BY <2>2, <2>3
<1>3. ASSUME NEW x \in Side, HandlePacket(x) \/ Connect(x) \/ \E i \in Ids : Event(x, i) \/ HangUp(x, i)
      PROVE  (OneSession /\ Closing)'
  <2>1. SideStep(x)
    BY <1>1, <1>3, SideSteps
  <2>2. gen = 0 /\ breaks = 0
    BY <1>3 DEF HandlePacket, HandleCnxn, HandleOffline, HandleOpen, HandleOkay, HandleClse, HandleWrte,
                Connect, Event, EventRead, EventWriteSome, EventWriteError, EventWriteAll, HangUp
  <2>3. OneSession /\ Closing /\ MateInv /\ Flow(x)
    BY <2>2 DEF WireInv, SessionInv
  <2>4. PICK k, o : Greets(x, k, o) /\ Closes(x, k, o)
    BY <1>1, <2>1, <2>2, <2>3, SideCloses
  <2>5. link = "up" /\ NetMoves(x, k, o)
    BY <2>3, <2>4 DEF OneSession, Greets
  <2>6. OneSession'
    BY <1>1, <2>3, <2>4, GreetingKept
  <2>7. Closing'
    BY <1>1, <2>3, <2>4, <2>5, ClosingKept
  <2> QED BY <2>6, <2>7
<1>4. ~Break
  BY <1>1 DEF Break, TypeOK
<1>5. ~HostRestart
  BY <1>1 DEF HostRestart, TypeOK
<1>6. ~Reconnect
  <2> SUFFICES ASSUME Reconnect PROVE FALSE
    OBVIOUS
  <2>1. gen = 0 /\ breaks = 0 /\ link = "broken"
    BY DEF Reconnect
  <2> QED BY <2>1 DEF WireInv, OneSession
<1> QED BY <1>2, <1>3, <1>4, <1>5, <1>6 DEF Next

\* A freed socket has no backlog: all that has arrived was written.
LEMMA WireNoLoss == WireInv => NoLossOnClose
<1> SUFFICES ASSUME WireInv, NEW x \in Side, NEW i \in Ids, gen = 0, breaks = 0, i < next_id[x],
                    sock[x][i].list = "none", app[x][i].end = "open", app[x][i].mate # 0
             PROVE  Len(app[x][i].got) = app[Other(x)][app[x][i].mate].sent
  BY DEF NoLossOnClose
<1>1. TypeOK /\ BacklogHasPeer /\ ClosedGotAll(x)
  BY DEF WireInv, SessionInv, StreamInv, TypeInv, Closing
<1>2. sock[x][i].pkts = <<>>
  BY <1>1 DEF BacklogHasPeer
<1>3. app[x][i].got \in Seq(Unit)
  BY <1>1, StrTyped
<1>4. PICK g : g = app[x][i].got
  OBVIOUS
<1>5. g \o <<>> = g
  BY <1>3, <1>4
<1>6. Str(x, i) = g
  BY <1>2, <1>4, <1>5 DEF Str
<1>7. Len(Str(x, i)) = app[Other(x)][app[x][i].mate].sent
  BY <1>1 DEF ClosedGotAll
<1> QED BY <1>4, <1>6, <1>7

\* When adb itself closes a fd whose program has not hung up, everything the
\* other end sent on that stream has been written to it.
THEOREM NoLossProved == Spec => []NoLossOnClose
BY WireInit, WireNext, WireNoLoss, PTL DEF Spec

-----------------------------------------------------------------------------
(* The two ends of a stream *)

IsOpen(p, i) == p.cmd = "OPEN" /\ p.arg0 = i

\* Socket i of side x and socket j of the other are the ends of one stream:
\* one of them at least was connected to the other.
Paired(x, i, j) == app[x][i].mate = j \/ app[Other(x)][j].mate = i

\* While the wire is up each side waits for the CNXN of the other, and sends
\* nothing before it has come.
Greeting ==
  /\ \A x \in Side : \A n \in Pos(x) :
       /\ net[x][n].cmd # "SYNC"
       /\ net[x][n].cmd = "CNXN" =>
            n = 1 /\ ~online[x] /\ ~online["host"] /\ (x = "host" => online["device"])
  /\ ~online["device"] => /\ ~online["host"] /\ Len(net["host"]) = 0
                          /\ Len(net["device"]) > 0 /\ net["device"][1].cmd = "CNXN"
  /\ online["device"] /\ ~online["host"] => Len(net["host"]) > 0 /\ net["host"][1].cmd = "CNXN"

\* An open socket i of side x: if it has a mate, that is open, or has sent a
\* CLSE, or will answer an OKAY with one; if it has none, its OPEN or the
\* answer is under way; and a CLSE is behind the OKAY that connects it.
EndKnown(x, i) ==
  \A j \in Ids : Paired(x, i, j) =>
    \/ sock[Other(x)][j].list = "open"
    \/ \E n \in Pos(x) : IsClse(net[x][n], j, i)
    \/ \E n \in Pos(Other(x)) : IsOkay(net[Other(x)][n], i, j)
Awaits(x, i) ==
  app[x][i].mate = 0 =>
    \/ \E n \in Pos(Other(x)) : IsOpen(net[Other(x)][n], i)
    \/ \E n \in Pos(x) : IsClse(net[x][n], 0, i)
    \/ \E j \in Ids : app[Other(x)][j].mate = i
OkayBeforeClse(x, i) ==
  \A n \in Pos(x), j \in Ids : IsClse(net[x][n], j, i) /\ app[x][i].mate = 0 =>
    \E m \in Pos(x) : m < n /\ IsOkay(net[x][m], j, i)
BothEnds(x) ==
  \A i \in Ids : sock[x][i].list = "open" => EndKnown(x, i) /\ Awaits(x, i) /\ OkayBeforeClse(x, i)

\* What a step of side x does to the handshake, ...
Hails(x, k, o) ==
  /\ NetMoves(x, k, o) /\ online'[Other(x)] = online[Other(x)]
  /\ \A n \in 1..Len(o) : o[n].cmd # "SYNC"
  /\ \/ /\ online'[x] = online[x] /\ \A n \in 1..Len(o) : o[n].cmd # "CNXN"
        /\ k = 1 => net[x][1].cmd # "CNXN"
        /\ online[x] \/ (k = 0 /\ Len(o) = 0)
     \/ /\ k = 1 /\ net[x][1].cmd = "CNXN" /\ online'[x]
        /\ Len(o) = (IF x = "device" THEN 1 ELSE 0)
        /\ \A n \in 1..Len(o) : o[n].cmd = "CNXN"

\* ... to its open sockets, ...
StaysOpen(x, i, k, o) ==
  \/ sock[x][i].list = "open" /\ app'[x][i].mate = app[x][i].mate
  \/ /\ sock[x][i].list = "open" /\ app[x][i].mate = 0
     /\ k = 1 /\ IsOkay(net[x][1], app'[x][i].mate, i)
  \/ /\ i = next_id[x] /\ app'[x][i].mate = 0
     /\ \E n \in 1..Len(o) : IsOpen(o[n], i)
  \/ /\ i = next_id[x] /\ k = 1 /\ IsOpen(net[x][1], app'[x][i].mate)
     /\ \E n \in 1..Len(o) : IsOkay(o[n], i, app'[x][i].mate)

\* ... and for the packet it takes.
Handles(x, o) ==
  /\ \A i \in Ids, j \in Ids \cup {0} :
       /\ IsClse(net[x][1], j, i) /\ sock[x][i].list = "open" /\ (j = 0 \/ app[x][i].mate = j) =>
            sock'[x][i].list # "open"
       /\ IsOkay(net[x][1], j, i) /\ sock[x][i].list = "open" =>
            sock'[x][i].list = "open" /\ app'[x][i].mate = j
       /\ IsOkay(net[x][1], j, i) /\ sock[x][i].list # "open" => \E n \in 1..Len(o) : IsClse(o[n], i, j)
  /\ \A j \in Ids : IsOpen(net[x][1], j) =>
       \/ \E i \in Ids : app'[x][i].mate = j
       \/ \E n \in 1..Len(o) : IsClse(o[n], 0, j)

Ends(x, k, o) ==
  /\ NetMoves(x, k, o) /\ sock'[Other(x)] = sock[Other(x)] /\ app'[Other(x)] = app[Other(x)]
  /\ \A i \in Ids : sock'[x][i].list = "open" => StaysOpen(x, i, k, o)
  /\ k = 1 => Handles(x, o)
  /\ \A i \in Ids : sock[x][i].list = "open" /\ sock'[x][i].list # "open" =>
       app[x][i].mate = 0 \/ \E n \in 1..Len(o) : IsClse(o[n], i, app[x][i].mate)
  /\ \A i \in Ids : \/ app'[x][i].mate = app[x][i].mate
                    \/ app[x][i].mate = 0 /\ sock'[x][i].list = "open"
  /\ \A n \in 1..Len(o), i, j \in Ids : IsClse(o[n], i, j) =>
       app[x][i].mate = j \/ (k = 1 /\ IsOkay(net[x][1], j, i))

\* A side that takes a packet other than CNXN is online.
LEMMA HeadOnline ==
  ASSUME TypeOK, Greeting, NEW x \in Side, 1 \in Pos(x), net[x][1].cmd # "CNXN"
  PROVE  online[x]
<1>1. x = "host" \/ x = "device"
  BY DEF Side
<1>2. CASE x = "device"
  BY <1>2 DEF Greeting
<1>3. CASE x = "host"
  <2>1. Len(net["host"]) # 0
    BY <1>3 DEF Pos
  <2> QED BY <1>3, <2>1 DEF Greeting
<1> QED BY <1>1, <1>2, <1>3

\* A step of one side keeps Greeting.
LEMMA HailKept ==
  ASSUME TypeOK, TypeOK', Greeting, NEW x \in Side, NEW k, NEW o, Hails(x, k, o)
  PROVE  Greeting'
<1>1. PICK y : y = Other(x)
  OBVIOUS
<1>2. /\ y \in Side /\ y # x /\ Side = {"host", "device"}
      /\ \/ x = "host" /\ y = "device"
         \/ x = "device" /\ y = "host"
  BY <1>1 DEF Other, Side
<1>3. /\ \A n \in Pos(x)' : n + k \in Pos(x) /\ net'[x][n] = net[x][n + k]
      /\ k \in {0, 1} /\ Len(net[x]) = Len(net'[x]) + k
  BY DEF Hails, NetMoves, Pos
<1>4. /\ Len(net'[y]) = Len(net[y]) + Len(o)
      /\ \A n \in Pos(y) : n \in Pos(y)' /\ net'[y][n] = net[y][n]
      /\ \A n \in Pos(y)' : \/ n \in Pos(y)
                            \/ /\ n - Len(net[y]) \in 1..Len(o) /\ n > Len(net[y])
                               /\ net'[y][n] = o[n - Len(net[y])]
  BY <1>1 DEF Hails, NetMoves, Pos
<1>5. \A z \in Side : /\ Len(net[z]) \in Nat /\ Len(net'[z]) \in Nat /\ Pos(z) = 1..Len(net[z])
                      /\ Pos(z)' = 1..Len(net'[z])
  <2>1. \A z \in Side : net[z] \in Seq(Packet) /\ net'[z] \in Seq(Packet)
    BY DEF TypeOK
  <2> QED BY <2>1 DEF Pos
<1>6. online'[y] = online[y] /\ (\A n \in 1..Len(o) : o[n].cmd # "SYNC")
  BY <1>1 DEF Hails
<1>7. \A z \in Side : \A n \in Pos(z) :
       /\ net[z][n].cmd # "SYNC"
       /\ net[z][n].cmd = "CNXN" =>
            n = 1 /\ ~online[z] /\ ~online["host"] /\ (z = "host" => online["device"])
  BY DEF Greeting
<1>8. /\ ~online["device"] => /\ ~online["host"] /\ Len(net["host"]) = 0
                              /\ Len(net["device"]) > 0 /\ net["device"][1].cmd = "CNXN"
      /\ online["device"] /\ ~online["host"] => Len(net["host"]) > 0 /\ net["host"][1].cmd = "CNXN"
  BY DEF Greeting
<1>9. \A z \in Side : \A n \in Pos(z)' : net'[z][n].cmd # "SYNC"
  <2>1. \A n \in Pos(x)' : net'[x][n].cmd # "SYNC"
    BY <1>3, <1>7
  <2>2. \A n \in Pos(y)' : net'[y][n].cmd # "SYNC"
    BY <1>2, <1>4, <1>6, <1>7
  <2> QED BY <1>2, <2>1, <2>2
<1>10. CASE /\ online'[x] = online[x] /\ \A n \in 1..Len(o) : o[n].cmd # "CNXN"
            /\ k = 1 => net[x][1].cmd # "CNXN"
            /\ online[x] \/ (k = 0 /\ Len(o) = 0)
  <2>1. \A z \in Side : online'[z] = online[z]
    BY <1>2, <1>6, <1>10
  <2>2. CASE ~online[x]
    <3>1. k = 0 /\ Len(o) = 0
      BY <1>10, <2>2
    <3>2. /\ Len(net'[x]) = Len(net[x]) /\ Len(net'[y]) = Len(net[y])
          /\ \A n \in Pos(x) : net'[x][n] = net[x][n]
          /\ \A n \in Pos(y) : net'[y][n] = net[y][n]
      BY <1>2, <1>3, <1>4, <1>5, <3>1
    <3>3. \A z \in Side : Len(net'[z]) = Len(net[z]) /\ Pos(z)' = Pos(z) /\ \A n \in Pos(z) : net'[z][n] = net[z][n]
      BY <1>2, <1>5, <3>2
    <3>4. \A z \in Side : Len(net[z]) > 0 => 1 \in Pos(z)
      BY <1>5
    <3> QED BY <1>2, <1>7, <1>8, <1>9, <2>1, <3>3, <3>4 DEF Greeting
  <2>3. CASE online[x]
    <3>1. online["device"]
      BY <1>2, <1>8, <2>3
    <3>2. \A n \in Pos(x)' : net'[x][n].cmd # "CNXN"
      BY <1>3, <1>7, <2>3
    <3>3. \A n \in Pos(y)' : net'[y][n].cmd = "CNXN" => n \in Pos(y) /\ net'[y][n] = net[y][n]
      BY <1>4, <1>10
    <3>4. ASSUME ~online["host"] PROVE Len(net'["host"]) > 0 /\ net'["host"][1].cmd = "CNXN"
      <4>1. y = "host"
        BY <1>2, <2>3, <3>4
      <4>2. Len(net[y]) > 0 /\ net[y][1].cmd = "CNXN"
        BY <1>8, <3>1, <3>4, <4>1
      <4>3. 1 \in Pos(y)
        BY <1>2, <1>5, <4>2
      <4>4. 1 \in Pos(y)' /\ net'[y][1] = net[y][1]
        BY <1>4, <4>3
      <4>5. Len(net'[y]) > 0
        BY <1>2, <1>5, <4>4
      <4> QED BY <4>1, <4>2, <4>4, <4>5
    <3>5. \A z \in Side : \A n \in Pos(z)' : net'[z][n].cmd = "CNXN" =>
            n = 1 /\ ~online'[z] /\ ~online'["host"] /\ (z = "host" => online'["device"])
      <4>1. \A n \in Pos(y)' : net'[y][n].cmd = "CNXN" =>
            n = 1 /\ ~online'[y] /\ ~online'["host"] /\ (y = "host" => online'["device"])
        BY <1>2, <1>7, <2>1, <3>3
      <4> QED BY <1>2, <3>2, <4>1
    <3> QED BY <1>2, <1>9, <2>1, <3>1, <3>4, <3>5 DEF Greeting
  <2> QED BY <2>2, <2>3
<1>11. CASE /\ k = 1 /\ net[x][1].cmd = "CNXN" /\ online'[x]
            /\ Len(o) = (IF x = "device" THEN 1 ELSE 0)
            /\ \A n \in 1..Len(o) : o[n].cmd = "CNXN"
  <2>1. 1 \in Pos(x)
    BY <1>3, <1>5, <1>11
  <2>2. ~online[x] /\ ~online["host"] /\ (x = "host" => online["device"])
    BY <1>7, <1>11, <2>1
  <2>3. \A n \in Pos(x)' : net'[x][n].cmd # "CNXN"
    <3> SUFFICES ASSUME NEW n \in Pos(x)', net'[x][n].cmd = "CNXN" PROVE FALSE
      OBVIOUS
    <3>1. n + 1 \in Pos(x) /\ net[x][n + 1].cmd = "CNXN"
      BY <1>3, <1>11
    <3>2. n + 1 = 1
      BY <1>7, <3>1
    <3>3. n \in Nat \ {0}
      BY <1>5
    <3> QED BY <3>2, <3>3
  <2>4. CASE x = "device"
    <3>1. y = "host" /\ Len(net[y]) = 0 /\ Len(o) = 1 /\ o[1].cmd = "CNXN"
      BY <1>2, <1>8, <1>11, <2>2, <2>4
    <3>2. Len(net'[y]) = 1
      BY <1>4, <3>1
    <3>3. Pos(y) = {} /\ Pos(y)' = {1}
      BY <1>2, <1>5, <3>1, <3>2
    <3>4. net'[y][1].cmd = "CNXN"
      BY <1>4, <3>1, <3>3
    <3>5. online'["device"] /\ ~online'["host"]
      BY <1>6, <1>11, <2>2, <2>4, <3>1
    <3>6. Len(net'["host"]) > 0
      BY <3>1, <3>2
    <3> QED BY <1>2, <1>9, <2>3, <2>4, <3>1, <3>3, <3>4, <3>5, <3>6 DEF Greeting
  <2>5. CASE x = "host"
    <3>1. y = "device" /\ Len(o) = 0 /\ online[y] /\ online'[y]
      BY <1>2, <1>6, <1>11, <2>2, <2>5
    <3>2. \A n \in Pos(y)' : net'[y][n].cmd # "CNXN"
      BY <1>2, <1>4, <1>7, <3>1
    <3> QED BY <1>2, <1>9, <1>11, <2>3, <2>5, <3>1, <3>2 DEF Greeting
  <2> QED BY <1>2, <2>4, <2>5
<1> QED BY <1>10, <1>11 DEF Hails

\* The facts of MateInv about the ends of one stream.
LEMMA PairFacts ==
  ASSUME StreamInv, MateInv, NEW x \in Side, NEW i \in Ids, NEW j \in Ids
  PROVE  /\ i # 0 /\ j # 0 /\ app[x][i].mate \in Ids \cup {0}
         /\ app[Other(x)][j].mate = i => app[x][i].mate \in {0, j}
         /\ app[x][i].mate = j => app[Other(x)][j].mate \in {0, i}
         /\ \A l \in Ids : app[Other(x)][j].mate = i /\ app[Other(x)][l].mate = i => l = j
         /\ app[x][i].mate = j \/ app[Other(x)][j].mate = i => i < next_id[x] /\ j < next_id[Other(x)]
<1>1. TypeOK /\ Mates
  BY DEF StreamInv, TypeInv, MateInv
<1>2. Other(x) \in Side /\ Other(Other(x)) = x
  BY Sides
<1>3. /\ Ids \subseteq Nat \ {0}
      /\ \A z \in Side, l \in Ids : app[Other(z)][l].mate < next_id[z]
      /\ \A z \in Side, l \in Ids : l >= next_id[z] => Fresh(z, l)
      /\ \A z \in Side : next_id[z] \in Nat
  BY MateFacts
<1>4. i # 0 /\ j # 0
  BY <1>3
<1>5. app[x][i].mate \in Ids \cup {0}
  BY <1>1 DEF TypeOK, App
<1>6. app[Other(x)][j].mate = i => app[x][i].mate \in {0, j}
  BY <1>1, <1>2, <1>4 DEF Mates
<1>7. app[x][i].mate = j => app[Other(x)][j].mate \in {0, i}
  BY <1>1, <1>2, <1>4 DEF Mates
<1>8. \A l \in Ids : app[Other(x)][j].mate = i /\ app[Other(x)][l].mate = i => l = j
  BY <1>1, <1>2, <1>4 DEF Mates
<1>9. \A z \in Side, l \in Ids : app[z][l].mate # 0 => l < next_id[z]
  <2> SUFFICES ASSUME NEW z \in Side, NEW l \in Ids, ~(l < next_id[z]) PROVE app[z][l].mate = 0
    OBVIOUS
  <2>1. l >= next_id[z]
    BY <1>3
  <2> QED BY <1>3, <2>1 DEF Fresh
<1>10. app[x][i].mate = j => i < next_id[x] /\ j < next_id[Other(x)]
  BY <1>2, <1>3, <1>4, <1>9
<1>11. app[Other(x)][j].mate = i => i < next_id[x] /\ j < next_id[Other(x)]
  BY <1>2, <1>3, <1>4, <1>9
<1> QED BY <1>4, <1>5, <1>6, <1>7, <1>8, <1>10, <1>11

\* The side that takes a step keeps BothEnds, ...
LEMMA OwnEnds ==
  ASSUME StreamInv, StreamInv', MateInv, NEW x \in Side, NEW k, NEW o, Ends(x, k, o), BothEnds(x),
         k = 1 => 1 \in Pos(x)
  PROVE  BothEnds(x)'
<1> DEFINE y == Other(x)
<1>1. TypeOK /\ TypeOK' /\ Announced /\ IdsUsed
  BY DEF StreamInv, TypeInv, MateInv
<1>2. y \in Side /\ Other(y) = x
  BY Sides
<1>3. NetMoves(x, k, o) /\ app'[y] = app[y] /\ sock'[y] = sock[y]
  BY DEF Ends
<1>4. /\ \A n \in Pos(x)' : n + k \in Pos(x) /\ net'[x][n] = net[x][n + k]
      /\ \A m \in Pos(x) : \/ k = 1 /\ m = 1
                           \/ m - k \in Pos(x)' /\ net'[x][m - k] = net[x][m]
      /\ k \in {0, 1}
  BY <1>1, <1>3, NetHeard
<1>5. /\ \A n \in Pos(y) : n \in Pos(y)' /\ net'[y][n] = net[y][n]
      /\ \A n \in 1..Len(o) : Len(net[y]) + n \in Pos(y)' /\ net'[y][Len(net[y]) + n] = o[n]
  BY <1>3, NetSaid
<1> SUFFICES ASSUME NEW i \in Ids, sock'[x][i].list = "open"
             PROVE  (EndKnown(x, i) /\ Awaits(x, i) /\ OkayBeforeClse(x, i))'
  BY DEF BothEnds
<1>6. StaysOpen(x, i, k, o)
  BY DEF Ends
<1>7. sock[x][i].list = "open" => EndKnown(x, i) /\ Awaits(x, i) /\ OkayBeforeClse(x, i)
  BY DEF BothEnds
<1>8. \A n \in Pos(x) : n \in Nat \ {0}
  BY <1>1 DEF Pos, TypeOK
<1>9. ASSUME k = 1, NEW j \in Ids \cup {0}, IsClse(net[x][1], j, i), sock[x][i].list = "open"
      PROVE  j # 0 /\ app[x][i].mate # j
  BY <1>9 DEF Ends, Handles
<1>10. \A j \in Ids : k = 1 /\ IsOkay(net[x][1], j, i) /\ sock[x][i].list = "open" => app'[x][i].mate = j
  BY DEF Ends, Handles
<1>11. \A j \in Ids : IsOkay(net[x][1], j, i) /\ 1 \in Pos(x) => app[y][j].mate = i
  BY <1>1 DEF IsOkay, Announced
<1>12. ASSUME i = next_id[x] PROVE \A j \in Ids : app[y][j].mate # i
  <2> TAKE j \in Ids
  <2>1. app[y][j].mate = i => i < next_id[x]
    BY <1>2, PairFacts
  <2>2. next_id[x] \in Nat
    BY <1>1 DEF TypeOK
  <2> QED BY <1>12, <2>1, <2>2
<1>13. EndKnown(x, i)'
  <2> SUFFICES ASSUME NEW j \in Ids, app'[x][i].mate = j \/ app[y][j].mate = i
               PROVE  \/ sock[y][j].list = "open"
                      \/ \E n \in Pos(x)' : IsClse(net'[x][n], j, i)
                      \/ \E n \in Pos(y)' : IsOkay(net'[y][n], i, j)
    BY <1>3 DEF EndKnown, Paired
  <2>1. CASE i = next_id[x]
    <3>1. app[y][j].mate # i
      BY <1>12, <2>1
    <3>2. j # 0 /\ app'[x][i].mate = j
      BY <3>1, PairFacts
    <3>3. CASE \E n \in 1..Len(o) : IsOkay(o[n], i, j)
      BY <1>5, <3>3
    <3>4. CASE sock[x][i].list = "open"
      <4>1. i < next_id[x] /\ next_id[x] \in Nat
        BY <3>4, MateFacts
      <4> QED BY <2>1, <4>1
    <3> QED BY <1>6, <3>2, <3>3, <3>4 DEF StaysOpen
  <2>2. CASE i # next_id[x]
    <3>1. sock[x][i].list = "open"
      BY <1>6, <2>2 DEF StaysOpen
    <3>2. app[x][i].mate = j \/ app[y][j].mate = i
      BY <1>4, <1>6, <1>11, <2>2 DEF StaysOpen
    <3>3. \/ sock[y][j].list = "open"
          \/ \E n \in Pos(x) : IsClse(net[x][n], j, i)
          \/ \E n \in Pos(y) : IsOkay(net[y][n], i, j)
      BY <1>7, <3>1, <3>2 DEF EndKnown, Paired
    <3>4. ASSUME NEW n \in Pos(x), IsClse(net[x][n], j, i)
          PROVE  \E m \in Pos(x)' : IsClse(net'[x][m], j, i)
      <4>1. CASE k = 1 /\ n = 1
        <5>1. app[x][i].mate # j /\ app[y][j].mate = i
          BY <1>9, <3>1, <3>2, <3>4, <4>1
        <5>2. app[x][i].mate = 0
          BY <5>1, PairFacts
        <5>3. PICK m \in Pos(x) : m < 1
          BY <1>7, <3>1, <3>4, <4>1, <5>2 DEF OkayBeforeClse
        <5> QED BY <1>8, <5>3
      <4>2. CASE ~(k = 1 /\ n = 1)
        BY <1>4, <3>4, <4>2
      <4> QED BY <4>1, <4>2
    <3> QED BY <1>5, <3>3, <3>4
  <2> QED BY <2>1, <2>2
<1>14. Awaits(x, i)'
  <2> SUFFICES ASSUME app'[x][i].mate = 0
               PROVE  \/ \E n \in Pos(y)' : IsOpen(net'[y][n], i)
                      \/ \E n \in Pos(x)' : IsClse(net'[x][n], 0, i)
                      \/ \E j \in Ids : app[y][j].mate = i
    BY <1>3 DEF Awaits
  <2>1. CASE \E n \in 1..Len(o) : IsOpen(o[n], i)
    BY <1>5, <2>1
  <2>2. CASE sock[x][i].list = "open" /\ app[x][i].mate = 0
    <3>1. \/ \E n \in Pos(y) : IsOpen(net[y][n], i)
          \/ \E n \in Pos(x) : IsClse(net[x][n], 0, i)
          \/ \E j \in Ids : app[y][j].mate = i
      BY <1>7, <2>2 DEF Awaits
    <3>2. ASSUME NEW n \in Pos(x), IsClse(net[x][n], 0, i)
          PROVE  \E m \in Pos(x)' : IsClse(net'[x][m], 0, i)
      <4>1. ~(k = 1 /\ n = 1)
        BY <1>9, <2>2, <3>2
      <4> QED BY <1>4, <3>2, <4>1
    <3> QED BY <1>5, <3>1, <3>2
  <2>3. ASSUME NEW p \in Packet, IsOkay(p, 0, i) \/ IsOpen(p, 0) PROVE FALSE
    BY <2>3, PacketFields, StreamsAssumption DEF IsOkay, IsOpen, Ids
  <2>4. k = 1 => net[x][1] \in Packet
    BY <1>1 DEF Pos, TypeOK
  <2> QED BY <1>6, <2>1, <2>2, <2>3, <2>4 DEF StaysOpen
<1>15. OkayBeforeClse(x, i)'
  <2> SUFFICES ASSUME NEW n \in Pos(x)', NEW j \in Ids, IsClse(net'[x][n], j, i), app'[x][i].mate = 0
               PROVE  \E m \in Pos(x)' : m < n /\ IsOkay(net'[x][m], j, i)
    BY DEF OkayBeforeClse
  <2>1. n + k \in Pos(x) /\ IsClse(net[x][n + k], j, i)
    BY <1>4
  <2>2. CASE i = next_id[x]
    <3>1. i < next_id[x] /\ next_id[x] \in Nat
      BY <1>1, <2>1 DEF IsClse, IdsUsed, TypeOK
    <3> QED BY <2>2, <3>1
  <2>3. CASE i # next_id[x]
    <3>1. sock[x][i].list = "open" /\ app[x][i].mate = 0
      BY <1>6, <2>3 DEF StaysOpen
    <3>2. PICK m \in Pos(x) : m < n + k /\ IsOkay(net[x][m], j, i)
      BY <1>7, <2>1, <3>1 DEF OkayBeforeClse
    <3>3. j # 0
      BY PairFacts
    <3>4. ~(k = 1 /\ m = 1)
      BY <1>10, <3>1, <3>2, <3>3
    <3>5. m - k \in Pos(x)' /\ net'[x][m - k] = net[x][m]
      BY <1>4, <3>4
    <3>6. n \in Nat /\ m \in Nat /\ k \in Nat
      BY <1>1, <1>4, <1>8 DEF Pos, TypeOK
    <3>7. m - k < n
      BY <3>2, <3>6
    <3> QED BY <3>2, <3>5, <3>7
  <2> QED BY <2>2, <2>3
<1> QED BY <1>13, <1>14, <1>15

\* ... and so does the other.
LEMMA OtherEnds ==
  ASSUME StreamInv, StreamInv', MateInv, NEW x \in Side, NEW k, NEW o, Ends(x, k, o), BothEnds(Other(x)),
         k = 1 => 1 \in Pos(x), link = "up", Flow(x), Flow(Other(x))
  PROVE  BothEnds(Other(x))'
<1> DEFINE y == Other(x)
<1>1. TypeOK /\ TypeOK' /\ Announced
  BY DEF StreamInv, TypeInv, MateInv
<1>2. y \in Side /\ Other(y) = x
  BY Sides
<1>3. NetMoves(x, k, o) /\ app'[y] = app[y] /\ sock'[y] = sock[y]
  BY DEF Ends
<1>4. /\ \A m \in Pos(x) : \/ k = 1 /\ m = 1
                           \/ m - k \in Pos(x)' /\ net'[x][m - k] = net[x][m]
      /\ k \in {0, 1}
  BY <1>1, <1>3, NetHeard
<1>5. /\ \A n \in Pos(y) : n \in Pos(y)' /\ net'[y][n] = net[y][n]
      /\ \A n \in 1..Len(o) : Len(net[y]) + n \in Pos(y)' /\ net'[y][Len(net[y]) + n] = o[n]
      /\ \A n \in Pos(y)' :
              \/ n \in Pos(y)
              \/ /\ n - Len(net[y]) \in 1..Len(o) /\ n > Len(net[y])
                 /\ net'[y][n] = o[n - Len(net[y])]
  BY <1>3, NetSaid
<1> SUFFICES ASSUME NEW j \in Ids, sock[y][j].list = "open"
             PROVE  (EndKnown(y, j) /\ Awaits(y, j) /\ OkayBeforeClse(y, j))'
  BY <1>3 DEF BothEnds
<1>6. EndKnown(y, j) /\ Awaits(y, j) /\ OkayBeforeClse(y, j)
  BY DEF BothEnds
<1>7. /\ \A z \in Side, l \in Ids :
           sock[z][l].list = "open" => sock[z][l].peer = app[z][l].mate /\ online[z]
  BY MateFacts
<1>8. ASSUME k = 1, NEW i \in Ids, IsOkay(net[x][1], j, i)
      PROVE  /\ sock[x][i].list = "open" => sock'[x][i].list = "open"
             /\ sock[x][i].list # "open" => \E n \in 1..Len(o) : IsClse(o[n], i, j)
  BY <1>8 DEF Ends, Handles
<1>9. \A i \in Ids : sock[x][i].list = "open" /\ sock'[x][i].list # "open" =>
       app[x][i].mate = 0 \/ \E n \in 1..Len(o) : IsClse(o[n], i, app[x][i].mate)
  BY DEF Ends
<1>10. \A i \in Ids : \/ app'[x][i].mate = app[x][i].mate
                      \/ app[x][i].mate = 0 /\ sock'[x][i].list = "open"
  BY DEF Ends
<1>11. EndKnown(y, j)'
  <2> SUFFICES ASSUME NEW i \in Ids, app[y][j].mate = i \/ app'[x][i].mate = j
               PROVE  \/ sock'[x][i].list = "open"
                      \/ \E n \in Pos(y)' : IsClse(net'[y][n], i, j)
                      \/ \E n \in Pos(x)' : IsOkay(net'[x][n], j, i)
    BY <1>2, <1>3 DEF EndKnown, Paired
  <2>1. ASSUME NEW n \in Pos(x), IsOkay(net[x][n], j, i)
        PROVE  \/ sock'[x][i].list = "open"
               \/ \E m \in Pos(y)' : IsClse(net'[y][m], i, j)
               \/ \E m \in Pos(x)' : IsOkay(net'[x][m], j, i)
    <3>1. CASE k = 1 /\ n = 1
      BY <1>5, <1>8, <2>1, <3>1
    <3>2. CASE ~(k = 1 /\ n = 1)
      BY <1>4, <2>1, <3>2
    <3> QED BY <3>1, <3>2
  <2>2. CASE app[y][j].mate = i \/ app[x][i].mate = j
    <3>1. \/ sock[x][i].list = "open"
          \/ \E n \in Pos(y) : IsClse(net[y][n], i, j)
          \/ \E n \in Pos(x) : IsOkay(net[x][n], j, i)
      BY <1>2, <1>6, <2>2 DEF EndKnown, Paired
    <3>2. ASSUME sock[x][i].list = "open", sock'[x][i].list # "open"
          PROVE  \/ \E n \in Pos(y)' : IsClse(net'[y][n], i, j)
                 \/ \E n \in Pos(x)' : IsOkay(net'[x][n], j, i)
      <4>1. CASE app[x][i].mate # 0
        <5>1. app[x][i].mate = j
          BY <2>2, <4>1, PairFacts
        <5> QED BY <1>5, <1>9, <3>2, <4>1, <5>1
      <4>2. CASE app[x][i].mate = 0
        <5>1. app[y][j].mate = i /\ sock[x][i].peer = 0
          BY <1>7, <2>2, <3>2, <4>2, PairFacts
        <5>2. PICK m \in Pos(x) : IsOkay(net[x][m], j, i)
          BY <3>2, <5>1 DEF Flow, Complete
        <5> QED BY <2>1, <3>2, <5>2
      <4> QED BY <4>1, <4>2
    <3> QED BY <1>5, <2>1, <3>1, <3>2
  <2>3. CASE app'[x][i].mate = j /\ app[x][i].mate # j
    BY <1>10, <2>3
  <2> QED BY <2>2, <2>3
<1>12. Awaits(y, j)'
  <2> SUFFICES ASSUME app[y][j].mate = 0
               PROVE  \/ \E n \in Pos(x)' : IsOpen(net'[x][n], j)
                      \/ \E n \in Pos(y)' : IsClse(net'[y][n], 0, j)
                      \/ \E i \in Ids : app'[x][i].mate = j
    BY <1>2, <1>3 DEF Awaits
  <2>1. \/ \E n \in Pos(x) : IsOpen(net[x][n], j)
        \/ \E n \in Pos(y) : IsClse(net[y][n], 0, j)
        \/ \E i \in Ids : app[x][i].mate = j
    BY <1>2, <1>6 DEF Awaits
  <2>2. ASSUME NEW n \in Pos(x), IsOpen(net[x][n], j)
        PROVE  \/ \E m \in Pos(x)' : IsOpen(net'[x][m], j)
               \/ \E m \in Pos(y)' : IsClse(net'[y][m], 0, j)
               \/ \E i \in Ids : app'[x][i].mate = j
    <3>1. CASE k = 1 /\ n = 1
      <4>1. \/ \E i \in Ids : app'[x][i].mate = j
            \/ \E m \in 1..Len(o) : IsClse(o[m], 0, j)
        BY <2>2, <3>1 DEF Ends, Handles
      <4> QED BY <1>5, <4>1
    <3>2. CASE ~(k = 1 /\ n = 1)
      BY <1>4, <2>2, <3>2
    <3> QED BY <3>1, <3>2
  <2>3. j # 0
    BY PairFacts
  <2> QED BY <1>5, <1>10, <2>1, <2>2, <2>3
<1>13. OkayBeforeClse(y, j)'
  <2> SUFFICES ASSUME NEW n \in Pos(y)', NEW i \in Ids, IsClse(net'[y][n], i, j), app[y][j].mate = 0
               PROVE  \E m \in Pos(y)' : m < n /\ IsOkay(net'[y][m], i, j)
    BY <1>3 DEF OkayBeforeClse
  <2>1. CASE n \in Pos(y)
    <3>1. IsClse(net[y][n], i, j)
      BY <1>5, <2>1
    <3>2. PICK m \in Pos(y) : m < n /\ IsOkay(net[y][m], i, j)
      BY <1>6, <2>1, <3>1 DEF OkayBeforeClse
    <3> QED BY <1>5, <3>2
  <2>2. CASE n - Len(net[y]) \in 1..Len(o) /\ n > Len(net[y]) /\ net'[y][n] = o[n - Len(net[y])]
    <3>1. PICK l \in 1..Len(o) : IsClse(o[l], i, j)
      BY <2>2
    <3>2. app[x][i].mate = j \/ (k = 1 /\ IsOkay(net[x][1], j, i))
      BY <3>1 DEF Ends
    <3>3. i # 0
      BY PairFacts
    <3>4. app[x][i].mate = j
      BY <1>1, <3>2, <3>3 DEF IsOkay, Announced
    <3>5. sock[y][j].peer = 0
      BY <1>2, <1>7
    <3>6. PICK m \in Pos(y) : IsOkay(net[y][m], i, j)
      BY <1>2, <3>4, <3>5 DEF Flow, Complete
    <3>7. Len(net[y]) \in Nat /\ Len(net'[y]) \in Nat
      BY <1>1, <1>2, SMTT(30) DEF TypeOK
    <3>8. m \in Nat /\ n \in Nat /\ m <= Len(net[y])
      BY <3>7 DEF Pos
    <3>9. m < n
      BY <2>2, <3>7, <3>8
    <3> QED BY <1>5, <3>6, <3>9
  <2> QED BY <1>5, <2>1, <2>2
<1> QED BY <1>11, <1>12, <1>13

-----------------------------------------------------------------------------
(* The permission to send *)

\* The packets of one kind from socket i to socket j in a queue.
Places(q, c, i, j) == {n \in 1..Len(q) : q[n].cmd = c /\ q[n].arg0 = i /\ q[n].arg1 = j}
Number(q, c, i, j) == Cardinality(Places(q, c, i, j))

\* What taking k packets, and sending o, does to that number.
Removed(q, k, c, i, j) == One(k = 1 /\ q[1].cmd = c /\ q[1].arg0 = i /\ q[1].arg1 = j)
Added(o, c, i, j) == One(\E n \in 1..Len(o) : o[n].cmd = c /\ o[n].arg0 = i /\ o[n].arg1 = j)

\* r is the queue q without its first k packets, or with o behind it.
Shorter(q, r, k) == Len(q) = Len(r) + k /\ \A n \in 1..Len(r) : n + k \in 1..Len(q) /\ r[n] = q[n + k]
Longer(q, r, o) ==
  /\ Len(r) = Len(q) + Len(o)
  /\ \A n \in 1..Len(q) : n \in 1..Len(r) /\ r[n] = q[n]
  /\ \A n \in 1..Len(r) : \/ n \in 1..Len(q)
                          \/ n - Len(q) \in 1..Len(o) /\ n > Len(q) /\ r[n] = o[n - Len(q)]
  /\ \A n \in 1..Len(o) : Len(q) + n \in 1..Len(r) /\ r[Len(q) + n] = o[n]

\* The permission of an open socket i of side x to send, if its program has
\* not hung up: there is one, at i, at the other end j or in between; and
\* none before i has a mate.
Credit(x) ==
  \A i, j \in Ids : sock[x][i].list = "open" =>
    /\ app[x][i].mate = 0 => "READ" \notin sock[x][i].fde
    /\ sock[Other(x)][j].list = "open" /\ Paired(x, i, j) /\ app[x][i].end = "open" =>
         One("READ" \in sock[x][i].fde) + Number(net[Other(x)], "WRTE", i, j)
           + One(sock[Other(x)][j].pkts # <<>>) + Number(net[x], "OKAY", j, i) = 1

\* A packet of kind c for socket i is taken, or one from it is sent.
Comes(x, k, c, i) == k = 1 /\ net[x][1].cmd = c /\ net[x][1].arg1 = i
Goes(o, c, i) == \E n \in 1..Len(o) : o[n].cmd = c /\ o[n].arg0 = i
AtMostOne(o, c) == \A m, n \in 1..Len(o) : o[m].cmd = c /\ o[n].cmd = c => m = n

\* What a step of side x does with the permissions at an open socket: it
\* sends units for the one to send, and an OKAY for the one it holds back.
Passes(x, i, k, o) ==
  /\ sock[x][i].list = "open"
  /\ "READ" \in sock'[x][i].fde => "READ" \in sock[x][i].fde \/ Comes(x, k, "OKAY", i)
  /\ app'[x][i].end = "open" =>
       /\ app[x][i].end = "open"
       /\ "READ" \in sock[x][i].fde \/ Comes(x, k, "OKAY", i) <=>
            "READ" \in sock'[x][i].fde \/ Goes(o, "WRTE", i)
       /\ ~("READ" \in sock'[x][i].fde /\ Goes(o, "WRTE", i))
  /\ sock[x][i].pkts # <<>> \/ Comes(x, k, "WRTE", i) <=>
       sock'[x][i].pkts # <<>> \/ Goes(o, "OKAY", i)
  /\ ~(sock'[x][i].pkts # <<>> /\ Goes(o, "OKAY", i))
Starts(x, i, k, o) ==
  /\ i = next_id[x]
  /\ \/ app'[x][i].mate = 0 /\ "READ" \notin sock'[x][i].fde
     \/ /\ k = 1 /\ IsOpen(net[x][1], app'[x][i].mate)
        /\ "READ" \in sock'[x][i].fde /\ sock'[x][i].pkts = <<>>
        /\ Goes(o, "OKAY", i) /\ \A n \in 1..Len(o) : IsOkay(o[n], i, app'[x][i].mate)

Pays(x, k, o) ==
  /\ NetMoves(x, k, o) /\ sock'[Other(x)] = sock[Other(x)] /\ app'[Other(x)] = app[Other(x)]
  /\ AtMostOne(o, "WRTE") /\ AtMostOne(o, "OKAY")
  /\ \A i \in Ids : sock'[x][i].list = "open" => Passes(x, i, k, o) \/ Starts(x, i, k, o)

LEMMA NumberTyped ==
  ASSUME NEW q \in Seq(Packet), NEW c, NEW i, NEW j
  PROVE  /\ IsFiniteSet(Places(q, c, i, j)) /\ Number(q, c, i, j) \in Nat
         /\ (\A n \in 1..Len(q) : ~(q[n].cmd = c /\ q[n].arg0 = i /\ q[n].arg1 = j)) => Number(q, c, i, j) = 0
         /\ (\E n \in 1..Len(q) : q[n].cmd = c /\ q[n].arg0 = i /\ q[n].arg1 = j) => Number(q, c, i, j) > 0
<1>1. IsFiniteSet(1..Len(q))
  BY FS_Interval
<1>2. Places(q, c, i, j) \in SUBSET (1..Len(q))
  BY DEF Places
<1>3. IsFiniteSet(Places(q, c, i, j)) /\ Number(q, c, i, j) \in Nat
  BY <1>1, <1>2, FS_Subset, FS_CardinalityType DEF Number
<1>4. Number(q, c, i, j) = 0 <=> Places(q, c, i, j) = {}
  BY <1>3, FS_EmptySet DEF Number
<1>5. ASSUME \A n \in 1..Len(q) : ~(q[n].cmd = c /\ q[n].arg0 = i /\ q[n].arg1 = j) PROVE Number(q, c, i, j) = 0
  BY <1>4, <1>5 DEF Places
<1>6. ASSUME NEW n \in 1..Len(q), q[n].cmd = c /\ q[n].arg0 = i /\ q[n].arg1 = j PROVE Number(q, c, i, j) > 0
  <2>1. n \in Places(q, c, i, j)
    BY <1>6 DEF Places
  <2>2. Number(q, c, i, j) # 0
    BY <1>4, <2>1
  <2> QED BY <1>3, <2>2
<1> QED BY <1>3, <1>5, <1>6

\* Taking the first packet of a queue takes it from the count.
LEMMA NumberTaken ==
  ASSUME NEW q \in Seq(Packet), NEW r \in Seq(Packet), NEW k \in {0, 1}, NEW c, NEW i, NEW j,
         Shorter(q, r, k)
  PROVE  Number(q, c, i, j) = Number(r, c, i, j)
           + Removed(q, k, c, i, j)
<1> USE DEF Shorter
<1>1. IsFiniteSet(Places(q, c, i, j)) /\ IsFiniteSet(Places(r, c, i, j))
  BY NumberTyped
<1>2. Number(q, c, i, j) \in Nat /\ Number(r, c, i, j) \in Nat
  BY NumberTyped
<1>3. Len(q) \in Nat /\ Len(r) \in Nat
  OBVIOUS
<1>4. CASE k = 0
  <2>1. Places(q, c, i, j) = Places(r, c, i, j)
    BY <1>3, <1>4 DEF Places
  <2> QED BY <1>2, <1>4, <2>1 DEF Number, One, Removed
<1>5. CASE k = 1
  <2> DEFINE R == Places(r, c, i, j)
             Q == Places(q, c, i, j)
             f == [n \in R |-> n + 1]
  <2>1. \A n \in R : f[n] \in Q \ {1}
    BY <1>3, <1>5 DEF Places
  <2>2. \A m, n \in R : f[m] = f[n] => m = n
    BY <1>3 DEF Places
  <2>3. \A m \in Q \ {1} : m - 1 \in R /\ f[m - 1] = m
    BY <1>3, <1>5 DEF Places
  <2>4. f \in [R -> Q \ {1}]
    BY <2>1
  <2>5. f \in Bijection(R, Q \ {1})
    <3>1. \A m \in Q \ {1} : \E n \in R : f[n] = m
      BY <2>3
    <3> HIDE DEF f, R, Q
    <3> QED BY <2>2, <2>4, <3>1 DEF Bijection, Injection, IsInjective, Surjection
  <2>6. ExistsBijection(R, Q \ {1})
    BY <2>5 DEF ExistsBijection
  <2> HIDE DEF f
  <2>7. Cardinality(Q \ {1}) = Cardinality(R)
    BY <1>1, <2>6, FS_Bijection
  <2>8. Cardinality(Q \ {1}) = IF 1 \in Q THEN Cardinality(Q) - 1 ELSE Cardinality(Q)
    BY <1>1, FS_RemoveElement
  <2>9. 1 \in Q <=> q[1].cmd = c /\ q[1].arg0 = i /\ q[1].arg1 = j
    BY <1>3, <1>5 DEF Places
  <2>10. Cardinality(Q) = Number(q, c, i, j) /\ Cardinality(R) = Number(r, c, i, j)
    BY DEF Number
  <2> HIDE DEF Q, R
  <2> QED BY <1>2, <1>5, <2>7, <2>8, <2>9, <2>10 DEF One, Removed
<1> QED BY <1>4, <1>5

\* What is sent adds to it.
LEMMA NumberSent ==
  ASSUME NEW q \in Seq(Packet), NEW r \in Seq(Packet), NEW o \in Seq(Packet), NEW c, NEW i, NEW j,
         AtMostOne(o, c), Longer(q, r, o)
  PROVE  Number(r, c, i, j) = Number(q, c, i, j)
           + Added(o, c, i, j)
<1> USE DEF Longer
<1>1. IsFiniteSet(Places(q, c, i, j)) /\ Number(q, c, i, j) \in Nat
  BY NumberTyped
<1>2. Len(q) \in Nat /\ Len(o) \in Nat
  OBVIOUS
<1>3. ASSUME NEW n \in 1..Len(o), o[n].cmd = c /\ o[n].arg0 = i /\ o[n].arg1 = j
      PROVE  Number(r, c, i, j) = Number(q, c, i, j) + 1
  <2>1. PICK l : l = Len(q) + n
    OBVIOUS
  <2>2. l \in 1..Len(r) /\ r[l] = o[n] /\ l \notin 1..Len(q)
    BY <1>2, <2>1
  <2>3. \A m \in 1..Len(r) : r[m].cmd = c /\ m \notin 1..Len(q) => m = l
    <3> SUFFICES ASSUME NEW m \in 1..Len(r), r[m].cmd = c, m \notin 1..Len(q) PROVE m = l
      OBVIOUS
    <3>1. m - Len(q) \in 1..Len(o) /\ o[m - Len(q)].cmd = c
      OBVIOUS
    <3>2. m - Len(q) = n
      BY <1>3, <3>1 DEF AtMostOne
    <3>3. m \in Nat
      BY <1>2
    <3> QED BY <1>2, <2>1, <3>2, <3>3
  <2>4. Places(r, c, i, j) = Places(q, c, i, j) \cup {l}
    BY <1>3, <2>2, <2>3 DEF Places
  <2>5. l \notin Places(q, c, i, j)
    BY <2>2 DEF Places
  <2> QED BY <1>1, <2>4, <2>5, FS_AddElement DEF Number
<1>4. ASSUME \A n \in 1..Len(o) : ~(o[n].cmd = c /\ o[n].arg0 = i /\ o[n].arg1 = j)
      PROVE  Number(r, c, i, j) = Number(q, c, i, j)
  <2>1. \A n \in 1..Len(r) : r[n].cmd = c /\ r[n].arg0 = i /\ r[n].arg1 = j => n \in 1..Len(q) /\ r[n] = q[n]
    BY <1>4, ZenonT(40)
  <2>2. \A n \in 1..Len(q) : n \in 1..Len(r) /\ r[n] = q[n]
    OBVIOUS
  <2>3. Places(r, c, i, j) = Places(q, c, i, j)
    BY <2>1, <2>2 DEF Places
  <2> QED BY <2>3 DEF Number
<1> QED BY <1>1, <1>3, <1>4 DEF One, Added

\* The same for the queues of a step.
LEMMA QueueTaken ==
  ASSUME TypeOK, TypeOK', NEW x \in Side, NEW k, NEW o, NetMoves(x, k, o), NEW c, NEW i, NEW j
  PROVE  /\ Number(net[x], c, i, j) = Number(net'[x], c, i, j) + Removed(net[x], k, c, i, j)
         /\ Number(net[x], c, i, j) \in Nat /\ Number(net'[x], c, i, j) \in Nat
<1>1. PICK q, r : q = net[x] /\ r = net'[x]
  OBVIOUS
<1>2. q \in Seq(Packet) /\ r \in Seq(Packet)
  BY <1>1 DEF TypeOK
<1>3. k \in {0, 1} /\ Shorter(q, r, k)
  BY <1>1 DEF NetMoves, Pos, Shorter
<1>4. Number(q, c, i, j) = Number(r, c, i, j) + Removed(q, k, c, i, j)
  BY <1>2, <1>3, NumberTaken
<1>5. Number(q, c, i, j) \in Nat /\ Number(r, c, i, j) \in Nat
  BY <1>2, NumberTyped
<1> QED BY <1>1, <1>4, <1>5

LEMMA QueueSent ==
  ASSUME TypeOK, TypeOK', NEW x \in Side, NEW k, NEW o \in Seq(Packet), NetMoves(x, k, o), NEW c, NEW i, NEW j,
         AtMostOne(o, c)
  PROVE  /\ Number(net'[Other(x)], c, i, j) = Number(net[Other(x)], c, i, j) + Added(o, c, i, j)
         /\ Number(net[Other(x)], c, i, j) \in Nat /\ Number(net'[Other(x)], c, i, j) \in Nat
<1>1. PICK q, r : q = net[Other(x)] /\ r = net'[Other(x)]
  OBVIOUS
<1>2. q \in Seq(Packet) /\ r \in Seq(Packet)
  BY <1>1, Sides DEF TypeOK
<1>3. Longer(q, r, o)
  BY <1>1 DEF NetMoves, Pos, Longer
<1>4. Number(r, c, i, j) = Number(q, c, i, j) + Added(o, c, i, j)
  BY <1>2, <1>3, NumberSent
<1>5. Number(q, c, i, j) \in Nat /\ Number(r, c, i, j) \in Nat
  BY <1>2, NumberTyped
<1> QED BY <1>1, <1>4, <1>5

\* A step that keeps both ends of a stream open: the packets for and from
\* socket i are those of the stream.
LEMMA StreamPackets ==
  ASSUME StreamInv, StreamInv', MateInv, MateInv', NEW x \in Side, NEW k, NEW o, Ends(x, k, o),
         k = 1 => 1 \in Pos(x), NEW i \in Ids, NEW j \in Ids,
         sock[x][i].list = "open", sock'[x][i].list = "open", Paired(x, i, j)'
  PROVE  /\ Paired(x, i, j)
         /\ \A c \in {"OKAY", "WRTE"} : Comes(x, k, c, i) <=> Removed(net[x], k, c, j, i) = 1
         /\ \A c \in {"OKAY", "WRTE"} : Goes(o, c, i) <=> Added(o, c, i, j) = 1
<1> DEFINE y == Other(x)
<1>1. TypeOK /\ TypeOK' /\ Announced
  BY DEF StreamInv, TypeInv, MateInv
<1>2. y \in Side /\ Other(y) = x
  BY Sides
<1>3. NetMoves(x, k, o) /\ app'[y] = app[y] /\ StaysOpen(x, i, k, o)
  BY DEF Ends
<1>4. app'[x][i].mate = j \/ app[y][j].mate = i
  BY <1>3 DEF Paired
<1>5. i < next_id[x] /\ next_id[x] \in Nat /\ i \in Nat
  BY MateFacts
<1>6. ASSUME NEW c \in {"OKAY", "WRTE"}, k = 1, net[x][1].cmd = c, net[x][1].arg1 = i
      PROVE  net[x][1].arg0 \in Ids /\ app[y][net[x][1].arg0].mate = i
  <2>1. net[x][1] \in Packet
    BY <1>1, <1>6 DEF TypeOK, Pos
  <2> QED BY <1>1, <1>6, <2>1, PacketFields DEF Announced
<1>7. app[x][i].mate = j \/ app[y][j].mate = i
  <2>1. CASE app'[x][i].mate = j /\ app[x][i].mate # j
    <3>1. k = 1 /\ IsOkay(net[x][1], j, i)
      BY <1>3, <1>5, <2>1 DEF StaysOpen
    <3> QED BY <1>6, <3>1 DEF IsOkay
  <2> QED BY <1>4, <2>1
<1>8. ASSUME NEW c \in {"OKAY", "WRTE"}, k = 1, net[x][1].cmd = c, net[x][1].arg1 = i
      PROVE  net[x][1].arg0 = j
  <2>1. PICK l \in Ids : l = net[x][1].arg0 /\ app[y][l].mate = i
    BY <1>6, <1>8
  <2>2. CASE app[y][j].mate = i
    BY <2>1, <2>2, PairFacts
  <2>3. CASE app[x][i].mate = j
    <3>1. app[x][i].mate \in {0, l} /\ j # 0
      BY <2>1, PairFacts
    <3> QED BY <2>1, <2>3, <3>1
  <2> QED BY <1>7, <2>2, <2>3
<1>9. ASSUME NEW c \in {"OKAY", "WRTE"}, NEW n \in 1..Len(o), o[n].cmd = c, o[n].arg0 = i
      PROVE  o[n].arg1 = j
  <2>1. PICK m \in Pos(y)' : net'[y][m] = o[n]
    BY <1>3, NetSaid
  <2>2. net'[y][m] \in Packet
    BY <1>1, <1>2, SMTT(30) DEF TypeOK, Pos
  <2>3. o[n].arg1 \in Ids
    BY <1>9, <2>1, <2>2, PacketFields
  <2>4. app'[x][i].mate = o[n].arg1
    BY <1>2, <1>9, <2>1 DEF MateInv, Announced
  <2>5. CASE app'[x][i].mate = j
    BY <2>4, <2>5
  <2>6. CASE app'[x][i].mate # j
    <3>1. app'[y][j].mate = i
      BY <1>3, <1>4, <2>6
    <3>2. app'[x][i].mate \in {0, j}
      <4>1. Mates' /\ i # 0
        BY PairFacts DEF MateInv
      <4> QED BY <1>2, <3>1, <4>1 DEF Mates
    <3>3. o[n].arg1 # 0
      BY <2>3, PairFacts
    <3> QED BY <2>4, <2>6, <3>2, <3>3
  <2> QED BY <2>5, <2>6
<1>10. ASSUME NEW c \in {"OKAY", "WRTE"}
       PROVE  /\ Comes(x, k, c, i) <=> Removed(net[x], k, c, j, i) = 1
              /\ Goes(o, c, i) <=> Added(o, c, i, j) = 1
  <2>1. Comes(x, k, c, i) <=> Removed(net[x], k, c, j, i) = 1
    BY <1>8 DEF Comes, Removed, One
  <2>2. Goes(o, c, i) <=> Added(o, c, i, j) = 1
    BY <1>9 DEF Goes, Added, One
  <2> QED BY <2>1, <2>2
<1> QED BY <1>7, <1>10 DEF Paired

\* An OPEN that is about to be answered: nothing is under way between its
\* sender j and the new socket i.
LEMMA NewStream ==
  ASSUME StreamInv, MateInv, NEW x \in Side, NEW j \in Ids, 1 \in Pos(x), IsOpen(net[x][1], j),
         next_id[x] \in Ids
  PROVE  /\ app[Other(x)][j].mate = 0 /\ app[x][next_id[x]].mate = 0
         /\ \A c \in {"OKAY", "WRTE"} : /\ Number(net[x], c, j, next_id[x]) = 0
                                        /\ Number(net[Other(x)], c, next_id[x], j) = 0
<1> DEFINE y == Other(x)
<1>1. TypeOK /\ Announced
  BY DEF StreamInv, TypeInv, MateInv
<1>2. y \in Side /\ Other(y) = x
  BY Sides
<1>3. PICK i \in Ids : i = next_id[x]
  OBVIOUS
<1>4. app[y][j].mate = 0
  BY <1>1 DEF IsOpen, Announced, Unasked
<1>5. app[x][i].mate = 0 /\ i # 0 /\ j # 0
  <2>1. i \in Nat /\ i >= next_id[x]
    BY <1>3, MateFacts
  <2> QED BY <2>1, MateFacts, PairFacts DEF Fresh
<1>6. ASSUME NEW c \in {"OKAY", "WRTE"} PROVE Number(net[x], c, j, i) = 0 /\ Number(net[y], c, i, j) = 0
  <2>1. PICK q, r : q = net[x] /\ r = net[y]
    OBVIOUS
  <2>2. q \in Seq(Packet) /\ r \in Seq(Packet)
    BY <1>1, <1>2, <2>1 DEF TypeOK
  <2>3. \A n \in 1..Len(q) : ~(q[n].cmd = c /\ q[n].arg0 = j /\ q[n].arg1 = i)
    BY <1>1, <1>4, <1>5, <2>1 DEF Announced, Pos
  <2>4. \A n \in 1..Len(r) : ~(r[n].cmd = c /\ r[n].arg0 = i /\ r[n].arg1 = j)
    BY <1>1, <1>2, <1>5, <2>1 DEF Announced, Pos
  <2>5. Number(q, c, j, i) = 0 /\ Number(r, c, i, j) = 0
    BY <2>2, <2>3, <2>4, NumberTyped
  <2> QED BY <2>1, <2>5
<1> QED BY <1>3, <1>4, <1>5, <1>6

\* What is counted is 0 or 1.
LEMMA Bits ==
  /\ \A s \in {0, 1} : s # 1 => s = 0
  /\ \A q, k, c, i, j : Removed(q, k, c, i, j) \in {0, 1}
  /\ \A o, c, i, j : Added(o, c, i, j) \in {0, 1}
BY DEF Removed, Added, One

\* What a side had or takes, it has or sends: r and came before the step, t
\* and went after it, with w, l, v and m in the queues and p at the other end.
LEMMA OnePermission ==
  ASSUME NEW r \in {0, 1}, NEW t \in {0, 1}, NEW p \in {0, 1}, NEW came \in {0, 1}, NEW went \in {0, 1},
         NEW w \in Nat, NEW v \in Nat, NEW l \in Nat, NEW m \in Nat,
         l = m + came, v = w + went, r + w + p + l = 1,
         r = 1 \/ came = 1 <=> t = 1 \/ went = 1, ~(t = 1 /\ went = 1)
  PROVE  t + v + p + m = 1
<1>1. ~(r = 1 /\ came = 1)
  <2> SUFFICES ASSUME r = 1, came = 1 PROVE FALSE
    OBVIOUS
  <2>1. 1 + w + p + (m + 1) = 1
    OBVIOUS
  <2>2. w >= 0 /\ p >= 0 /\ m >= 0
    OBVIOUS
  <2> QED BY <2>1, <2>2
<1>2. r + came = t + went
  <2>1. CASE r = 1
    BY <1>1, <2>1
  <2>2. CASE r = 0
    <3>1. CASE came = 1
      BY <2>2, <3>1
    <3>2. CASE came = 0
      BY <2>2, <3>2
    <3> QED BY <3>1, <3>2
  <2> QED BY <2>1, <2>2
<1>3. r + w + p + (m + came) = 1
  OBVIOUS
<1>4. t + (w + went) + p + m = 1
  BY <1>2, <1>3
<1> QED BY <1>4

\* The side that takes a step keeps Credit, ...
LEMMA OwnCredit ==
  ASSUME StreamInv, StreamInv', MateInv, MateInv', NEW x \in Side, NEW k, NEW o \in Seq(Packet),
         Ends(x, k, o), Pays(x, k, o), Credit(x), k = 1 => 1 \in Pos(x)
  PROVE  Credit(x)'
<1> DEFINE y == Other(x)
<1>1. TypeOK /\ TypeOK' /\ BacklogHasPeer
  BY DEF StreamInv, TypeInv
<1>2. y \in Side /\ Other(y) = x /\ y # x
  BY Sides
<1>3. NetMoves(x, k, o) /\ app'[y] = app[y] /\ sock'[y] = sock[y] /\ AtMostOne(o, "WRTE") /\ AtMostOne(o, "OKAY")
  BY DEF Pays
<1> SUFFICES ASSUME NEW i \in Ids, NEW j \in Ids, sock'[x][i].list = "open"
             PROVE  /\ app'[x][i].mate = 0 => "READ" \notin sock'[x][i].fde
                    /\ sock[y][j].list = "open" /\ Paired(x, i, j)' /\ app'[x][i].end = "open" =>
                         One("READ" \in sock'[x][i].fde) + Number(net'[y], "WRTE", i, j)
                            + One(sock[y][j].pkts # <<>>) + Number(net'[x], "OKAY", j, i) = 1
  BY <1>3 DEF Credit
<1>4. Passes(x, i, k, o) \/ Starts(x, i, k, o)
  BY DEF Pays
<1>5. CASE Passes(x, i, k, o)
  <2>1. sock[x][i].list = "open"
    BY <1>5 DEF Passes
  <2>2. ASSUME app'[x][i].mate = 0, "READ" \in sock'[x][i].fde PROVE FALSE
    <3>1. app[x][i].mate = 0
      BY <2>2 DEF Ends
    <3>2. "READ" \notin sock[x][i].fde
      BY <2>1, <3>1 DEF Credit
    <3>3. Comes(x, k, "OKAY", i)
      BY <1>5, <2>2, <3>2 DEF Passes
    <3>4. net[x][1] \in Packet
      BY <1>1, <3>3 DEF TypeOK, Pos, Comes
    <3>5. PICK l \in Ids : IsOkay(net[x][1], l, i)
      BY <3>3, <3>4, PacketFields DEF Comes, IsOkay
    <3>6. app'[x][i].mate = l
      BY <2>1, <3>3, <3>5 DEF Ends, Handles, Comes
    <3> QED BY <2>2, <3>6, PairFacts
  <2>3. ASSUME sock[y][j].list = "open", Paired(x, i, j)', app'[x][i].end = "open"
        PROVE  One("READ" \in sock'[x][i].fde) + Number(net'[y], "WRTE", i, j)
                  + One(sock[y][j].pkts # <<>>) + Number(net'[x], "OKAY", j, i) = 1
    <3>1. /\ Paired(x, i, j)
          /\ Comes(x, k, "OKAY", i) <=> Removed(net[x], k, "OKAY", j, i) = 1
          /\ Goes(o, "WRTE", i) <=> Added(o, "WRTE", i, j) = 1
      BY <2>1, <2>3, StreamPackets
    <3>2. /\ app[x][i].end = "open"
          /\ "READ" \in sock[x][i].fde \/ Comes(x, k, "OKAY", i) <=>
               "READ" \in sock'[x][i].fde \/ Goes(o, "WRTE", i)
          /\ ~("READ" \in sock'[x][i].fde /\ Goes(o, "WRTE", i))
      BY <1>5, <2>3 DEF Passes
    <3>3. PICK r \in {0, 1} : r = One("READ" \in sock[x][i].fde) /\ (r = 1 <=> "READ" \in sock[x][i].fde)
      BY DEF One
    <3>4. PICK t \in {0, 1} : t = One("READ" \in sock'[x][i].fde) /\ (t = 1 <=> "READ" \in sock'[x][i].fde)
      BY DEF One
    <3>5. PICK p \in {0, 1} : p = One(sock[y][j].pkts # <<>>)
      BY DEF One
    <3>6. PICK came, went : came = Removed(net[x], k, "OKAY", j, i) /\ went = Added(o, "WRTE", i, j)
      OBVIOUS
    <3>7. came \in {0, 1} /\ went \in {0, 1}
      BY <3>6, Bits
    <3>8. PICK w, v, l, m : /\ w = Number(net[y], "WRTE", i, j) /\ v = Number(net'[y], "WRTE", i, j)
                            /\ l = Number(net[x], "OKAY", j, i) /\ m = Number(net'[x], "OKAY", j, i)
      OBVIOUS
    <3>9. l = m + came /\ l \in Nat /\ m \in Nat
      <4>1. /\ Number(net[x], "OKAY", j, i) = Number(net'[x], "OKAY", j, i) + Removed(net[x], k, "OKAY", j, i)
            /\ Number(net[x], "OKAY", j, i) \in Nat /\ Number(net'[x], "OKAY", j, i) \in Nat
        BY <1>1, <1>3, QueueTaken
      <4> QED BY <3>6, <3>8, <4>1
    <3>10. v = w + went /\ v \in Nat /\ w \in Nat
      BY <1>1, <1>2, <1>3, <3>6, <3>8, QueueSent
    <3>11. r + w + p + l = 1
      BY <2>1, <2>3, <3>1, <3>2, <3>3, <3>5, <3>8 DEF Credit
    <3>12. (r = 1 \/ came = 1 <=> t = 1 \/ went = 1) /\ ~(t = 1 /\ went = 1)
      BY <3>1, <3>2, <3>3, <3>4, <3>6
    <3>13. t + v + p + m = 1
      BY <3>7, <3>9, <3>10, <3>11, <3>12, OnePermission
    <3> QED BY <3>4, <3>5, <3>8, <3>13
  <2> QED BY <2>2, <2>3
<1>6. CASE Starts(x, i, k, o)
  <2>1. i = next_id[x] /\ next_id[x] \in Nat /\ next_id[x] \in Ids
    BY <1>1, <1>6 DEF Starts, TypeOK
  <2>2. app[y][j].mate # i
    <3>1. app[y][j].mate = i => i < next_id[x]
      BY PairFacts
    <3> QED BY <2>1, <3>1
  <2>3. CASE app'[x][i].mate = 0 /\ "READ" \notin sock'[x][i].fde
    <3>1. ~Paired(x, i, j)'
      BY <1>3, <2>2, <2>3, PairFacts DEF Paired
    <3> QED BY <2>3, <3>1
  <2>4. CASE /\ k = 1 /\ IsOpen(net[x][1], app'[x][i].mate)
             /\ "READ" \in sock'[x][i].fde /\ sock'[x][i].pkts = <<>>
             /\ Goes(o, "OKAY", i) /\ \A n \in 1..Len(o) : IsOkay(o[n], i, app'[x][i].mate)
    <3>1. app'[x][i].mate # 0
      <4>1. net[x][1] \in Packet
        BY <1>1, <2>4 DEF TypeOK, Pos
      <4>2. app'[x][i].mate \in Ids
        BY <2>4, <4>1, PacketFields DEF IsOpen
      <4> QED BY <4>2, PairFacts
    <3>2. ASSUME sock[y][j].list = "open", Paired(x, i, j)'
          PROVE  One("READ" \in sock'[x][i].fde) + Number(net'[y], "WRTE", i, j)
                    + One(sock[y][j].pkts # <<>>) + Number(net'[x], "OKAY", j, i) = 1
      <4>1. app'[x][i].mate = j
        BY <1>3, <2>2, <3>2 DEF Paired
      <4>2. /\ app[y][j].mate = 0 /\ Number(net[x], "OKAY", j, i) = 0 /\ Number(net[y], "WRTE", i, j) = 0
        BY <2>1, <2>4, <4>1, NewStream
      <4>3. sock[y][j].pkts = <<>>
        <5>1. sock[y][j].peer = 0
          BY <1>2, <3>2, <4>2, MateFacts
        <5> QED BY <1>1, <1>2, <3>2, <5>1 DEF BacklogHasPeer
      <4>4. Added(o, "WRTE", i, j) = 0
        BY <2>4 DEF Added, One, IsOkay
      <4>5. PICK came, v, m : /\ came = Removed(net[x], k, "OKAY", j, i)
                              /\ v = Number(net'[y], "WRTE", i, j) /\ m = Number(net'[x], "OKAY", j, i)
        OBVIOUS
      <4>6. 0 = m + came /\ m \in Nat /\ came \in {0, 1}
        <5>1. Number(net[x], "OKAY", j, i) = m + came /\ m \in Nat
          <6>1. /\ Number(net[x], "OKAY", j, i) = Number(net'[x], "OKAY", j, i) + Removed(net[x], k, "OKAY", j, i)
                /\ Number(net'[x], "OKAY", j, i) \in Nat
            BY <1>1, <1>3, QueueTaken
          <6> QED BY <4>5, <6>1
        <5>2. came \in {0, 1}
          BY <4>5, Bits
        <5> QED BY <4>2, <5>1, <5>2
      <4>7. v = 0 + 0
        BY <1>1, <1>2, <1>3, <4>2, <4>4, <4>5, QueueSent
      <4>8. m = 0 /\ v = 0
        BY <4>6, <4>7
      <4>9. One("READ" \in sock'[x][i].fde) = 1 /\ One(sock[y][j].pkts # <<>>) = 0
        BY <2>4, <4>3 DEF One
      <4> QED BY <4>5, <4>8, <4>9
    <3> QED BY <3>1, <3>2
  <2> QED BY <1>6, <2>3, <2>4 DEF Starts
<1> QED BY <1>4, <1>5, <1>6

\* ... and so does the other.
LEMMA OtherCredit ==
  ASSUME StreamInv, StreamInv', MateInv, MateInv', NEW x \in Side, NEW k, NEW o \in Seq(Packet),
         Ends(x, k, o), Pays(x, k, o), Credit(Other(x)), k = 1 => 1 \in Pos(x)
  PROVE  Credit(Other(x))'
<1> DEFINE y == Other(x)
<1>1. TypeOK /\ TypeOK'
  BY DEF StreamInv, TypeInv
<1>2. y \in Side /\ Other(y) = x /\ y # x
  BY Sides
<1>3. NetMoves(x, k, o) /\ app'[y] = app[y] /\ sock'[y] = sock[y] /\ AtMostOne(o, "WRTE") /\ AtMostOne(o, "OKAY")
  BY DEF Pays
<1> SUFFICES ASSUME NEW j \in Ids, NEW i \in Ids, sock[y][j].list = "open"
             PROVE  /\ app[y][j].mate = 0 => "READ" \notin sock[y][j].fde
                    /\ sock'[x][i].list = "open" /\ Paired(y, j, i)' /\ app[y][j].end = "open" =>
                         One("READ" \in sock[y][j].fde) + Number(net'[x], "WRTE", j, i)
                            + One(sock'[x][i].pkts # <<>>) + Number(net'[y], "OKAY", i, j) = 1
  BY <1>2, <1>3 DEF Credit
<1>4. app[y][j].mate = 0 => "READ" \notin sock[y][j].fde
  BY DEF Credit
<1> SUFFICES ASSUME sock'[x][i].list = "open", Paired(y, j, i)', app[y][j].end = "open"
             PROVE  One("READ" \in sock[y][j].fde) + Number(net'[x], "WRTE", j, i)
                       + One(sock'[x][i].pkts # <<>>) + Number(net'[y], "OKAY", i, j) = 1
  BY <1>4
<1>5. Paired(x, i, j)'
  BY <1>2 DEF Paired
<1>6. Passes(x, i, k, o) \/ Starts(x, i, k, o)
  BY DEF Pays
<1>7. CASE Passes(x, i, k, o)
  <2>1. sock[x][i].list = "open"
    BY <1>7 DEF Passes
  <2>2. /\ Paired(x, i, j)
        /\ Comes(x, k, "WRTE", i) <=> Removed(net[x], k, "WRTE", j, i) = 1
        /\ Goes(o, "OKAY", i) <=> Added(o, "OKAY", i, j) = 1
    BY <1>5, <2>1, StreamPackets
  <2>3. /\ sock[x][i].pkts # <<>> \/ Comes(x, k, "WRTE", i) <=> sock'[x][i].pkts # <<>> \/ Goes(o, "OKAY", i)
        /\ ~(sock'[x][i].pkts # <<>> /\ Goes(o, "OKAY", i))
    BY <1>7 DEF Passes
  <2>4. PICK r \in {0, 1} : r = One(sock[x][i].pkts # <<>>) /\ (r = 1 <=> sock[x][i].pkts # <<>>)
    BY DEF One
  <2>5. PICK t \in {0, 1} : t = One(sock'[x][i].pkts # <<>>) /\ (t = 1 <=> sock'[x][i].pkts # <<>>)
    BY DEF One
  <2>6. PICK p \in {0, 1} : p = One("READ" \in sock[y][j].fde)
    BY DEF One
  <2>7. PICK came, went : came = Removed(net[x], k, "WRTE", j, i) /\ went = Added(o, "OKAY", i, j)
    OBVIOUS
  <2>8. came \in {0, 1} /\ went \in {0, 1}
    BY <2>7, Bits
  <2>9. PICK w, v, l, m : /\ w = Number(net[y], "OKAY", i, j) /\ v = Number(net'[y], "OKAY", i, j)
                          /\ l = Number(net[x], "WRTE", j, i) /\ m = Number(net'[x], "WRTE", j, i)
    OBVIOUS
  <2>10. l = m + came /\ l \in Nat /\ m \in Nat
    <3>1. /\ Number(net[x], "WRTE", j, i) = Number(net'[x], "WRTE", j, i) + Removed(net[x], k, "WRTE", j, i)
          /\ Number(net[x], "WRTE", j, i) \in Nat /\ Number(net'[x], "WRTE", j, i) \in Nat
      BY <1>1, <1>3, QueueTaken
    <3> QED BY <2>7, <2>9, <3>1
  <2>11. v = w + went /\ v \in Nat /\ w \in Nat
    BY <1>1, <1>2, <1>3, <2>7, <2>9, QueueSent
  <2>12. p + l + r + w = 1
    <3>1. Paired(y, j, i)
      BY <1>2, <2>2 DEF Paired
    <3> QED BY <1>2, <2>1, <2>4, <2>6, <2>9, <3>1 DEF Credit
  <2>13. (r = 1 \/ came = 1 <=> t = 1 \/ went = 1) /\ ~(t = 1 /\ went = 1)
    BY <2>2, <2>3, <2>4, <2>5, <2>7
  <2>14. r + w + p + l = 1
    BY <2>4, <2>6, <2>10, <2>11, <2>12
  <2>15. t + v + p + m = 1
    BY <2>8, <2>10, <2>11, <2>13, <2>14, OnePermission
  <2>16. p + m + t + v = 1
    BY <2>5, <2>6, <2>10, <2>11, <2>15
  <2> QED BY <2>5, <2>6, <2>9, <2>16
<1>8. CASE Starts(x, i, k, o)
  <2>1. i = next_id[x] /\ next_id[x] \in Nat /\ next_id[x] \in Ids
    BY <1>1, <1>8 DEF Starts, TypeOK
  <2>2. app[y][j].mate # i
    <3>1. app[y][j].mate = i => i < next_id[x]
      BY PairFacts
    <3> QED BY <2>1, <3>1
  <2>3. app'[x][i].mate = j /\ j # 0
    BY <1>3, <1>5, <2>2, PairFacts DEF Paired
  <2>4. /\ k = 1 /\ IsOpen(net[x][1], j)
        /\ sock'[x][i].pkts = <<>> /\ Goes(o, "OKAY", i) /\ \A n \in 1..Len(o) : IsOkay(o[n], i, j)
    BY <1>8, <2>3 DEF Starts
  <2>5. app[y][j].mate = 0 /\ Number(net[x], "WRTE", j, i) = 0 /\ Number(net[y], "OKAY", i, j) = 0
    BY <2>1, <2>4, NewStream
  <2>6. One("READ" \in sock[y][j].fde) = 0 /\ One(sock'[x][i].pkts # <<>>) = 0
    BY <1>4, <2>4, <2>5 DEF One
  <2>7. Added(o, "OKAY", i, j) = 1
    BY <2>4 DEF Added, One, Goes, IsOkay
  <2>8. PICK came, v, m : /\ came = Removed(net[x], k, "WRTE", j, i)
                          /\ v = Number(net'[y], "OKAY", i, j) /\ m = Number(net'[x], "WRTE", j, i)
    OBVIOUS
  <2>9. 0 = m + came /\ m \in Nat /\ came \in {0, 1}
    <3>1. Number(net[x], "WRTE", j, i) = m + came /\ m \in Nat
      <4>1. /\ Number(net[x], "WRTE", j, i) = Number(net'[x], "WRTE", j, i) + Removed(net[x], k, "WRTE", j, i)
            /\ Number(net'[x], "WRTE", j, i) \in Nat
        BY <1>1, <1>3, QueueTaken
      <4> QED BY <2>8, <4>1
    <3>2. came \in {0, 1}
      BY <2>8, Bits
    <3> QED BY <2>5, <3>1, <3>2
  <2>10. v = 0 + 1
    BY <1>1, <1>2, <1>3, <2>5, <2>7, <2>8, QueueSent
  <2>11. m = 0 /\ v = 1
    BY <2>9, <2>10
  <2> QED BY <2>6, <2>8, <2>11
<1> QED BY <1>6, <1>7, <1>8

-----------------------------------------------------------------------------
(* Every step of one side *)

Served(x, k, o) ==
  o \in Seq(Packet) /\ (k = 1 => 1 \in Pos(x)) /\ Hails(x, k, o) /\ Ends(x, k, o) /\ Pays(x, k, o)

\* A socket that a step leaves alone passes nothing on.
LEMMA SamePasses ==
  ASSUME NEW x, NEW i, NEW k, NEW o, sock'[x][i] = sock[x][i], app'[x][i] = app[x][i], sock[x][i].list = "open",
         ~Comes(x, k, "OKAY", i), ~Comes(x, k, "WRTE", i), ~Goes(o, "OKAY", i), ~Goes(o, "WRTE", i)
  PROVE  Passes(x, i, k, o)
BY DEF Passes

\* A step of one socket, ...
LEMMA TalkServed ==
  ASSUME StreamInv, StreamInv', MateInv, link = "up", NEW x \in Side, NEW i \in Ids, SocketStep(x, i)
  PROVE  \E k, o : Served(x, k, o)
<1> DEFINE y == Other(x)
<1>1. TypeOK /\ TypeOK'
  BY DEF StreamInv, TypeInv
<1>2. PICK r, out, d, e : Talks(x, i, r, out, d, e)
  BY DEF SocketStep
<1>3. /\ net' = Send(r, x, out) /\ out \in Seq(Packet) /\ Takes(x, i, r, e)
      /\ \A l \in Ids \ {i} : sock'[x][l] = sock[x][l] /\ app'[x][l] = app[x][l]
      /\ sock'[y] = sock[y] /\ app'[y] = app[y] /\ UNCHANGED <<next_id, online, link>>
      /\ TalkOut(sock[x][i], sock'[x][i], i, out, d) /\ Lives(x, i, r)
      /\ Credited(sock[x][i], sock'[x][i], app'[x][i], out, d, Took(x, r))
  BY <1>2 DEF Talks, Frame
<1>4. r = net \/ (net[x] # <<>> /\ r = Rest(x))
  BY <1>3 DEF Takes, Receive
<1>5. Sent(out) = out
  BY DEF Sent
<1>6. PICK k \in {0, 1} : NetMoves(x, k, out) /\ Taken(x, k, r)
  BY <1>1, <1>3, <1>4, <1>5, NetMoved
<1>7. \A n \in 1..Len(out) :
        /\ out[n].cmd \in {"OKAY", "WRTE", "CLSE"} /\ out[n].arg0 = i /\ out[n].arg1 = sock[x][i].peer
        /\ sock[x][i].list = "open" /\ (out[n].cmd = "WRTE" => d # <<>>)
  BY <1>3 DEF TalkOut
<1>8. sock[x][i].list = "open" => sock[x][i].peer = app[x][i].mate /\ online[x]
  BY MateFacts
<1>9. ASSUME k = 1
      PROVE  /\ 1 \in Pos(x) /\ online[x] /\ net[x][1].arg1 = i
             /\ \/ net[x][1].cmd = "WRTE" /\ Took(x, r) = "WRTE"
                \/ net[x][1].cmd = "CLSE" /\ Took(x, r) # "WRTE" /\ sock'[x][i].list # "open"
  <2>1. r = Rest(x) /\ net[x] # <<>> /\ Head(net[x]) = net[x][1] /\ 1 \in Pos(x)
    BY <1>6, <1>9 DEF Taken
  <2>2. r # net
    BY <1>1, <2>1, RestDiffers
  <2>3. \/ net[x][1].cmd = "WRTE" /\ net[x][1].arg1 = i /\ online[x]
        \/ net[x][1].cmd = "CLSE" /\ net[x][1].arg1 = i /\ online[x] /\ sock'[x][i].list # "open"
    BY <1>3, <2>1, <2>2 DEF Takes, Receive
  <2> QED BY <2>1, <2>3 DEF Took, Receive
<1>10. k = 0 => Took(x, r) # "WRTE"
  BY <1>6 DEF Taken, Took, Receive
<1>11. /\ \/ sock'[x][i].list = sock[x][i].list
          \/ sock'[x][i].list \in {"closing", "none"}
       /\ app'[x][i].mate = app[x][i].mate
       /\ app[x][i].end # "open" => app'[x][i].end # "open"
  BY <1>3 DEF Lives
<1>12. \A l \in Ids : app'[x][l].mate = app[x][l].mate
  BY <1>3, <1>11
<1>13. Hails(x, k, out)
  <2>1. \A n \in 1..Len(out) : out[n].cmd # "SYNC" /\ out[n].cmd # "CNXN"
    BY <1>7
  <2>2. k = 1 => net[x][1].cmd # "CNXN"
    BY <1>9
  <2>3. online[x] \/ (k = 0 /\ Len(out) = 0)
    <3> SUFFICES ASSUME ~online[x] PROVE k = 0 /\ Len(out) = 0
      OBVIOUS
    <3>1. k = 0
      BY <1>6, <1>9
    <3>2. Len(out) \in Nat
      BY <1>3
    <3>3. ASSUME Len(out) # 0 PROVE FALSE
      <4>1. 1 \in 1..Len(out)
        BY <3>2, <3>3
      <4> QED BY <1>7, <1>8, <4>1
    <3> QED BY <3>1, <3>3
  <2> QED BY <1>3, <1>6, <2>1, <2>2, <2>3 DEF Hails
<1>14. Ends(x, k, out)
  <2>1. \A l \in Ids : sock'[x][l].list = "open" => StaysOpen(x, l, k, out)
    BY <1>3, <1>11, <1>12 DEF StaysOpen
  <2>2. k = 1 => Handles(x, out)
    BY <1>9 DEF Handles, IsClse, IsOkay, IsOpen
  <2>3. \A l \in Ids : sock[x][l].list = "open" /\ sock'[x][l].list # "open" =>
          app[x][l].mate = 0 \/ \E n \in 1..Len(out) : IsClse(out[n], l, app[x][l].mate)
    <3> SUFFICES ASSUME NEW l \in Ids, sock[x][l].list = "open", sock'[x][l].list # "open", app[x][l].mate # 0
                 PROVE  \E n \in 1..Len(out) : IsClse(out[n], l, app[x][l].mate)
      OBVIOUS
    <3>1. l = i
      BY <1>3
    <3>2. PICK n \in 1..Len(out) : out[n].cmd = "CLSE"
      BY <1>3, <1>8, <3>1 DEF TalkOut
    <3> QED BY <1>7, <1>8, <3>1, <3>2 DEF IsClse
  <2>4. \A n \in 1..Len(out), l, j \in Ids : IsClse(out[n], l, j) => app[x][l].mate = j
    BY <1>7, <1>8 DEF IsClse
  <2> QED BY <1>3, <1>6, <1>12, <2>1, <2>2, <2>3, <2>4 DEF Ends
<1>15. Pays(x, k, out)
  <2>1. AtMostOne(out, "WRTE") /\ AtMostOne(out, "OKAY")
    BY <1>3 DEF TalkOut, Credited, AtMostOne
  <2>2. \A l \in Ids : ~Comes(x, k, "OKAY", l)
    BY <1>9 DEF Comes
  <2>3. ASSUME NEW l \in Ids, l # i, sock'[x][l].list = "open" PROVE Passes(x, l, k, out)
    <3>1. ~Comes(x, k, "WRTE", l)
      BY <1>9, <2>3 DEF Comes
    <3>2. ~Goes(out, "OKAY", l) /\ ~Goes(out, "WRTE", l)
      BY <1>7, <2>3 DEF Goes
    <3>3. sock'[x][l] = sock[x][l] /\ app'[x][l] = app[x][l]
      BY <1>3, <2>3
    <3> QED BY <2>2, <2>3, <3>1, <3>2, <3>3, SamePasses
  <2>4. ASSUME sock'[x][i].list = "open" PROVE Passes(x, i, k, out)
    <3>1. sock[x][i].list = "open"
      BY <1>11, <2>4
    <3>2. Comes(x, k, "WRTE", i) <=> Took(x, r) = "WRTE"
      BY <1>6, <1>9, <1>10 DEF Comes
    <3>3. Goes(out, "WRTE", i) <=> d # <<>>
      BY <1>3, <1>7 DEF Goes, TalkOut
    <3>4. Goes(out, "OKAY", i) <=> HasOkay(out)
      BY <1>7 DEF Goes, HasOkay
    <3>5. /\ "READ" \in sock'[x][i].fde => "READ" \in sock[x][i].fde
          /\ app'[x][i].end = "open" =>
               /\ "READ" \in sock[x][i].fde <=> "READ" \in sock'[x][i].fde \/ d # <<>>
               /\ ~("READ" \in sock'[x][i].fde /\ d # <<>>)
          /\ ~(sock'[x][i].pkts # <<>> /\ HasOkay(out))
          /\ sock[x][i].pkts # <<>> \/ Took(x, r) = "WRTE" <=> sock'[x][i].pkts # <<>> \/ HasOkay(out)
      BY <1>3, <2>4 DEF Credited
    <3> QED BY <1>11, <2>2, <3>1, <3>2, <3>3, <3>4, <3>5 DEF Passes
  <2> QED BY <1>3, <1>6, <2>1, <2>3, <2>4 DEF Pays
<1>16. Served(x, k, out)
  BY <1>3, <1>9, <1>13, <1>14, <1>15 DEF Served
<1> QED BY <1>16

\* ... a packet that changes no socket, ...
LEMMA IgnoredServed ==
  ASSUME StreamInv, StreamInv', MateInv, link = "up", NEW x \in Side, Flow(x), Greeting, NEW out, Ignored(x, out)
  PROVE  Served(x, 1, out)
<1>1. TypeOK
  BY DEF StreamInv, TypeInv
<1>2. net[x] # <<>> /\ net' = Send(Rest(x), x, out) /\ sock' = sock /\ app' = app /\ online' = online
  BY DEF Ignored
<1>3. out \in Seq(Packet) /\ Sent(out) = out
  BY IgnoredKept DEF Sent
<1>4. NetMoves(x, 1, out) /\ 1 \in Pos(x) /\ Head(net[x]) = net[x][1] /\ Head(net[x]) \in Packet
  BY <1>1, <1>2, <1>3, HeadTaken
<1>5. PICK p : p = net[x][1] /\ p = Head(net[x]) /\ p \in Packet
  BY <1>4
<1>6. \/ p.cmd = "OPEN" /\ ((out = <<>> /\ ~online[x]) \/ out = <<Clse(0, p.arg0)>>)
      \/ /\ p.cmd = "OKAY" /\ ~Answers(x, p)
         /\ \/ out = <<>> /\ (online[x] => sock[x][p.arg1].list = "open")
            \/ out = <<Clse(p.arg1, p.arg0)>> /\ sock[x][p.arg1].list # "open"
      \/ p.cmd \in {"CLSE", "WRTE"} /\ out = <<>> /\ ~(online[x] /\ Found(x, p.arg1, p.arg0))
  BY <1>5 DEF Ignored
<1>7. p.cmd \notin {"CNXN", "SYNC"}
  BY <1>6
<1>8. online[x]
  BY <1>1, <1>4, <1>5, <1>7, HeadOnline
<1>9. p.cmd = "OKAY" => sock[x][p.arg1].list # "open"
  BY <1>4, <1>5, <1>6, HeadAnswers
<1>10. p.cmd = "WRTE" => sock[x][p.arg1].list # "open"
  BY <1>4, <1>5, <1>6, HeadDelivered
<1>11. /\ p.cmd = "OPEN" => out = <<Clse(0, p.arg0)>>
       /\ p.cmd = "OKAY" => out = <<Clse(p.arg1, p.arg0)>>
       /\ p.cmd \notin {"OPEN", "OKAY"} => out = <<>>
  BY <1>6, <1>8, <1>9
<1>12. /\ p.cmd = "OPEN" => Len(out) = 1 /\ IsClse(out[1], 0, p.arg0)
       /\ p.cmd = "OKAY" => Len(out) = 1 /\ IsClse(out[1], p.arg1, p.arg0)
       /\ p.cmd \notin {"OPEN", "OKAY"} => Len(out) = 0
  <2>1. ASSUME NEW a, NEW b, out = <<Clse(a, b)>> PROVE Len(out) = 1 /\ IsClse(out[1], a, b)
    <3>1. PICK q : q = Clse(a, b)
      OBVIOUS
    <3>2. out = <<q>>
      BY <2>1, <3>1
    <3>3. Len(out) = 1 /\ out[1] = q
      BY <3>2
    <3> QED BY <3>1, <3>3 DEF Clse, IsClse
  <2>2. out = <<>> => Len(out) = 0
    OBVIOUS
  <2> QED BY <1>11, <2>1, <2>2
<1>13. \A n \in 1..Len(out) : n = 1 /\ out[n].cmd = "CLSE" /\ p.cmd \in {"OPEN", "OKAY"}
  <2>1. CASE p.cmd \in {"OPEN", "OKAY"}
    <3>1. Len(out) = 1 /\ out[1].cmd = "CLSE"
      BY <1>12, <2>1 DEF IsClse
    <3> QED BY <2>1, <3>1
  <2>2. CASE p.cmd \notin {"OPEN", "OKAY"}
    <3>1. Len(out) = 0
      BY <1>12, <2>2
    <3> QED BY <3>1
  <2> QED BY <2>1, <2>2
<1>14. Hails(x, 1, out)
  BY <1>2, <1>4, <1>5, <1>7, <1>8, <1>13 DEF Hails
<1>15. Ends(x, 1, out)
  <2>1. \A i \in Ids : sock'[x][i].list = "open" => StaysOpen(x, i, 1, out)
    BY <1>2 DEF StaysOpen
  <2>2. ASSUME NEW i \in Ids, NEW j \in Ids \cup {0}, IsClse(p, j, i), sock[x][i].list = "open",
               j = 0 \/ app[x][i].mate = j
        PROVE  FALSE
    <3>1. ~Found(x, i, j)
      BY <1>6, <1>8, <2>2 DEF IsClse
    <3>2. sock[x][i].peer = app[x][i].mate
      BY <2>2, MateFacts
    <3> QED BY <2>2, <3>1, <3>2 DEF Found
  <2>3. \A i \in Ids, j \in Ids \cup {0} : IsOkay(p, j, i) =>
          sock[x][i].list # "open" /\ \E n \in 1..Len(out) : IsClse(out[n], i, j)
    <3> SUFFICES ASSUME NEW i \in Ids, NEW j \in Ids \cup {0}, IsOkay(p, j, i)
                 PROVE  sock[x][i].list # "open" /\ \E n \in 1..Len(out) : IsClse(out[n], i, j)
      OBVIOUS
    <3>1. p.cmd = "OKAY" /\ p.arg0 = j /\ p.arg1 = i
      BY DEF IsOkay
    <3>2. Len(out) = 1 /\ IsClse(out[1], i, j)
      BY <1>12, <3>1
    <3>3. 1 \in 1..Len(out)
      BY <3>2
    <3> QED BY <1>9, <3>1, <3>2, <3>3
  <2>4. \A j \in Ids : IsOpen(p, j) => \E n \in 1..Len(out) : IsClse(out[n], 0, j)
    BY <1>12 DEF IsOpen
  <2>5. Handles(x, out)
    BY <1>5, <2>2, <2>3, <2>4 DEF Handles
  <2>6. ASSUME NEW n \in 1..Len(out), NEW i \in Ids, NEW j \in Ids, IsClse(out[n], i, j)
        PROVE  IsOkay(net[x][1], j, i)
    <3>1. i # 0
      BY PairFacts
    <3> QED BY <1>5, <1>12, <1>13, <2>6, <3>1 DEF IsClse, IsOkay
  <2> QED BY <1>2, <1>4, <2>1, <2>5, <2>6 DEF Ends
<1>16. Pays(x, 1, out)
  <2>1. AtMostOne(out, "WRTE") /\ AtMostOne(out, "OKAY")
    BY <1>13 DEF AtMostOne
  <2>2. ASSUME NEW i \in Ids, sock[x][i].list = "open" PROVE Passes(x, i, 1, out)
    <3>1. ~Goes(out, "OKAY", i) /\ ~Goes(out, "WRTE", i)
      BY <1>13 DEF Goes
    <3>2. ~Comes(x, 1, "OKAY", i) /\ ~Comes(x, 1, "WRTE", i)
      BY <1>5, <1>9, <1>10, <2>2 DEF Comes
    <3> QED BY <1>2, <2>2, <3>1, <3>2, SamePasses
  <2> QED BY <1>2, <1>4, <2>1, <2>2 DEF Pays
<1> QED BY <1>3, <1>4, <1>14, <1>15, <1>16 DEF Served

\* ... a CNXN, ...
LEMMA ResetServed ==
  ASSUME StreamInv, StreamInv', MateInv, link = "up", NEW x \in Side, Greeting, NEW out, Reset(x, out)
  PROVE  Served(x, 1, out)
<1> DEFINE y == Other(x)
<1>1. TypeOK
  BY DEF StreamInv, TypeInv
<1>2. net[x] # <<>> /\ net' = Send(Rest(x), x, out) /\ app' = app /\ out \in Seq(Packet) /\ Sent(out) = out
  BY DEF Reset, Sent
<1>3. NetMoves(x, 1, out) /\ 1 \in Pos(x) /\ Head(net[x]) = net[x][1]
  BY <1>1, <1>2, HeadTaken
<1>4. net[x][1].cmd = "CNXN" /\ ~online[x]
  BY <1>3 DEF Reset, Greeting
<1>5. /\ sock' = sock /\ Len(out) = (IF x = "device" THEN 1 ELSE 0) /\ (x = "device" => out[1] = Cnxn)
      /\ online' = [online EXCEPT ![x] = TRUE]
  BY <1>3, <1>4 DEF Reset
<1>6. online'[x] /\ online'[y] = online[y]
  <2>1. online \in [Side -> BOOLEAN] /\ y \in Side /\ y # x
    BY <1>1, Sides DEF TypeOK
  <2> QED BY <1>5, <2>1
<1>7. \A n \in 1..Len(out) : n = 1 /\ out[n].cmd = "CNXN"
  <2>1. Cnxn.cmd = "CNXN"
    BY DEF Cnxn
  <2>2. CASE x = "device"
    BY <1>5, <2>1, <2>2
  <2>3. CASE x # "device"
    BY <1>5, <2>3
  <2> QED BY <2>2, <2>3
<1>8. \A i \in Ids : sock[x][i].list # "open"
  BY <1>4, MateFacts
<1>9. Hails(x, 1, out)
  BY <1>3, <1>4, <1>5, <1>6, <1>7 DEF Hails
<1>10. Ends(x, 1, out)
  <2>1. Handles(x, out)
    BY <1>4 DEF Handles, IsClse, IsOkay, IsOpen
  <2>2. \A n \in 1..Len(out), i, j \in Ids : ~IsClse(out[n], i, j)
    BY <1>7 DEF IsClse
  <2> QED BY <1>2, <1>3, <1>5, <1>8, <2>1, <2>2 DEF Ends
<1>11. Pays(x, 1, out)
  BY <1>2, <1>3, <1>5, <1>7, <1>8 DEF Pays, AtMostOne
<1> QED BY <1>2, <1>3, <1>9, <1>10, <1>11 DEF Served

\* ... an OKAY, ...
LEMMA OkayedServed ==
  ASSUME StreamInv, StreamInv', MateInv, link = "up", NEW x \in Side, NEW p, Okayed(x, p)
  PROVE  \E o : Served(x, 1, o)
<1> DEFINE y == Other(x)
<1>1. TypeOK
  BY DEF StreamInv, TypeInv
<1>2. PICK i, j, o : i = p.arg1 /\ j = p.arg0 /\ o = <<>>
  OBVIOUS
<1>3. /\ net[x] # <<>> /\ p = Head(net[x]) /\ p \in Packet /\ p.cmd = "OKAY"
      /\ i \in Ids /\ j \in Ids /\ net' = Send(Rest(x), x, o)
      /\ online[x] /\ sock[x][i].list = "open" /\ sock[x][i].peer \in {0, j}
  BY <1>2 DEF Okayed, Receive, Answers, Found
<1>4. /\ \A l \in Ids \ {i} : sock'[x][l] = sock[x][l] /\ app'[x][l] = app[x][l]
      /\ sock'[y] = sock[y] /\ app'[y] = app[y] /\ UNCHANGED <<next_id, online, link>>
  BY <1>2 DEF Okayed, Frame
<1>5. /\ sock'[x][i].list = "open" /\ sock'[x][i].pkts = sock[x][i].pkts /\ "READ" \in sock'[x][i].fde
      /\ app'[x][i].mate = j /\ app'[x][i].end = app[x][i].end
  BY <1>2, <1>3 DEF Okayed
<1>6. o \in Seq(Packet) /\ Len(o) = 0 /\ Sent(o) = o
  BY <1>2 DEF Sent
<1>7. NetMoves(x, 1, o) /\ 1 \in Pos(x) /\ p = net[x][1]
  BY <1>1, <1>3, <1>6, HeadTaken
<1>8. app[x][i].mate \in {0, j} /\ (\A n \in 1..Len(o) : FALSE)
  BY <1>3, <1>6, MateFacts
<1>9. Hails(x, 1, o)
  BY <1>3, <1>4, <1>7, <1>8 DEF Hails
<1>10. Ends(x, 1, o)
  <2>1. IsOkay(net[x][1], j, i)
    BY <1>2, <1>3, <1>7 DEF IsOkay
  <2>2. StaysOpen(x, i, 1, o)
    BY <1>3, <1>5, <1>8, <2>1 DEF StaysOpen
  <2>3. \A l \in Ids : sock'[x][l].list = "open" => StaysOpen(x, l, 1, o)
    <3>1. \A l \in Ids \ {i} : sock'[x][l].list = "open" => StaysOpen(x, l, 1, o)
      BY <1>4 DEF StaysOpen
    <3> QED BY <2>2, <3>1
  <2>4. Handles(x, o)
    BY <1>2, <1>3, <1>5, <1>7, SMTT(30) DEF Handles, IsClse, IsOkay, IsOpen
  <2>5. \A l \in Ids : \/ app'[x][l].mate = app[x][l].mate
                       \/ app[x][l].mate = 0 /\ sock'[x][l].list = "open"
    BY <1>4, <1>5, <1>8
  <2>6. \A l \in Ids : sock[x][l].list = "open" => sock'[x][l].list = "open"
    BY <1>4, <1>5
  <2> QED BY <1>4, <1>7, <1>8, <2>3, <2>4, <2>5, <2>6 DEF Ends
<1>11. Pays(x, 1, o)
  <2>1. \A l \in Ids : ~Goes(o, "OKAY", l) /\ ~Goes(o, "WRTE", l)
    BY <1>8 DEF Goes
  <2>2. /\ Comes(x, 1, "OKAY", i) /\ ~Comes(x, 1, "WRTE", i)
        /\ \A l \in Ids \ {i} : ~Comes(x, 1, "OKAY", l) /\ ~Comes(x, 1, "WRTE", l)
    BY <1>2, <1>3, <1>7 DEF Comes
  <2>3. Passes(x, i, 1, o)
    BY <1>3, <1>5, <2>1, <2>2 DEF Passes
  <2>4. \A l \in Ids \ {i} : sock'[x][l].list = "open" => Passes(x, l, 1, o)
    <3> TAKE l \in Ids \ {i}
    <3> HAVE sock'[x][l].list = "open"
    <3>1. sock'[x][l] = sock[x][l] /\ app'[x][l] = app[x][l]
      BY <1>4
    <3> QED BY <2>1, <2>2, <3>1, SamePasses
  <2>5. AtMostOne(o, "WRTE") /\ AtMostOne(o, "OKAY")
    BY <1>8 DEF AtMostOne
  <2> QED BY <1>4, <1>7, <2>3, <2>4, <2>5 DEF Pays
<1>12. Served(x, 1, o)
  BY <1>6, <1>7, <1>9, <1>10, <1>11 DEF Served
<1> QED BY <1>12

\* ... a new socket, for a client or for an OPEN.
LEMMA CreatedServed ==
  ASSUME StreamInv, StreamInv', MateInv, link = "up", NEW x \in Side, NEW s, NEW a, Created(x, s, a), s.list = "open",
         NEW k, NEW o \in Seq(Packet), NetMoves(x, k, o), Len(o) = 1, o[1].arg0 = next_id[x],
         \/ k = 0 /\ o[1].cmd = "OPEN" /\ a.mate = 0 /\ "READ" \notin s.fde
         \/ /\ k = 1 /\ 1 \in Pos(x) /\ IsOpen(net[x][1], a.mate) /\ IsOkay(o[1], next_id[x], a.mate)
            /\ "READ" \in s.fde /\ s.pkts = <<>>
  PROVE  Served(x, k, o)
<1> DEFINE y == Other(x)
<1>1. TypeOK
  BY DEF StreamInv, TypeInv
<1>2. PICK i : i = next_id[x]
  OBVIOUS
<1>3. /\ i \in Ids
      /\ sock' = [sock EXCEPT ![x][i] = s] /\ app' = [app EXCEPT ![x][i] = a]
      /\ UNCHANGED <<online, link>> /\ online[x]
  BY <1>2 DEF Created
<1>4. y \in Side /\ y # x
  BY Sides
<1>5. /\ \A l \in Ids : l # i => sock'[x][l] = sock[x][l] /\ app'[x][l] = app[x][l]
      /\ sock'[x][i] = s /\ app'[x][i] = a /\ sock'[y] = sock[y] /\ app'[y] = app[y]
  BY <1>1, <1>3, <1>4 DEF TypeOK
<1>6. app[x][i].mate = 0
  <2>1. i \in Nat /\ i >= next_id[x]
    BY <1>2, <1>3, MateFacts
  <2> QED BY <1>3, <2>1, MateFacts DEF Fresh
<1>7. \A n \in 1..Len(o) : n = 1
  OBVIOUS
<1>8. o[1].cmd \in {"OPEN", "OKAY"} /\ (k = 1 => 1 \in Pos(x) /\ net[x][1].cmd = "OPEN")
  BY DEF IsOpen, IsOkay
<1>9. \A n \in 1..Len(o) : o[n].cmd \in {"OPEN", "OKAY"} /\ o[n].arg0 = i
  BY <1>2, <1>7, <1>8
<1>10. Hails(x, k, o)
  BY <1>3, <1>8, <1>9 DEF Hails
<1>11. StaysOpen(x, i, k, o)
  <2>1. 1 \in 1..Len(o)
    OBVIOUS
  <2>2. CASE k = 0 /\ o[1].cmd = "OPEN" /\ a.mate = 0
    <3>1. IsOpen(o[1], i)
      BY <1>2, <2>2 DEF IsOpen
    <3> QED BY <1>2, <1>5, <2>1, <2>2, <3>1 DEF StaysOpen
  <2>3. CASE k = 1 /\ IsOpen(net[x][1], a.mate) /\ IsOkay(o[1], next_id[x], a.mate)
    BY <1>2, <1>5, <2>1, <2>3 DEF StaysOpen
  <2> QED BY <2>2, <2>3
<1>12. Ends(x, k, o)
  <2>1. \A l \in Ids : sock'[x][l].list = "open" => StaysOpen(x, l, k, o)
    <3>1. \A l \in Ids : l # i /\ sock'[x][l].list = "open" => StaysOpen(x, l, k, o)
      BY <1>5 DEF StaysOpen
    <3> QED BY <1>11, <3>1
  <2>2. ASSUME k = 1 PROVE Handles(x, o)
    <3>1. IsOpen(net[x][1], a.mate)
      BY <2>2
    <3>2. \A j \in Ids : IsOpen(net[x][1], j) => app'[x][i].mate = j
      BY <1>5, <3>1 DEF IsOpen
    <3> QED BY <1>3, <1>8, <2>2, <3>2 DEF Handles, IsClse, IsOkay
  <2>3. \A l \in Ids : \/ app'[x][l].mate = app[x][l].mate
                       \/ app[x][l].mate = 0 /\ sock'[x][l].list = "open"
    BY <1>5, <1>6
  <2>4. \A l \in Ids : sock[x][l].list = "open" => sock'[x][l].list = "open"
    BY <1>5
  <2>5. \A n \in 1..Len(o), l, j \in Ids : ~IsClse(o[n], l, j)
    BY <1>9 DEF IsClse
  <2> QED BY <1>5, <2>1, <2>2, <2>3, <2>4, <2>5 DEF Ends
<1>13. Pays(x, k, o)
  <2>1. AtMostOne(o, "WRTE") /\ AtMostOne(o, "OKAY")
    BY <1>7 DEF AtMostOne
  <2>2. ASSUME NEW l \in Ids, l # i, sock'[x][l].list = "open" PROVE Passes(x, l, k, o)
    <3>1. ~Goes(o, "OKAY", l) /\ ~Goes(o, "WRTE", l)
      BY <1>9, <2>2 DEF Goes
    <3>2. ~Comes(x, k, "OKAY", l) /\ ~Comes(x, k, "WRTE", l)
      BY <1>8 DEF Comes
    <3>3. sock'[x][l] = sock[x][l] /\ app'[x][l] = app[x][l]
      BY <1>5, <2>2
    <3> QED BY <2>2, <3>1, <3>2, <3>3, SamePasses
  <2>3. Starts(x, i, k, o)
    <3>1. CASE a.mate = 0 /\ "READ" \notin s.fde
      BY <1>2, <1>5, <3>1 DEF Starts
    <3>2. CASE /\ k = 1 /\ IsOpen(net[x][1], a.mate) /\ IsOkay(o[1], next_id[x], a.mate)
               /\ "READ" \in s.fde /\ s.pkts = <<>>
      <4>1. \A n \in 1..Len(o) : IsOkay(o[n], i, a.mate)
        BY <1>2, <1>7, <3>2
      <4>2. Goes(o, "OKAY", i)
        BY <1>2, <3>2 DEF Goes, IsOkay
      <4> QED BY <1>2, <1>5, <3>2, <4>1, <4>2 DEF Starts
    <3> QED BY <3>1, <3>2
  <2> QED BY <1>5, <2>1, <2>2, <2>3 DEF Pays
<1> QED BY <1>8, <1>10, <1>12, <1>13 DEF Served

LEMMA SideServed ==
  ASSUME StreamInv, StreamInv', MateInv, gen = 0, link = "up", NEW x \in Side, Flow(x), Greeting, SideStep(x)
  PROVE  \E k, o : Served(x, k, o)
<1>1. TypeOK
  BY DEF StreamInv, TypeInv
<1>2. ASSUME NEW i \in Ids, SocketStep(x, i) PROVE \E k, o : Served(x, k, o)
  BY <1>2, TalkServed
<1>3. ASSUME NEW out, Ignored(x, out) \/ Reset(x, out) PROVE \E k, o : Served(x, k, o)
  <2>1. Served(x, 1, out)
    BY <1>3, IgnoredServed, ResetServed
  <2> QED BY <2>1
<1>4. ASSUME NEW p, Accepted(x, p) PROVE \E k, o : Served(x, k, o)
  <2>1. PICK s, a, q, out : /\ s = [list |-> "open", peer |-> p.arg0, fde |-> {"READ"}, pkts |-> <<>>]
                            /\ a = NewApp(p.gen, p.arg0) /\ q = Okay(next_id[x], p.arg0) /\ out = <<q>>
    OBVIOUS
  <2>2. /\ net[x] # <<>> /\ Created(x, s, a) /\ net' = Send(Rest(x), x, out)
        /\ next_id[x] \in Ids /\ p.arg0 \in Ids /\ p = Head(net[x]) /\ p.cmd = "OPEN"
    BY <1>4, <2>1 DEF Accepted, Receive, Created
  <2>3. /\ q \in Packet /\ IsOkay(q, next_id[x], p.arg0) /\ q.arg0 = next_id[x]
        /\ s.list = "open" /\ "READ" \in s.fde /\ s.pkts = <<>> /\ a.mate = p.arg0
    BY <2>1, <2>2, PacketsMade DEF Okay, NewApp, IsOkay
  <2>4. out \in Seq(Packet) /\ Sent(out) = out /\ Len(out) = 1 /\ out[1] = q
    BY <2>1, <2>3 DEF Sent
  <2>5. NetMoves(x, 1, out) /\ 1 \in Pos(x) /\ p = net[x][1]
    BY <1>1, <2>2, <2>4, HeadTaken
  <2>6. PICK k : k = 1
    OBVIOUS
  <2>7. IsOpen(net[x][1], a.mate)
    BY <2>2, <2>3, <2>5 DEF IsOpen
  <2>8. Served(x, k, out)
    BY <2>2, <2>3, <2>4, <2>5, <2>6, <2>7, CreatedServed
  <2> QED BY <2>8
<1>5. ASSUME NEW p, Okayed(x, p) PROVE \E k, o : Served(x, k, o)
  BY <1>5, OkayedServed
<1>6. ASSUME Connected(x) PROVE \E k, o : Served(x, k, o)
  <2>1. PICK out \in Seq(Packet) : out = <<Open(next_id[x])>> /\ NetMoves(x, 0, Sent(out))
    BY <1>6, ConnectedQuiet
  <2>2. PICK s, a, q : /\ s = [NoSocket EXCEPT !.list = "open"] /\ a = NewApp(gen, 0) /\ q = Open(next_id[x])
    OBVIOUS
  <2>3. /\ Created(x, s, a) /\ s.list = "open" /\ "READ" \notin s.fde /\ a.mate = 0
        /\ q.cmd = "OPEN" /\ q.arg0 = next_id[x]
    BY <1>6, <2>2 DEF Connected, NoSocket, Open, NewApp
  <2>4. Len(out) = 1 /\ out[1] = q
    BY <2>1, <2>2
  <2>5. PICK k : k = 0
    OBVIOUS
  <2>6. NetMoves(x, k, out)
    BY <2>1, <2>5 DEF Sent
  <2>7. Served(x, k, out)
    BY <2>1, <2>3, <2>4, <2>5, <2>6, CreatedServed
  <2> QED BY <2>7
<1> QED BY <1>2, <1>3, <1>4, <1>5, <1>6 DEF SideStep

-----------------------------------------------------------------------------
(* The invariant of the two ends *)

PairsKnown == Greeting /\ \A x \in Side : BothEnds(x) /\ Credit(x)
PairInv == SessionInv /\ (gen = 0 /\ link = "up" => PairsKnown)

\* A new wire: the CNXN of the server is under way and no socket is open.
NewWire ==
  /\ net = [x \in Side |-> IF x = "device" THEN <<Cnxn>> ELSE <<>>]
  /\ \A x \in Side : ~online[x] /\ \A i \in Ids : sock[x][i].list # "open"

LEMMA NewWireKnown == NewWire => PairsKnown
<1> SUFFICES ASSUME NewWire PROVE PairsKnown
  OBVIOUS
<1>1. "device" \in Side /\ "host" \in Side
  BY DEF Side
<1>2. net["device"] = <<Cnxn>> /\ net["host"] = <<>>
  BY <1>1 DEF NewWire
<1>3. Len(net["device"]) = 1 /\ net["device"][1] = Cnxn /\ Len(net["host"]) = 0
  BY <1>2
<1>4. \A x \in Side : \A n \in Pos(x) : x = "device" /\ n = 1 /\ net[x][n].cmd = "CNXN"
  <2> SUFFICES ASSUME NEW x \in Side, NEW n \in Pos(x) PROVE x = "device" /\ n = 1 /\ net[x][n].cmd = "CNXN"
    OBVIOUS
  <2>1. n \in 1..Len(net[x]) /\ (x = "device" \/ x = "host")
    BY DEF Pos, Side
  <2>2. x = "device"
    BY <1>3, <2>1
  <2>3. n = 1
    <3>1. Len(net[x]) = 1
      BY <1>3, <2>2
    <3> QED BY <2>1, <3>1
  <2> QED BY <1>3, <2>2, <2>3 DEF Cnxn
<1>5. net["device"][1].cmd = "CNXN" /\ ~online["device"] /\ ~online["host"] /\ (\A x \in Side : ~online[x])
  BY <1>1, <1>3 DEF Cnxn, NewWire
<1>6. Greeting
  BY <1>3, <1>4, <1>5 DEF Greeting
<1>7. ASSUME NEW x \in Side PROVE BothEnds(x) /\ Credit(x)
  BY DEF NewWire, BothEnds, Credit
<1> QED BY <1>6, <1>7 DEF PairsKnown

LEMMA PairInit == Init => PairInv
<1> SUFFICES ASSUME Init PROVE SessionInv /\ PairsKnown
  BY DEF PairInv
<1>1. SessionInv
  BY SessionInit
<1>2. /\ sock = [x \in Side |-> [i \in Ids |-> NoSocket]] /\ online = [x \in Side |-> FALSE]
      /\ net = [x \in Side |-> IF x = "device" THEN <<Cnxn>> ELSE <<>>]
  BY DEF Init
<1>3. NoSocket.list = "none"
  BY DEF NoSocket
<1>4. \A x \in Side : ~online[x] /\ \A i \in Ids : sock[x][i].list # "open"
  BY <1>2, <1>3
<1>5. NewWire
  BY <1>2, <1>4 DEF NewWire
<1> QED BY <1>1, <1>5, NewWireKnown

\* A step of one side keeps it, ...
LEMMA PairSide ==
  ASSUME StreamInv, StreamInv', MateInv, MateInv', gen = 0, link = "up", NEW x \in Side,
         \A z \in Side : Flow(z), PairsKnown, SideStep(x)
  PROVE  PairsKnown'
<1>1. TypeOK /\ TypeOK'
  BY DEF StreamInv, TypeInv
<1>2. Other(x) \in Side /\ Flow(x) /\ Flow(Other(x)) /\ (\A z \in Side : z = x \/ z = Other(x))
  BY Sides
<1>3. Greeting /\ BothEnds(x) /\ BothEnds(Other(x)) /\ Credit(x) /\ Credit(Other(x))
  BY <1>2 DEF PairsKnown
<1>4. PICK k, o : Served(x, k, o)
  BY <1>2, <1>3, SideServed
<1>5. o \in Seq(Packet) /\ (k = 1 => 1 \in Pos(x)) /\ Hails(x, k, o) /\ Ends(x, k, o) /\ Pays(x, k, o)
  BY <1>4 DEF Served
<1>6. Greeting'
  BY <1>1, <1>3, <1>5, HailKept
<1>7. BothEnds(x)'
  BY <1>3, <1>5, OwnEnds
<1>8. BothEnds(Other(x))'
  BY <1>2, <1>3, <1>5, OtherEnds
<1>9. Credit(x)'
  BY <1>3, <1>5, OwnCredit
<1>10. Credit(Other(x))'
  BY <1>3, <1>5, OtherCredit
<1>11. ASSUME NEW z \in Side PROVE BothEnds(z)' /\ Credit(z)'
  <2>1. CASE z = x
    BY <1>7, <1>9, <2>1
  <2>2. CASE z = Other(x)
    BY <1>8, <1>10, <2>2
  <2> QED BY <1>2, <2>1, <2>2
<1> QED BY <1>6, <1>11 DEF PairsKnown

\* ... and so does every other step.
LEMMA PairNext == PairInv /\ [Next]_vars => PairInv'
<1> SUFFICES ASSUME PairInv, [Next]_vars, gen' = 0, link' = "up" PROVE PairsKnown'
  BY SessionNext DEF PairInv
<1>1. StreamInv /\ StreamInv' /\ TypeOK /\ TypeOK'
  BY StreamInvNext DEF PairInv, SessionInv, StreamInv, TypeInv
<1>2. SessionInv /\ SessionInv' /\ MateInv'
  BY SessionNext DEF PairInv, SessionInv
<1>3. CASE UNCHANGED vars
  <2>1. PairsKnown /\ gen = 0 /\ link = "up"
    BY <1>3 DEF PairInv, vars
  <2>2. Greeting'
    BY <1>3, <2>1 DEF vars, PairsKnown, Greeting, Pos
  <2>3. ASSUME NEW x \in Side PROVE BothEnds(x)'
    BY <1>3, <2>1 DEF vars, PairsKnown, BothEnds, EndKnown, Awaits, OkayBeforeClse, Paired, Pos
  <2>4. ASSUME NEW x \in Side PROVE Credit(x)'
    BY <1>3, <2>1 DEF vars, PairsKnown, Credit, Paired
  <2> QED BY <2>2, <2>3, <2>4 DEF PairsKnown
<1>4. ASSUME NEW x \in Side, HandlePacket(x) \/ Connect(x) \/ \E i \in Ids : Event(x, i) \/ HangUp(x, i)
      PROVE  PairsKnown'
  <2>1. SideStep(x)
    BY <1>1, <1>4, SideSteps
  <2>2. gen = 0 /\ link = "up"
    BY <1>4 DEF HandlePacket, HandleCnxn, HandleOffline, HandleOpen, HandleOkay, HandleClse, HandleWrte,
                Connect, Event, EventRead, EventWriteSome, EventWriteError, EventWriteAll, HangUp
  <2>3. MateInv /\ PairsKnown /\ \A z \in Side : Flow(z)
    BY <1>2, <2>2 DEF PairInv, SessionInv
  <2> QED BY <1>1, <1>2, <2>1, <2>2, <2>3, PairSide
<1>5. ~Break
  BY DEF Break
<1>6. CASE Reconnect
  <2>1. gen = 0 /\ link = "broken" /\ (\A x \in Side : net[x] = <<>>) /\ net' = [net EXCEPT !["device"] = <<Cnxn>>]
        /\ sock' = sock /\ online' = online
    BY <1>6 DEF Reconnect
  <2>2. MateInv /\ LinkInv
    BY <1>2, <2>1 DEF SessionInv
  <2>3. ASSUME NEW x \in Side PROVE ~online[x] /\ \A i \in Ids : sock[x][i].list # "open"
    <3>1. Len(net[x]) = 0
      BY <2>1
    <3>2. ~online[x]
      BY <2>1, <2>2, <3>1 DEF LinkInv
    <3> QED BY <1>1, <2>2, <3>2, MateFacts
  <2>4. net' = [x \in Side |-> IF x = "device" THEN <<Cnxn>> ELSE <<>>]
    <3>1. net \in [Side -> Seq(Packet)]
      BY <1>1 DEF TypeOK
    <3> QED BY <2>1, <3>1
  <2>5. NewWire'
    BY <2>1, <2>3, <2>4 DEF NewWire
  <2> QED BY <2>5, NewWireKnown, PTL
<1>7. CASE HostRestart
  BY <1>1, <1>7 DEF HostRestart, TypeOK
<1> QED BY <1>3, <1>4, <1>5, <1>6, <1>7 DEF Next

-----------------------------------------------------------------------------
(* No stream is left open at one end only *)

LEMMA Counted ==
  ASSUME NEW q \in Seq(Packet), NEW S \in SUBSET (1..Len(q)), NEW n \in S
  PROVE  Cardinality(S) > 0
<1>1. IsFiniteSet(1..Len(q))
  BY FS_Interval
<1>2. IsFiniteSet(S) /\ Cardinality(S) \in Nat
  BY <1>1, FS_Subset, FS_CardinalityType
<1>3. Cardinality(S) # 0
  BY <1>2, FS_EmptySet
<1> QED BY <1>2, <1>3

\* One end is open: what becomes of it is the other end, or is under way.
LEMMA PairNoOrphan == PairInv => (gen = 0 => NoOrphan)
<1> SUFFICES ASSUME PairInv, gen = 0, NEW x \in Side, NEW i \in Ids, sock[x][i].list = "open",
                    NEW y, y = Other(x), NEW p, p = sock[x][i].peer, NEW C, NEW O, NEW A,
                    C = {n \in 1..Len(net[x]) :
                          net[x][n].cmd = "CLSE" /\ net[x][n].arg1 = i /\ net[x][n].arg0 \in {0, p}},
                    O = {n \in 1..Len(net[y]) : net[y][n].cmd = "OPEN" /\ net[y][n].arg0 = i},
                    A = {n \in 1..Len(net[x]) : net[x][n].cmd \in {"OKAY", "CLSE"} /\ net[x][n].arg1 = i}
             PROVE  \/ ResetComing(x)
                    \/ p # 0 /\ sock[y][p].list = "open" /\ sock[y][p].peer \in {0, i}
                    \/ p # 0 /\ Cardinality(C) > 0
                    \/ p # 0 /\ InNet(y, Okay(i, p))
                    \/ p = 0 /\ Cardinality(O) > 0
                    \/ p = 0 /\ Cardinality(A) > 0
  BY ZenonT(40) DEF NoOrphan, CountNet
<1>1. StreamInv /\ TypeOK /\ MateInv /\ LinkInv /\ Flow(x)
  BY DEF PairInv, SessionInv, StreamInv, TypeInv
<1>2. y \in Side
  BY Sides
<1>3. net[x] \in Seq(Packet) /\ net[y] \in Seq(Packet) /\ Pos(x) = 1..Len(net[x]) /\ Pos(y) = 1..Len(net[y])
  BY <1>1, <1>2 DEF TypeOK, Pos
<1>4. p = app[x][i].mate /\ online[x]
  BY <1>1, MateFacts
<1>5. p \in Ids \cup {0}
  BY <1>1, <1>4, PairFacts
<1>6. CASE link = "broken"
  <2>1. Len(net[x]) # 0 /\ net[x][Len(net[x])].cmd = "SYNC"
    BY <1>1, <1>4, <1>6 DEF LinkInv
  <2>2. Len(net[x]) \in 1..Len(net[x]) /\ net[x][Len(net[x])] \in Packet
    BY <1>3, <2>1
  <2>3. net[x][Len(net[x])] = Offline
    BY <2>1, <2>2 DEF Packet, Offline
  <2> QED BY <2>2, <2>3 DEF ResetComing, InNet
<1>7. CASE link = "up"
  <2>1. EndKnown(x, i) /\ Awaits(x, i)
    BY <1>7 DEF PairInv, PairsKnown, BothEnds
  <2>2. CASE p # 0
    <3>1. p \in Ids /\ Paired(x, i, p)
      BY <1>4, <1>5, <2>2 DEF Paired
    <3>2. CASE sock[y][p].list = "open"
      <4>1. sock[y][p].peer = app[y][p].mate
        BY <1>1, <1>2, <3>1, <3>2, MateFacts
      <4>2. app[y][p].mate \in {0, i}
        BY <1>1, <1>4, <3>1, PairFacts
      <4> QED BY <2>2, <3>2, <4>1, <4>2
    <3>3. ASSUME NEW n \in Pos(x), IsClse(net[x][n], p, i) PROVE Cardinality(C) > 0
      <4>1. n \in C
        BY <1>3, <3>3 DEF IsClse
      <4>2. C \in SUBSET (1..Len(net[x]))
        OBVIOUS
      <4> QED BY <1>3, <4>1, <4>2, Counted
    <3>4. ASSUME NEW n \in Pos(y), IsOkay(net[y][n], i, p) PROVE InNet(y, Okay(i, p))
      <4>1. net[y][n] \in Packet
        BY <1>3
      <4>2. net[y][n] = Okay(i, p)
        BY <3>4, <4>1 DEF IsOkay, Okay, Packet
      <4> QED BY <1>3, <4>2 DEF InNet
    <3>5. \/ sock[y][p].list = "open"
          \/ \E n \in Pos(x) : IsClse(net[x][n], p, i)
          \/ \E n \in Pos(y) : IsOkay(net[y][n], i, p)
      BY <2>1, <3>1 DEF EndKnown
    <3> QED BY <2>2, <3>2, <3>3, <3>4, <3>5
  <2>3. CASE p = 0
    <3>1. ASSUME NEW n \in Pos(y), IsOpen(net[y][n], i) PROVE Cardinality(O) > 0
      <4>1. n \in O
        BY <1>3, <3>1 DEF IsOpen
      <4>2. O \in SUBSET (1..Len(net[y]))
        OBVIOUS
      <4> QED BY <1>3, <4>1, <4>2, Counted
    <3>2. ASSUME NEW n \in Pos(x), NEW j, IsClse(net[x][n], j, i) \/ IsOkay(net[x][n], j, i) PROVE Cardinality(A) > 0
      <4>1. n \in A
        BY <1>3, <3>2 DEF IsClse, IsOkay
      <4>2. A \in SUBSET (1..Len(net[x]))
        OBVIOUS
      <4> QED BY <1>3, <4>1, <4>2, Counted
    <3>3. ASSUME NEW j \in Ids, app[y][j].mate = i PROVE \E n \in Pos(x) : IsOkay(net[x][n], j, i)
      BY <1>1, <1>7, <2>3, <3>3 DEF Flow, Complete
    <3>4. \/ \E n \in Pos(y) : IsOpen(net[y][n], i)
          \/ \E n \in Pos(x) : IsClse(net[x][n], 0, i)
          \/ \E j \in Ids : app[y][j].mate = i
      BY <1>4, <2>1, <2>3 DEF Awaits
    <3> QED BY <2>3, <3>1, <3>2, <3>3, <3>4
  <2> QED BY <2>2, <2>3
<1> QED BY <1>1, <1>6, <1>7 DEF TypeOK

\* No stream is left open at one end only, in the session of one server: not
\* when CLSE packets cross in handle_packet, not when a socket is closed
\* before the OKAY for it has come, and not when the wire fails.
THEOREM NoOrphanInSession == Spec => [](gen = 0 => NoOrphan)
BY PairInit, PairNext, PairNoOrphan, PTL DEF Spec

-----------------------------------------------------------------------------
(* The permission to send is never lost or duplicated *)

LEMMA PairFlowControl == PairInv => (gen = 0 => FlowControl)
<1> SUFFICES ASSUME PairInv, gen = 0 PROVE FlowControl
  OBVIOUS
<1>1. StreamInv /\ TypeOK /\ MateInv /\ BacklogHasPeer
  BY DEF PairInv, SessionInv, StreamInv, TypeInv
<1>2. CreditConservation
  <2> SUFFICES ASSUME NEW x \in Side, NEW i \in Ids, NEW j \in Ids, link = "up", NEW y, y = Other(x),
                      sock[x][i].list = "open", sock[y][j].list = "open",
                      sock[y][j].peer = i, app[x][i].end = "open"
               PROVE  One("READ" \in sock[x][i].fde)
                        + Cardinality({n \in 1..Len(net[y]) :
                            net[y][n].cmd = "WRTE" /\ net[y][n].arg0 = i /\ net[y][n].arg1 = j})
                        + One(sock[y][j].pkts # <<>>)
                        + Cardinality({n \in 1..Len(net[x]) :
                            net[x][n].cmd = "OKAY" /\ net[x][n].arg0 = j /\ net[x][n].arg1 = i}) = 1
    BY DEF CreditConservation, CountNet
  <2>1. y \in Side
    BY Sides
  <2>2. app[y][j].mate = i
    BY <1>1, <2>1, MateFacts
  <2>3. Paired(x, i, j) /\ Credit(x)
    BY <2>2 DEF Paired, PairInv, PairsKnown
  <2>4. One("READ" \in sock[x][i].fde) + Number(net[y], "WRTE", i, j)
           + One(sock[y][j].pkts # <<>>) + Number(net[x], "OKAY", j, i) = 1
    BY <2>3 DEF Credit
  <2> QED BY <2>4 DEF Number, Places
<1> QED BY <1>1, <1>2 DEF FlowControl

\* Between two connected sockets the permission to send one WRTE exists once
\* in each direction, in the session of one server: the READY and WRTE cases
\* of handle_packet, local_socket_enqueue and local_socket_event_func never
\* lose or duplicate it, whatever order packets and hang-ups come in.
THEOREM FlowControlInSession == Spec => [](gen = 0 => FlowControl)
BY PairInit, PairNext, PairFlowControl, PTL DEF Spec
=============================================================================
