---------------------------- MODULE StreamsProofs ----------------------------
(***************************************************************************)
(* Theorems about the stream multiplexer, for every number of streams,     *)
(* units, restarts and failures of the wire.                               *)
(***************************************************************************)
EXTENDS Streams, FiniteSetTheorems, SequenceTheorems, TLAPS

-----------------------------------------------------------------------------
(* Sides, packets and queues *)

LEMMA Sides ==
  ASSUME NEW x \in Side
  PROVE  /\ Other(x) \in Side /\ Other(x) # x /\ Other(Other(x)) = x
         /\ \A z \in Side : z # x => z = Other(x)
BY DEF Side, Other

LEMMA PacketFields ==
  ASSUME NEW p \in Packet
  PROVE  /\ p.cmd \in {"OPEN", "OKAY", "CLSE", "WRTE", "CNXN", "SYNC"}
         /\ p.cmd = "OPEN" => p.arg0 \in Ids /\ p.gen \in Nat
         /\ p.cmd = "OKAY" => p.arg0 \in Ids /\ p.arg1 \in Ids
         /\ p.cmd = "CLSE" => p.arg0 \in Ids \cup {0} /\ p.arg1 \in Ids
         /\ p.cmd = "WRTE" => p.arg0 \in Ids /\ p.arg1 \in Ids /\ p.data \in Seq(Unit)
BY DEF Packet

LEMMA PacketsMade ==
  /\ \A i, j \in Ids : Okay(i, j) \in Packet
  /\ \A i \in Ids \cup {0}, j \in Ids : Clse(i, j) \in Packet
  /\ \A i, j \in Ids, d \in Seq(Unit) : Wrte(i, j, d) \in Packet
  /\ gen \in Nat => \A i \in Ids : Open(i) \in Packet
  /\ Cnxn \in Packet /\ Offline \in Packet
BY DEF Packet, Okay, Clse, Wrte, Open, Cnxn, Offline

\* The elements of a concatenation, and of a tail.
LEMMA Joined ==
  ASSUME NEW S, NEW s \in Seq(S), NEW t \in Seq(S)
  PROVE  /\ s \o t \in Seq(S) /\ Len(s \o t) = Len(s) + Len(t)
         /\ \A n \in 1..Len(s) : (s \o t)[n] = s[n]
         /\ \A n \in 1..Len(t) : (s \o t)[Len(s) + n] = t[n]
         /\ \A n \in 1..Len(s \o t) : n > Len(s) => n - Len(s) \in 1..Len(t) /\ (s \o t)[n] = t[n - Len(s)]
OBVIOUS

LEMMA Tailed ==
  ASSUME NEW S, NEW s \in Seq(S), s # <<>>
  PROVE  /\ Tail(s) \in Seq(S) /\ Len(Tail(s)) = Len(s) - 1 /\ Len(s) \in Nat \ {0}
         /\ \A n \in 1..Len(Tail(s)) : n + 1 \in 1..Len(s) /\ Tail(s)[n] = s[n + 1]
         /\ Head(s) = s[1] /\ Head(s) \in S
OBVIOUS

LEMMA Cut ==
  ASSUME NEW S, NEW s \in Seq(S), NEW m \in 1..(Len(s) + 1), NEW n \in (m - 1)..Len(s)
  PROVE  /\ SubSeq(s, m, n) \in Seq(S) /\ Len(SubSeq(s, m, n)) = n - m + 1
         /\ \A k \in 1..(n - m + 1) : k + (m - 1) \in 1..Len(s) /\ SubSeq(s, m, n)[k] = s[k + (m - 1)]
OBVIOUS

\* What a step of side x does to the two queues.
LEMMA NetStep ==
  ASSUME net \in [Side -> Seq(Packet)], NEW x \in Side, NEW r, NEW out \in Seq(Packet),
         r = net \/ (net[x] # <<>> /\ r = Rest(x)),
         net' = Send(r, x, out)
  PROVE  /\ net' \in [Side -> Seq(Packet)]
         /\ net'[x] = r[x]
         /\ net'[Other(x)] = IF link = "up" THEN net[Other(x)] \o out ELSE net[Other(x)]
<1>1. r \in [Side -> Seq(Packet)] /\ r[Other(x)] = net[Other(x)]
  <2>1. Other(x) \in Side /\ Other(x) # x
    BY Sides
  <2>2. CASE net[x] # <<>> /\ r = Rest(x)
    <3>1. Tail(net[x]) \in Seq(Packet)
      BY <2>2, Tailed
    <3> QED BY <2>1, <2>2, <3>1 DEF Rest
  <2> QED BY <2>1, <2>2
<1>2. r[Other(x)] \o out \in Seq(Packet)
  BY <1>1, Sides, Joined
<1> QED BY <1>1, <1>2, Sides DEF Send

-----------------------------------------------------------------------------
(* The ids of a set in order *)

LEMMA NthInside ==
  ASSUME NEW S \in SUBSET Ids, NEW n \in 1..Cardinality(S)
  PROVE  Nth(S, n) \in S
<1> DEFINE Below(i) == {j \in S : j <= i}
           rank == [i \in S |-> Cardinality(Below(i))]
           N == Cardinality(S)
<1>1. MaxId \in Nat
  BY StreamsAssumption
<1>2. IsFiniteSet(S) /\ N \in Nat
  <2>1. IsFiniteSet(Ids)
    BY <1>1, FS_Interval DEF Ids
  <2> QED BY <2>1, FS_Subset, FS_CardinalityType
<1>3. ASSUME NEW i \in S
      PROVE  IsFiniteSet(Below(i)) /\ Cardinality(Below(i)) \in 1..N
  <2>1. IsFiniteSet(Below(i)) /\ Cardinality(Below(i)) <= N
    BY <1>2, FS_Subset
  <2>2. Cardinality(Below(i)) \in Nat
    BY <2>1, FS_CardinalityType
  <2>3. i \in Below(i)
    BY <1>1 DEF Ids
  <2>4. Cardinality(Below(i)) # 0
    BY <2>1, <2>3, FS_EmptySet
  <2> QED BY <1>2, <2>1, <2>2, <2>4
<1>4. ASSUME NEW i \in S, NEW j \in S, i < j
      PROVE  Cardinality(Below(i)) # Cardinality(Below(j))
  <2>1. S \subseteq Nat
    BY <1>1 DEF Ids
  <2>2. Below(i) \subseteq Below(j) /\ j \in Below(j) /\ j \notin Below(i)
    <3>1. i \in Nat /\ j \in Nat /\ i <= j /\ ~(j <= i) /\ j <= j
      BY <1>4, <2>1
    <3>2. \A k \in S : k <= i => k <= j
      BY <2>1, <3>1
    <3> QED BY <3>1, <3>2, Zenon
  <2>3. Below(i) # Below(j)
    BY <2>2
  <2> QED BY <1>3, <2>2, <2>3, FS_Subset
<1>5. rank \in Injection(S, 1..N)
  <2>1. rank \in [S -> 1..N]
    BY <1>3
  <2>2. ASSUME NEW i \in S, NEW j \in S, rank[i] = rank[j]
        PROVE  i = j
    <3>1. i \in Nat /\ j \in Nat
      BY <1>1 DEF Ids
    <3> QED BY <1>4, <2>2, <3>1
  <2> HIDE DEF rank
  <2> QED BY <2>1, <2>2 DEF Injection, IsInjective
<1>6. IsFiniteSet(1..N) /\ Cardinality(1..N) = N
  BY <1>2, FS_Interval
<1>7. rank \in Surjection(S, 1..N)
  BY <1>5, <1>6, FS_Injection
<1>8. PICK i \in S : rank[i] = n
  BY <1>7 DEF Surjection
<1>9. \E k \in S : Cardinality({j \in S : j <= k}) = n
  BY <1>8
<1> QED BY <1>9 DEF Nth

LEMMA AllClosed ==
  ASSUME TypeOK, NEW x \in Side
  PROVE  /\ CloseAllOut(x) \in Seq(Packet)
         /\ \A n \in 1..Len(CloseAllOut(x)) :
              \E i \in Ids : /\ CloseAllOut(x)[n] = Clse(i, sock[x][i].peer)
                             /\ sock[x][i].list = "open" /\ sock[x][i].peer \in Ids
<1> DEFINE told == {i \in Ids : sock[x][i].list = "open" /\ sock[x][i].peer # 0}
           N == Cardinality(told)
<1>1. N \in Nat
  <2>1. IsFiniteSet(Ids)
    BY StreamsAssumption, FS_Interval DEF Ids
  <2> QED BY <2>1, FS_Subset, FS_CardinalityType
<1>2. \A i \in told : sock[x][i].peer \in Ids
  BY DEF TypeOK, Socket
<1>3. \A n \in 1..N : Nth(told, n) \in told
  BY NthInside
<1>4. \A n \in 1..N : Clse(Nth(told, n), sock[x][Nth(told, n)].peer) \in Packet
  BY <1>2, <1>3, PacketsMade
<1>5. CloseAllOut(x) = [n \in 1..N |-> Clse(Nth(told, n), sock[x][Nth(told, n)].peer)]
  BY DEF CloseAllOut
<1>6. \A i \in told : i \in Ids /\ sock[x][i].list = "open"
  OBVIOUS
<1> HIDE DEF told, N
<1> QED BY <1>1, <1>2, <1>3, <1>4, <1>5, <1>6

-----------------------------------------------------------------------------
(* Type correctness.  A new id fits in Ids because every OPEN under way    *)
(* still has an id reserved for its answer: opens counts the streams of    *)
(* both sides.                                                             *)

OpensIn(q) == Cardinality({n \in 1..Len(q) : q[n].cmd = "OPEN"})

IdBudget == \A x \in Side : next_id[x] + OpensIn(net[x]) <= opens + 1

TypeInv == TypeOK /\ IdBudget

LEMMA OpensCounted ==
  ASSUME NEW q \in Seq(Packet)
  PROVE  /\ IsFiniteSet({n \in 1..Len(q) : q[n].cmd = "OPEN"})
         /\ OpensIn(q) \in Nat
<1>1. IsFiniteSet(1..Len(q))
  BY FS_Interval
<1> QED BY <1>1, FS_Subset, FS_CardinalityType DEF OpensIn

\* A part of a queue has no more OPENs than the queue, and one less if the
\* queue began with an OPEN that is not in the part.
LEMMA OpensInPart ==
  ASSUME NEW q \in Seq(Packet), NEW r \in Seq(Packet), NEW k \in Nat,
         \A n \in 1..Len(r) : n + k \in 1..Len(q) /\ r[n] = q[n + k]
  PROVE  /\ OpensIn(r) <= OpensIn(q)
         /\ k > 0 /\ Len(q) > 0 /\ q[1].cmd = "OPEN" => OpensIn(r) + 1 <= OpensIn(q)
<1> DEFINE R == {n \in 1..Len(r) : r[n].cmd = "OPEN"}
           Q == {n \in 1..Len(q) : q[n].cmd = "OPEN"}
           f == [n \in R |-> n + k]
<1>1. IsFiniteSet(R) /\ IsFiniteSet(Q) /\ Cardinality(R) \in Nat /\ Cardinality(Q) \in Nat
  BY OpensCounted DEF OpensIn
<1>2. \A n \in R : f[n] \in Q /\ (k > 0 => f[n] # 1)
  OBVIOUS
<1>3. \A m, n \in R : f[m] = f[n] => m = n
  OBVIOUS
<1>4. \A T : (\A n \in R : f[n] \in T) => f \in Injection(R, T)
  <2> TAKE T
  <2> HAVE \A n \in R : f[n] \in T
  <2>1. f \in [R -> T]
    OBVIOUS
  <2> HIDE DEF f, R
  <2> QED BY <1>3, <2>1 DEF Injection, IsInjective
<1>5. Cardinality(R) <= Cardinality(Q)
  BY <1>1, <1>2, <1>4, FS_Injection
<1>6. ASSUME k > 0, Len(q) > 0, q[1].cmd = "OPEN"
      PROVE  Cardinality(R) + 1 <= Cardinality(Q)
  <2>1. 1 \in Q
    BY <1>6
  <2>2. IsFiniteSet(Q \ {1}) /\ Cardinality(Q \ {1}) = Cardinality(Q) - 1
    BY <1>1, <2>1, FS_RemoveElement
  <2>3. f \in Injection(R, Q \ {1})
    BY <1>2, <1>4, <1>6
  <2>4. Cardinality(R) <= Cardinality(Q \ {1})
    BY <2>2, <2>3, FS_Injection
  <2> QED BY <1>1, <2>2, <2>4
<1> QED BY <1>5, <1>6 DEF OpensIn

LEMMA OpensJoined ==
  ASSUME NEW q \in Seq(Packet), NEW out \in Seq(Packet),
         \A n \in 1..Len(out) : out[n].cmd # "OPEN"
  PROVE  OpensIn(q \o out) = OpensIn(q)
<1>1. {n \in 1..Len(q \o out) : (q \o out)[n].cmd = "OPEN"} = {n \in 1..Len(q) : q[n].cmd = "OPEN"}
  OBVIOUS
<1> QED BY <1>1 DEF OpensIn

LEMMA OpensAppended ==
  ASSUME NEW q \in Seq(Packet), NEW p \in Packet
  PROVE  /\ OpensIn(q \o <<p>>) <= OpensIn(q) + 1
         /\ OpensIn(q \o <<p>>) \in Nat
<1> DEFINE Q == {n \in 1..Len(q) : q[n].cmd = "OPEN"}
           R == {n \in 1..Len(q \o <<p>>) : (q \o <<p>>)[n].cmd = "OPEN"}
<1>1. R \subseteq Q \cup {Len(q) + 1}
  OBVIOUS
<1>2. IsFiniteSet(Q) /\ Cardinality(Q) \in Nat
  BY OpensCounted DEF OpensIn
<1>3. /\ IsFiniteSet(Q \cup {Len(q) + 1})
      /\ Cardinality(Q \cup {Len(q) + 1}) <= Cardinality(Q) + 1
  <2> DEFINE k == Len(q) + 1
  <2> HIDE DEF Q, k
  <2>1. /\ IsFiniteSet(Q \cup {k})
        /\ Cardinality(Q \cup {k}) = IF k \in Q THEN Cardinality(Q) ELSE Cardinality(Q) + 1
    BY <1>2, FS_AddElement
  <2>2. Cardinality(Q \cup {k}) <= Cardinality(Q) + 1
    BY <1>2, <2>1
  <2> QED BY <2>1, <2>2 DEF k
<1>4. Cardinality(R) <= Cardinality(Q \cup {Len(q) + 1}) /\ IsFiniteSet(R)
  BY <1>1, <1>3, FS_Subset
<1>5. Cardinality(R) \in Nat /\ Cardinality(Q \cup {Len(q) + 1}) \in Nat
  BY <1>3, <1>4, FS_CardinalityType
<1>6. OpensIn(q \o <<p>>) = Cardinality(R) /\ OpensIn(q) = Cardinality(Q)
  BY DEF OpensIn
<1> HIDE DEF R, Q
<1> QED BY <1>2, <1>3, <1>4, <1>5, <1>6

\* The budget of ids over a step that neither opens a stream nor answers OPEN.
LEMMA BudgetKept ==
  ASSUME TypeInv, NEW x \in Side, NEW r, NEW out \in Seq(Packet),
         r = net \/ (net[x] # <<>> /\ r = Rest(x)),
         \A n \in 1..Len(out) : out[n].cmd # "OPEN",
         net' = Send(r, x, out), UNCHANGED <<next_id, opens>>
  PROVE  net' \in [Side -> Seq(Packet)] /\ IdBudget' /\ (\A z \in Side : next_id'[z] <= opens' + 1)
<1> USE DEF TypeInv
<1>1. net \in [Side -> Seq(Packet)] /\ net[x] \in Seq(Packet) /\ net[Other(x)] \in Seq(Packet)
  BY Sides DEF TypeOK
<1>2. /\ net' \in [Side -> Seq(Packet)]
      /\ net'[x] = r[x]
      /\ net'[Other(x)] = net[Other(x)] \o out \/ net'[Other(x)] = net[Other(x)]
  BY <1>1, NetStep
<1>3. OpensIn(net'[x]) <= OpensIn(net[x])
  <2>1. CASE r = net
    <3>1. OpensIn(net[x]) \in Nat
      BY <1>1, OpensCounted
    <3> QED BY <1>2, <2>1, <3>1
  <2>2. CASE net[x] # <<>> /\ r = Rest(x)
    <3>1. r[x] = Tail(net[x])
      BY <1>1, <2>2 DEF Rest
    <3>2. /\ Tail(net[x]) \in Seq(Packet)
          /\ \A n \in 1..Len(Tail(net[x])) : n + 1 \in 1..Len(net[x]) /\ Tail(net[x])[n] = net[x][n + 1]
      BY <1>1, <2>2, Tailed
    <3>3. OpensIn(Tail(net[x])) <= OpensIn(net[x])
      BY <1>1, <3>2, OpensInPart
    <3> QED BY <1>2, <3>1, <3>3
  <2> QED BY <2>1, <2>2
<1>4. OpensIn(net'[Other(x)]) = OpensIn(net[Other(x)])
  BY <1>1, <1>2, OpensJoined
<1>5. \A z \in Side : net'[z] \in Seq(Packet) /\ OpensIn(net'[z]) <= OpensIn(net[z])
  <2>1. OpensIn(net[Other(x)]) \in Nat
    BY <1>1, OpensCounted
  <2>2. OpensIn(net'[Other(x)]) <= OpensIn(net[Other(x)])
    BY <1>4, <2>1
  <2>3. \A z \in Side : z = x \/ z = Other(x)
    BY Sides
  <2>4. \A z \in Side : net'[z] \in Seq(Packet)
    BY <1>2
  <2> QED BY <1>3, <2>2, <2>3, <2>4, Zenon
<1>6. \A z \in Side : OpensIn(net'[z]) \in Nat /\ OpensIn(net[z]) \in Nat
  <2> TAKE z \in Side
  <2>1. PICK p, t : p = net[z] /\ t = net'[z]
    OBVIOUS
  <2>2. p \in Seq(Packet) /\ t \in Seq(Packet)
    BY <1>1, <1>5, <2>1
  <2>3. OpensIn(p) \in Nat /\ OpensIn(t) \in Nat
    BY <2>2, OpensCounted
  <2> QED BY <2>1, <2>3
<1>7. next_id \in [Side -> Nat \ {0}] /\ opens \in Nat
  BY DEF TypeOK
<1>8. ASSUME NEW z \in Side
      PROVE  next_id'[z] + OpensIn(net'[z]) <= opens' + 1 /\ next_id'[z] <= opens' + 1
  <2>1. next_id[z] + OpensIn(net[z]) <= opens + 1
    BY DEF IdBudget
  <2>2. next_id'[z] = next_id[z] /\ opens' = opens
    BY <1>2
  <2>3. next_id[z] \in Nat
    BY <1>7
  <2> QED BY <1>5, <1>6, <1>7, <2>1, <2>2, <2>3
<1> QED BY <1>2, <1>8 DEF IdBudget

-----------------------------------------------------------------------------
(* Sockets *)

\* What BacklogHasPeer says of one socket.
WellFormed(s) ==
  /\ "WRITE" \in s.fde <=> s.pkts # <<>>
  /\ s.pkts # <<>> => s.list # "none"
  /\ s.list = "open" /\ s.pkts # <<>> => s.peer # 0
  /\ s.list = "closing" => s.peer = 0 /\ "READ" \notin s.fde

LEMMA BacklogOfEach == BacklogHasPeer <=> \A x \in Side, i \in Ids : WellFormed(sock[x][i])
BY DEF BacklogHasPeer, WellFormed

LEMMA NoSocketTyped == NoSocket \in Socket /\ WellFormed(NoSocket) /\ NoSocket.list = "none" /\ NoSocket.peer = 0
BY DEF NoSocket, Socket, WellFormed

LEMMA SocketClosed ==
  ASSUME NEW s \in Socket, NEW b \in BOOLEAN
  PROVE  /\ CloseSocket(s, b) \in Socket
         /\ WellFormed(s) => WellFormed(CloseSocket(s, b))
         /\ CloseSocket(s, b).list # "open" /\ CloseSocket(s, b).peer = 0
         /\ CloseSocket(s, b).list \in {"closing", "none"}
         /\ s.list = "closing" \/ b => CloseSocket(s, b) = NoSocket
         /\ s.list # "closing" /\ ~b => CloseSocket(s, b).pkts = s.pkts
         /\ "READ" \notin CloseSocket(s, b).fde
<1>1. CASE s.list = "closing" \/ b \/ s.pkts = <<>>
  <2>1. CloseSocket(s, b) = NoSocket
    BY <1>1 DEF CloseSocket
  <2>2. NoSocket.pkts = <<>> /\ "READ" \notin NoSocket.fde
    BY DEF NoSocket
  <2> QED BY <1>1, <2>1, <2>2, NoSocketTyped, Zenon
<1>2. CASE ~(s.list = "closing" \/ b \/ s.pkts = <<>>)
  <2> DEFINE c == [s EXCEPT !.list = "closing", !.peer = 0, !.fde = @ \ {"READ"}]
  <2>1. CloseSocket(s, b) = c
    BY <1>2 DEF CloseSocket
  <2>2. /\ c \in Socket /\ c.list = "closing" /\ c.peer = 0 /\ c.pkts = s.pkts
        /\ c.fde = s.fde \ {"READ"}
    BY DEF Socket
  <2>3. WellFormed(s) => WellFormed(c)
    <3> HIDE DEF c
    <3> QED BY <2>2 DEF WellFormed
  <2>4. "READ" \notin c.fde
    BY <2>2
  <2> HIDE DEF c
  <2> QED BY <1>2, <2>1, <2>2, <2>3, <2>4, Zenon
<1> QED BY <1>1, <1>2

LEMMA SocketRead ==
  ASSUME NEW s \in Socket, NEW n \in Nat
  PROVE  /\ AfterRead(s, n) \in Socket
         /\ WellFormed(s) => WellFormed(AfterRead(s, n))
         /\ AfterRead(s, n).list = s.list /\ AfterRead(s, n).peer = s.peer
         /\ AfterRead(s, n).pkts = s.pkts
         /\ AfterRead(s, n).fde = IF n = 0 \/ s.peer = 0 THEN s.fde ELSE s.fde \ {"READ"}
BY DEF AfterRead, Socket, WellFormed

LEMMA SocketReadOrClosed ==
  ASSUME NEW s \in Socket, NEW n \in Nat, NEW is_eof \in BOOLEAN
  PROVE  /\ ReadSocket(s, n, is_eof) \in Socket
         /\ WellFormed(s) => WellFormed(ReadSocket(s, n, is_eof))
         /\ is_eof => /\ ReadSocket(s, n, is_eof).list \in {"closing", "none"}
                      /\ ReadSocket(s, n, is_eof).peer = 0
                      /\ s.list = "closing" => ReadSocket(s, n, is_eof) = NoSocket
         /\ ~is_eof => /\ ReadSocket(s, n, is_eof).list = s.list
                       /\ ReadSocket(s, n, is_eof).peer = s.peer
         /\ ~is_eof \/ s.list # "closing" => ReadSocket(s, n, is_eof).pkts = s.pkts
<1>1. CASE is_eof
  <2> DEFINE a == AfterRead(s, n)
             c == CloseSocket(a, FALSE)
  <2>1. ReadSocket(s, n, is_eof) = c
    BY <1>1 DEF ReadSocket
  <2>2. /\ a \in Socket /\ (WellFormed(s) => WellFormed(a))
        /\ a.list = s.list /\ a.pkts = s.pkts
    BY SocketRead
  <2> HIDE DEF a
  <2>3. /\ c \in Socket /\ (WellFormed(a) => WellFormed(c))
        /\ c.list \in {"closing", "none"} /\ c.peer = 0
        /\ a.list = "closing" => c = NoSocket
        /\ a.list # "closing" => c.pkts = a.pkts
    BY <2>2, SocketClosed
  <2> HIDE DEF c
  <2> QED BY <1>1, <2>1, <2>2, <2>3
<1>2. CASE ~is_eof
  BY <1>2, SocketRead DEF ReadSocket
<1> QED BY <1>1, <1>2

\* Reading gives up the permission to send, and so does closing.
LEMMA ReadGivesUp ==
  ASSUME NEW s \in Socket, NEW n \in Nat, NEW is_eof \in BOOLEAN, NEW v, v = ReadSocket(s, n, is_eof)
  PROVE  /\ is_eof => "READ" \notin v.fde
         /\ ~is_eof => ("READ" \in v.fde <=> "READ" \in s.fde /\ (n = 0 \/ s.peer = 0))
<1>1. PICK a : a = AfterRead(s, n)
  OBVIOUS
<1>2. a \in Socket /\ a.fde = IF n = 0 \/ s.peer = 0 THEN s.fde ELSE s.fde \ {"READ"}
  BY <1>1, SocketRead
<1>3. CASE is_eof
  <2>1. v = CloseSocket(a, FALSE) /\ FALSE \in BOOLEAN
    BY <1>1, <1>3 DEF ReadSocket
  <2> QED BY <1>2, <1>3, <2>1, SocketClosed
<1>4. CASE ~is_eof
  <2>1. v = a
    BY <1>1, <1>4 DEF ReadSocket
  <2> QED BY <1>2, <1>4, <2>1
<1> QED BY <1>3, <1>4

\* One socket and its program change.
LEMMA OneChanges ==
  ASSUME TypeOK, BacklogHasPeer, NEW x \in Side, NEW i \in Ids,
         NEW v \in Socket, NEW a \in App, WellFormed(v),
         sock' = [sock EXCEPT ![x][i] = v], app' = [app EXCEPT ![x][i] = a]
  PROVE  /\ sock' \in [Side -> [Ids -> Socket]] /\ app' \in [Side -> [Ids -> App]]
         /\ BacklogHasPeer'
         /\ sock'[x][i] = v /\ app'[x][i] = a
         /\ \A k \in Ids \ {i} : sock'[x][k] = sock[x][k] /\ app'[x][k] = app[x][k]
         /\ sock'[Other(x)] = sock[Other(x)] /\ app'[Other(x)] = app[Other(x)]
<1>1. sock \in [Side -> [Ids -> Socket]] /\ app \in [Side -> [Ids -> App]]
  BY DEF TypeOK
<1>2. Other(x) \in Side /\ Other(x) # x
  BY Sides
<1>3. /\ sock' \in [Side -> [Ids -> Socket]] /\ app' \in [Side -> [Ids -> App]]
      /\ sock'[x][i] = v /\ app'[x][i] = a
      /\ \A k \in Ids \ {i} : sock'[x][k] = sock[x][k] /\ app'[x][k] = app[x][k]
      /\ \A z \in Side \ {x} : sock'[z] = sock[z] /\ app'[z] = app[z]
  BY <1>1
<1>4. \A z \in Side, k \in Ids : WellFormed(sock'[z][k])
  BY <1>3, BacklogOfEach
<1>5. BacklogHasPeer'
  BY <1>4 DEF BacklogHasPeer, WellFormed
<1> QED BY <1>2, <1>3, <1>5

\* The same when only the socket, or only its program, changes.
LEMMA SameApp ==
  ASSUME TypeOK, NEW x \in Side, NEW i \in Ids
  PROVE  /\ app = [app EXCEPT ![x][i] = app[x][i]] /\ app[x][i] \in App
         /\ sock = [sock EXCEPT ![x][i] = sock[x][i]] /\ sock[x][i] \in Socket
BY DEF TypeOK

LEMMA AppChanges ==
  ASSUME TypeOK, NEW x \in Side, NEW i \in Ids
  PROVE  /\ \A n \in Nat : /\ [app EXCEPT ![x][i].sent = n] = [app EXCEPT ![x][i] = [app[x][i] EXCEPT !.sent = n]]
                           /\ [app[x][i] EXCEPT !.sent = n] \in App
         /\ \A q \in Seq(Unit) : /\ [app EXCEPT ![x][i].got = @ \o q]
                                      = [app EXCEPT ![x][i] = [app[x][i] EXCEPT !.got = @ \o q]]
                                 /\ [app[x][i] EXCEPT !.got = @ \o q] \in App
         /\ \A j \in Ids : /\ [app EXCEPT ![x][i].mate = j] = [app EXCEPT ![x][i] = [app[x][i] EXCEPT !.mate = j]]
                           /\ [app[x][i] EXCEPT !.mate = j] \in App
         /\ \A e \in {"open", "shut", "closed"} :
              /\ [app EXCEPT ![x][i].end = e] = [app EXCEPT ![x][i] = [app[x][i] EXCEPT !.end = e]]
              /\ [app[x][i] EXCEPT !.end = e] \in App
<1> DEFINE a == app[x][i]
<1>1. app \in [Side -> [Ids -> App]] /\ a \in App
  BY DEF TypeOK
<1>2. \A n \in Nat : [a EXCEPT !.sent = n] \in App
  BY <1>1 DEF App
<1>3. ASSUME NEW q \in Seq(Unit) PROVE [a EXCEPT !.got = @ \o q] \in App
  <2>1. a.got \o q \in Seq(Unit)
    BY <1>1, Joined DEF App
  <2> QED BY <1>1, <2>1 DEF App
<1>4. \A j \in Ids : [a EXCEPT !.mate = j] \in App
  BY <1>1 DEF App
<1>5. \A e \in {"open", "shut", "closed"} : [a EXCEPT !.end = e] \in App
  BY <1>1 DEF App
<1> QED BY <1>1, <1>2, <1>3, <1>4, <1>5

-----------------------------------------------------------------------------
(* The steps of one side, by what the proofs need of them *)

StreamInv == TypeInv /\ BacklogHasPeer

\* The units that were written to the fd or wait for it.
Str(x, i) == app[x][i].got \o sock[x][i].pkts

\* Socket i of side x, and its program, are all that changes besides the net.
Frame(x, i) ==
  /\ \A k \in Ids \ {i} : sock'[x][k] = sock[x][k] /\ app'[x][k] = app[x][k]
  /\ sock'[Other(x)] = sock[Other(x)] /\ app'[Other(x)] = app[Other(x)]
  /\ UNCHANGED <<next_id, online, link, gen, breaks, opens>>

\* What an open socket says in one step: OKAY, the units d, CLSE.
TalkSeq(i, j, ok, d, cl) ==
  (IF ok THEN <<Okay(i, j)>> ELSE <<>>)
    \o (IF d = <<>> THEN <<>> ELSE <<Wrte(i, j, d)>>)
    \o (IF cl THEN <<Clse(i, j)>> ELSE <<>>)

\* The same by its elements, for a socket that was s and is v now.
TalkOut(s, v, i, out, d) ==
  /\ \A k \in 1..Len(out) :
       /\ out[k].cmd \in {"OKAY", "WRTE", "CLSE"}
       /\ out[k].arg0 = i /\ out[k].arg1 = s.peer
       /\ s.list = "open" /\ s.peer # 0
       /\ out[k].cmd = "WRTE" => out[k].data = d /\ d # <<>>
       /\ out[k].cmd = "CLSE" => v.list # "open" /\ k = Len(out)
  /\ \A k, l \in 1..Len(out) : out[k].cmd = "WRTE" /\ out[l].cmd = "WRTE" => k = l
  /\ d # <<>> => \E k \in 1..Len(out) : out[k].cmd = "WRTE"
  /\ s.list = "open" /\ s.peer # 0 /\ v.list # "open" => \E k \in 1..Len(out) : out[k].cmd = "CLSE"

\* What a step of socket i takes from the queue: nothing, a WRTE with the
\* units e, or a CLSE that closes the socket.
Takes(x, i, r, e) ==
  \/ r = net /\ e = <<>>
  \/ /\ r = Rest(x) /\ Receive(x, "WRTE") /\ e = Head(net[x]).data
     /\ Head(net[x]).arg1 = i /\ online[x] /\ Found(x, i, Head(net[x]).arg0)
  \/ /\ r = Rest(x) /\ Receive(x, "CLSE") /\ e = <<>>
     /\ Head(net[x]).arg1 = i /\ online[x] /\ Found(x, i, Head(net[x]).arg0)
     /\ sock'[x][i].list # "open"

\* The socket sends the units d.
Sends(x, i, d) ==
  /\ d \in Seq(Unit)
  /\ app'[x][i].sent = app[x][i].sent + Len(d)
  /\ \A k \in 1..Len(d) : d[k] = [gen |-> app[x][i].gen, id |-> i, n |-> app[x][i].sent + k]

\* The units e are written or queued, unless the program has hung up.
Gets(x, i, e) ==
  \/ Str(x, i)' = Str(x, i) \o e
  \/ /\ sock'[x][i].list = "none" /\ app[x][i].end # "open"
     /\ sock'[x][i].pkts = <<>> /\ app'[x][i].got = app[x][i].got

\* The socket stays as it is or is closed; only a CLSE closes one whose
\* program has not hung up.
Lives(x, i, r) ==
  /\ sock[x][i].list # "none"
  /\ \/ sock'[x][i].list = sock[x][i].list /\ sock'[x][i].peer = sock[x][i].peer
     \/ sock'[x][i].list \in {"closing", "none"} /\ sock'[x][i].peer = 0
  /\ app'[x][i].mate = app[x][i].mate /\ app'[x][i].gen = app[x][i].gen
  /\ app[x][i].end # "open" => app'[x][i].end # "open"
  /\ sock[x][i].list = "open" /\ sock'[x][i].list # "open" /\ app[x][i].end = "open"
       => r = Rest(x) /\ Receive(x, "CLSE")

HasOkay(out) == \E k \in 1..Len(out) : out[k].cmd = "OKAY"

\* The permission to send: asking for FDE_READ is given up for the units d,
\* unless the program has hung up.  The duty to answer: of a backlog and an
\* OKAY there is one, if there was a backlog or a WRTE has come.
Credited(s, v, a, out, d, took) ==
  /\ \A k, l \in 1..Len(out) : out[k].cmd = "OKAY" /\ out[l].cmd = "OKAY" => k = l
  /\ "READ" \in v.fde => "READ" \in s.fde
  /\ v.list = "open" /\ a.end = "open" =>
       /\ "READ" \in s.fde <=> "READ" \in v.fde \/ d # <<>>
       /\ ~("READ" \in v.fde /\ d # <<>>)
  /\ v.list = "open" =>
       /\ ~(v.pkts # <<>> /\ HasOkay(out))
       /\ s.pkts # <<>> \/ took = "WRTE" <=> v.pkts # <<>> \/ HasOkay(out)

\* Whether a step that leaves the queues r has taken a WRTE.
Took(x, r) == IF r = Rest(x) /\ Receive(x, "WRTE") THEN "WRTE" ELSE "none"

Talks(x, i, r, out, d, e) ==
  /\ Frame(x, i)
  /\ net' = Send(r, x, out) /\ out \in Seq(Packet)
  /\ Takes(x, i, r, e)
  /\ TalkOut(sock[x][i], sock'[x][i], i, out, d)
  /\ Sends(x, i, d)
  /\ Gets(x, i, e)
  /\ Lives(x, i, r)
  /\ Credited(sock[x][i], sock'[x][i], app'[x][i], out, d, Took(x, r))

SocketStep(x, i) == \E r, out, d, e : Talks(x, i, r, out, d, e)

NoOpens(out) == \A k \in 1..Len(out) : out[k].cmd # "OPEN"

TalkElements(i, j, out, ok, d, cl) ==
  /\ \A k \in 1..Len(out) : /\ out[k].cmd \in {"OKAY", "WRTE", "CLSE"}
                            /\ out[k].arg0 = i /\ out[k].arg1 = j
                            /\ out[k].cmd = "WRTE" => out[k].data = d /\ d # <<>>
                            /\ out[k].cmd = "CLSE" => cl /\ k = Len(out)
  /\ \A k, l \in 1..Len(out) : out[k].cmd = "WRTE" /\ out[l].cmd = "WRTE" => k = l
  /\ d # <<>> => \E k \in 1..Len(out) : out[k].cmd = "WRTE"
  /\ cl => \E k \in 1..Len(out) : out[k].cmd = "CLSE"
  /\ \A k, l \in 1..Len(out) : out[k].cmd = "OKAY" /\ out[l].cmd = "OKAY" => k = l
  /\ HasOkay(out) <=> ok

LEMMA TalkSeqOut ==
  ASSUME NEW i \in Ids, NEW j \in Ids, NEW d \in Seq(Unit), NEW ok \in BOOLEAN, NEW cl \in BOOLEAN,
         NEW out, out = TalkSeq(i, j, ok, d, cl)
  PROVE  out \in Seq(Packet) /\ NoOpens(out) /\ TalkElements(i, j, out, ok, d, cl)
<1> DEFINE o == Okay(i, j)
           w == Wrte(i, j, d)
           c == Clse(i, j)
<1>1. /\ o \in Packet /\ w \in Packet /\ c \in Packet
      /\ o.cmd = "OKAY" /\ o.arg0 = i /\ o.arg1 = j
      /\ w.cmd = "WRTE" /\ w.arg0 = i /\ w.arg1 = j /\ w.data = d
      /\ c.cmd = "CLSE" /\ c.arg0 = i /\ c.arg1 = j
  BY PacketsMade DEF Okay, Wrte, Clse
<1> HIDE DEF o, w, c
<1> DEFINE A == IF ok THEN <<o>> ELSE <<>>
           B == IF d = <<>> THEN <<>> ELSE <<w>>
           C == IF cl THEN <<c>> ELSE <<>>
<1>2. out = (A \o B) \o C
  BY DEF TalkSeq, o, w, c
<1>3. /\ A \in Seq(Packet) /\ Len(A) \in Nat /\ Len(A) <= 1 /\ (\A k \in 1..Len(A) : A[k] = o)
      /\ Len(A) = 1 <=> ok
  BY <1>1
<1>4. /\ B \in Seq(Packet) /\ Len(B) \in Nat /\ Len(B) <= 1 /\ (\A k \in 1..Len(B) : B[k] = w)
      /\ Len(B) = 1 <=> d # <<>>
  BY <1>1
<1>5. /\ C \in Seq(Packet) /\ Len(C) \in Nat /\ Len(C) <= 1 /\ (\A k \in 1..Len(C) : C[k] = c)
      /\ Len(C) = 1 <=> cl
  BY <1>1
<1> HIDE DEF A, B, C
<1> DEFINE AB == A \o B
<1>6. /\ AB \in Seq(Packet) /\ Len(AB) = Len(A) + Len(B)
      /\ \A k \in 1..Len(AB) : (AB[k] = o /\ k <= Len(A)) \/ (AB[k] = w /\ k = Len(A) + 1 /\ Len(B) = 1)
      /\ Len(B) = 1 => AB[Len(A) + 1] = w
      /\ Len(A) = 1 => AB[1] = o /\ 1 \in 1..Len(AB)
  <2>1. /\ AB \in Seq(Packet) /\ Len(AB) = Len(A) + Len(B)
        /\ \A k \in 1..Len(A) : AB[k] = A[k]
        /\ \A k \in 1..Len(B) : AB[Len(A) + k] = B[k]
        /\ \A k \in 1..Len(AB) : k > Len(A) => k - Len(A) \in 1..Len(B) /\ AB[k] = B[k - Len(A)]
    BY <1>3, <1>4, Joined
  <2> HIDE DEF AB
  <2>2. Len(A) \in Nat /\ Len(B) \in Nat /\ Len(A) <= 1 /\ Len(B) <= 1
    BY <1>3, <1>4
  <2>3. ASSUME NEW k \in 1..Len(AB), k <= Len(A) PROVE AB[k] = o
    BY <1>3, <2>1, <2>2, <2>3
  <2>4. ASSUME NEW k \in 1..Len(AB), k > Len(A) PROVE AB[k] = w /\ k = Len(A) + 1 /\ Len(B) = 1
    <3>1. k - Len(A) \in 1..Len(B) /\ AB[k] = B[k - Len(A)]
      BY <2>1, <2>4
    <3>2. \A l \in 1..Len(B) : l = 1 /\ Len(B) = 1
      <4>1. \A n \in Nat : n <= 1 => \A l \in 1..n : l = 1 /\ n = 1
        OBVIOUS
      <4> QED BY <2>2, <4>1
    <3>3. B[k - Len(A)] = w /\ k - Len(A) = 1 /\ Len(B) = 1
      BY <1>4, <3>1, <3>2
    <3> QED BY <2>1, <2>2, <3>1, <3>3
  <2>5. Len(B) = 1 => AB[Len(A) + 1] = w
    BY <1>4, <2>1
  <2>6. \A k \in 1..Len(AB) : k <= Len(A) \/ k > Len(A)
    BY <2>1, <2>2
  <2>7. Len(A) = 1 => AB[1] = o /\ 1 \in 1..Len(AB)
    BY <1>3, <2>1, <2>2
  <2> QED BY <2>1, <2>3, <2>4, <2>5, <2>6, <2>7
<1> HIDE DEF AB
<1>7. /\ out \in Seq(Packet) /\ Len(out) = Len(AB) + Len(C)
      /\ \A k \in 1..Len(AB) : out[k] = AB[k]
      /\ \A k \in 1..Len(out) : k > Len(AB) => k = Len(out) /\ out[k] = c /\ Len(C) = 1
      /\ Len(C) = 1 => out[Len(out)] = c
  <2>1. /\ out \in Seq(Packet) /\ Len(out) = Len(AB) + Len(C)
        /\ \A k \in 1..Len(AB) : out[k] = AB[k]
        /\ \A k \in 1..Len(C) : out[Len(AB) + k] = C[k]
        /\ \A k \in 1..Len(out) : k > Len(AB) => k - Len(AB) \in 1..Len(C) /\ out[k] = C[k - Len(AB)]
    BY <1>2, <1>5, <1>6, Joined DEF AB
  <2>2. Len(C) \in Nat /\ Len(C) <= 1 /\ Len(AB) \in Nat
    BY <1>3, <1>4, <1>5, <1>6
  <2>3. ASSUME NEW k \in 1..Len(out), k > Len(AB) PROVE k = Len(out) /\ out[k] = c /\ Len(C) = 1
    <3>1. k - Len(AB) \in 1..Len(C) /\ out[k] = C[k - Len(AB)]
      BY <2>1, <2>3
    <3>2. \A l \in 1..Len(C) : l = 1 /\ Len(C) = 1
      <4>1. \A n \in Nat : n <= 1 => \A l \in 1..n : l = 1 /\ n = 1
        OBVIOUS
      <4> QED BY <2>2, <4>1
    <3>3. C[k - Len(AB)] = c /\ k - Len(AB) = 1 /\ Len(C) = 1
      BY <1>5, <3>1, <3>2
    <3> QED BY <2>1, <2>2, <3>1, <3>3
  <2>4. Len(C) = 1 => out[Len(out)] = c
    <3> SUFFICES ASSUME Len(C) = 1 PROVE out[Len(out)] = c
      OBVIOUS
    <3>1. 1 \in 1..Len(C) /\ Len(out) = Len(AB) + 1
      BY <2>1, <2>2
    <3>2. C[1] = c /\ out[Len(AB) + 1] = C[1]
      BY <1>5, <2>1, <3>1
    <3> QED BY <3>1, <3>2
  <2> QED BY <2>1, <2>3, <2>4
<1>8. \A k \in 1..Len(out) : out[k] \in {o, w, c}
  BY <1>6, <1>7
<1>9. \A k \in 1..Len(out) : /\ out[k].cmd \in {"OKAY", "WRTE", "CLSE"} /\ out[k].cmd # "OPEN"
                             /\ out[k].arg0 = i /\ out[k].arg1 = j
  BY <1>1, <1>8
<1>10. \A k \in 1..Len(out) : /\ out[k].cmd = "WRTE" => k = Len(A) + 1 /\ out[k].data = d /\ d # <<>>
                              /\ out[k].cmd = "CLSE" => cl /\ k = Len(out)
  <2> SUFFICES ASSUME NEW k \in 1..Len(out)
               PROVE  /\ out[k].cmd = "WRTE" => k = Len(A) + 1 /\ out[k].data = d /\ d # <<>>
                      /\ out[k].cmd = "CLSE" => cl /\ k = Len(out)
    OBVIOUS
  <2>1. CASE k > Len(AB)
    <3>1. k = Len(out) /\ out[k] = c /\ Len(C) = 1
      BY <1>7, <2>1
    <3> QED BY <1>1, <1>5, <3>1
  <2>2. CASE ~(k > Len(AB))
    <3>1. k \in 1..Len(AB)
      BY <1>3, <1>4, <1>6, <2>2
    <3>2. out[k] = o \/ (out[k] = w /\ k = Len(A) + 1 /\ Len(B) = 1)
      BY <1>6, <1>7, <3>1
    <3> QED BY <1>1, <1>4, <3>2
  <2> QED BY <2>1, <2>2
<1>11. /\ d # <<>> => \E k \in 1..Len(out) : out[k].cmd = "WRTE"
       /\ cl => \E k \in 1..Len(out) : out[k].cmd = "CLSE"
  <2>1. ASSUME d # <<>> PROVE \E k \in 1..Len(out) : out[k].cmd = "WRTE"
    <3>1. Len(B) = 1 /\ Len(A) + 1 \in 1..Len(AB) /\ Len(AB) <= Len(out)
      <4>1. Len(A) \in Nat /\ Len(B) \in Nat /\ Len(C) \in Nat
        BY <1>3, <1>4, <1>5
      <4>2. Len(B) = 1 /\ Len(AB) = Len(A) + Len(B) /\ Len(out) = Len(AB) + Len(C)
        BY <1>4, <1>6, <1>7, <2>1
      <4> QED BY <4>1, <4>2
    <3>2. out[Len(A) + 1] = w
      BY <1>6, <1>7, <3>1
    <3>3. Len(A) + 1 \in 1..Len(out)
      BY <1>3, <1>7, <3>1
    <3> QED BY <1>1, <3>2, <3>3
  <2>2. ASSUME cl PROVE \E k \in 1..Len(out) : out[k].cmd = "CLSE"
    <3>1. Len(C) = 1
      BY <1>5, <2>2
    <3>2. Len(out) \in 1..Len(out)
      BY <1>3, <1>4, <1>6, <1>7, <3>1
    <3>3. out[Len(out)] = c
      BY <1>7, <3>1
    <3> QED BY <1>1, <3>2, <3>3
  <2> QED BY <2>1, <2>2
<1>12. \A k, l \in 1..Len(out) : out[k].cmd = "WRTE" /\ out[l].cmd = "WRTE" => k = l
  BY <1>10
<1>13. \A k \in 1..Len(out) : out[k].cmd = "OKAY" => k = 1 /\ ok
  <2> SUFFICES ASSUME NEW k \in 1..Len(out), out[k].cmd = "OKAY" PROVE k = 1 /\ ok
    OBVIOUS
  <2>1. ~(k > Len(AB))
    BY <1>1, <1>7
  <2>2. k \in 1..Len(AB) /\ k \in Nat /\ k >= 1
    BY <1>3, <1>4, <1>6, <1>7, <2>1
  <2>3. k <= Len(A)
    BY <1>1, <1>6, <1>7, <2>2
  <2>4. Len(A) \in Nat /\ Len(A) <= 1 /\ (Len(A) = 1 => ok)
    BY <1>3
  <2>5. k = 1 /\ Len(A) = 1
    <3>1. PICK m : m = Len(A)
      OBVIOUS
    <3>2. m \in Nat /\ m <= 1 /\ k <= m /\ k \in Nat /\ k >= 1
      BY <2>2, <2>3, <2>4, <3>1
    <3>3. k = 1 /\ m = 1
      BY <3>2
    <3> QED BY <3>1, <3>3
  <2> QED BY <2>4, <2>5
<1>14. ok => HasOkay(out)
  <2> SUFFICES ASSUME ok PROVE HasOkay(out)
    OBVIOUS
  <2>1. AB[1] = o /\ 1 \in 1..Len(AB)
    BY <1>3, <1>6
  <2>2. out[1] = o
    BY <1>7, <2>1
  <2>3. PICK la, lb, lc, lo : la = Len(A) /\ lb = Len(B) /\ lc = Len(C) /\ lo = Len(out)
    OBVIOUS
  <2>4. la = 1 /\ lb \in Nat /\ lc \in Nat /\ lo = la + lb + lc
    BY <1>3, <1>4, <1>5, <1>6, <1>7, <2>3
  <2>5. 1 \in 1..lo
    BY <2>4
  <2> QED BY <1>1, <2>2, <2>3, <2>5 DEF HasOkay
<1>15. /\ \A k, l \in 1..Len(out) : out[k].cmd = "OKAY" /\ out[l].cmd = "OKAY" => k = l
       /\ HasOkay(out) <=> ok
  BY <1>13, <1>14 DEF HasOkay
<1> QED BY <1>7, <1>9, <1>10, <1>11, <1>12, <1>15 DEF NoOpens, TalkElements

\* Socket i of side x becomes v and its program a; r is what is left of the
\* queue and out is sent.
OneStep(x, i, v, a, r, out) ==
  /\ v \in Socket /\ a \in App /\ WellFormed(v)
  /\ sock' = [sock EXCEPT ![x][i] = v] /\ app' = [app EXCEPT ![x][i] = a]
  /\ out \in Seq(Packet) /\ NoOpens(out)
  /\ r = net \/ (net[x] # <<>> /\ r = Rest(x))
  /\ net' = Send(r, x, out)
  /\ UNCHANGED <<next_id, online, link, gen, breaks, opens>>

OneKept(x, i, v, a) == StreamInv' /\ Frame(x, i) /\ sock'[x][i] = v /\ app'[x][i] = a

LEMMA OneTalks ==
  ASSUME StreamInv, NEW x \in Side, NEW i \in Ids, NEW v, NEW a, NEW r, NEW out,
         OneStep(x, i, v, a, r, out)
  PROVE  OneKept(x, i, v, a)
<1> USE DEF StreamInv, TypeInv
<1>1. /\ v \in Socket /\ a \in App /\ WellFormed(v)
      /\ sock' = [sock EXCEPT ![x][i] = v] /\ app' = [app EXCEPT ![x][i] = a]
      /\ out \in Seq(Packet) /\ NoOpens(out)
      /\ r = net \/ (net[x] # <<>> /\ r = Rest(x))
      /\ net' = Send(r, x, out)
      /\ UNCHANGED <<next_id, online, link, gen, breaks, opens>>
  BY DEF OneStep
<1>2. /\ sock' \in [Side -> [Ids -> Socket]] /\ app' \in [Side -> [Ids -> App]]
      /\ BacklogHasPeer'
      /\ sock'[x][i] = v /\ app'[x][i] = a
      /\ \A k \in Ids \ {i} : sock'[x][k] = sock[x][k] /\ app'[x][k] = app[x][k]
      /\ sock'[Other(x)] = sock[Other(x)] /\ app'[Other(x)] = app[Other(x)]
  BY <1>1, OneChanges
<1>3. net' \in [Side -> Seq(Packet)] /\ IdBudget' /\ (\A z \in Side : next_id'[z] <= opens' + 1)
  BY <1>1, BudgetKept DEF NoOpens
<1>4. TypeOK'
  BY <1>1, <1>2, <1>3 DEF TypeOK
<1> QED BY <1>1, <1>2, <1>3, <1>4 DEF Frame, OneKept

\* Without a packet: EventWriteSome and HangUp leave the net alone.
LEMMA NothingSent ==
  ASSUME TypeOK, NEW x \in Side
  PROVE  /\ net = Send(net, x, <<>>) /\ Rest(x) = Send(Rest(x), x, <<>>)
         /\ <<>> \in Seq(Packet) /\ Len(<<>>) = 0
<1>1. net[Other(x)] \o <<>> = net[Other(x)] /\ Other(x) \in Side /\ Other(x) # x
  BY Sides DEF TypeOK
<1>2. net \in [Side -> Seq(Packet)]
  BY DEF TypeOK
<1>3. [net EXCEPT ![Other(x)] = @ \o <<>>] = net
  BY <1>1, <1>2
<1>4. [Rest(x) EXCEPT ![Other(x)] = @ \o <<>>] = Rest(x)
  BY <1>1, <1>2 DEF Rest
<1> QED BY <1>3, <1>4 DEF Send

\* What is said when nothing is.
LEMMA Silent ==
  ASSUME NEW s, NEW v, NEW i, v.list = "open" \/ s.list # "open" \/ s.peer = 0
  PROVE  TalkOut(s, v, i, <<>>, <<>>)
BY DEF TalkOut

LEMMA SentNothing ==
  ASSUME TypeOK, NEW x \in Side, NEW i \in Ids, app'[x][i].sent = app[x][i].sent
  PROVE  Sends(x, i, <<>>)
<1>1. app[x][i].sent \in Nat
  BY DEF TypeOK, App
<1> QED BY <1>1 DEF Sends

\* What a read of n units makes the socket say.
ReadData(x, i, s, n) ==
  IF s.peer = 0 THEN <<>>
  ELSE [k \in 1..n |-> [gen |-> app[x][i].gen, id |-> i, n |-> app[x][i].sent + k]]

\* A socket without a peer drops what it reads.
LEMMA ReadDropped ==
  ASSUME NEW x, NEW i, NEW s, NEW n, NEW is_eof, s.peer = 0
  PROVE  ReadData(x, i, s, n) = <<>> /\ ReadOut(x, i, s, n, is_eof) = <<>>
BY DEF ReadData, ReadOut, CloseOut

\* The units that a read of the fd sends.
DataRead(x, i, s, n, d) ==
  /\ d \in Seq(Unit) /\ Len(d) = (IF s.peer = 0 THEN 0 ELSE n)
  /\ \A k \in 1..Len(d) : d[k] = [gen |-> app[x][i].gen, id |-> i, n |-> app[x][i].sent + k]

LEMMA ReadUnits ==
  ASSUME TypeOK, NEW x \in Side, NEW i \in Ids, NEW s \in Socket, NEW n \in Nat
  PROVE  DataRead(x, i, s, n, ReadData(x, i, s, n))
<1>1. app[x][i].gen \in Nat /\ app[x][i].sent \in Nat
  BY DEF TypeOK, App
<1>2. CASE s.peer = 0
  <2>1. ReadData(x, i, s, n) = <<>>
    BY <1>2 DEF ReadData
  <2>2. DataRead(x, i, s, n, <<>>)
    BY <1>2 DEF DataRead
  <2> QED BY <2>1, <2>2, Zenon
<1>3. CASE s.peer # 0
  <2> DEFINE f == [k \in 1..n |-> [gen |-> app[x][i].gen, id |-> i, n |-> app[x][i].sent + k]]
  <2>1. \A k \in 1..n : [gen |-> app[x][i].gen, id |-> i, n |-> app[x][i].sent + k] \in Unit
    BY <1>1 DEF Unit
  <2>2. f \in Seq(Unit) /\ Len(f) = n
    BY <2>1
  <2>3. \A k \in 1..n : f[k] = [gen |-> app[x][i].gen, id |-> i, n |-> app[x][i].sent + k]
    OBVIOUS
  <2>4. ReadData(x, i, s, n) = f
    BY <1>3 DEF ReadData
  <2> HIDE DEF f
  <2>5. DataRead(x, i, s, n, f)
    BY <1>3, <2>2, <2>3 DEF DataRead
  <2> QED BY <2>4, <2>5, Zenon
<1> QED BY <1>2, <1>3

\* What such a read says, with the OKAY of the socket's ready before it or not.
ReadTalk(x, i, s, n, is_eof, d) ==
  /\ ReadOut(x, i, s, n, is_eof) = TalkSeq(i, s.peer, FALSE, d, is_eof)
  /\ <<Okay(i, s.peer)>> \o ReadOut(x, i, s, n, is_eof) = TalkSeq(i, s.peer, TRUE, d, is_eof)

LEMMA ReadSays ==
  ASSUME TypeOK, NEW x \in Side, NEW i \in Ids, NEW s \in Socket, NEW n \in Nat, NEW is_eof \in BOOLEAN,
         s.peer # 0
  PROVE  ReadTalk(x, i, s, n, is_eof, ReadData(x, i, s, n))
<1> SUFFICES ASSUME NEW d, d = ReadData(x, i, s, n)
             PROVE  ReadTalk(x, i, s, n, is_eof, d)
  OBVIOUS
<1>1. d \in Seq(Unit) /\ Len(d) = n
  BY ReadUnits DEF DataRead
<1>2. n = 0 <=> d = <<>>
  BY <1>1
<1> DEFINE w == <<Wrte(i, s.peer, d)>>
           c == IF is_eof THEN <<Clse(i, s.peer)>> ELSE <<>>
           o == <<Okay(i, s.peer)>>
           m == IF d = <<>> THEN <<>> ELSE w
<1>3. ReadOut(x, i, s, n, is_eof) = m \o c
  <2>1. d = [k \in 1..n |-> [gen |-> app[x][i].gen, id |-> i, n |-> app[x][i].sent + k]]
    BY DEF ReadData
  <2> QED BY <1>2, <2>1 DEF ReadOut, CloseOut
<1>4. s.peer \in Ids
  BY DEF Socket
<1>5. w \in Seq(Packet) /\ c \in Seq(Packet) /\ o \in Seq(Packet)
  BY <1>1, <1>4, PacketsMade
<1>6. m \in Seq(Packet)
  BY <1>5
<1>7. TalkSeq(i, s.peer, FALSE, d, is_eof) = (<<>> \o m) \o c
  BY DEF TalkSeq
<1>8. TalkSeq(i, s.peer, TRUE, d, is_eof) = (o \o m) \o c
  BY DEF TalkSeq
<1> HIDE DEF w, c, o, m
<1>9. <<>> \o m = m
  BY <1>6
<1>10. (o \o m) \o c = o \o (m \o c)
  BY <1>5, <1>6, ConcatAssociative
<1>11. TalkSeq(i, s.peer, FALSE, d, is_eof) = ReadOut(x, i, s, n, is_eof)
  BY <1>3, <1>7, <1>9, Zenon
<1>12. TalkSeq(i, s.peer, TRUE, d, is_eof) = o \o ReadOut(x, i, s, n, is_eof)
  BY <1>3, <1>8, <1>10, Zenon
<1> QED BY <1>11, <1>12 DEF o, ReadTalk

\* At most one OKAY is said, and one if ok.
OkayIf(out, ok) ==
  /\ \A k, l \in 1..Len(out) : out[k].cmd = "OKAY" /\ out[l].cmd = "OKAY" => k = l
  /\ HasOkay(out) <=> ok

LEMMA TalkSeqSays ==
  ASSUME NEW i \in Ids, NEW s \in Socket, s.list = "open", s.peer # 0, NEW v,
         NEW d \in Seq(Unit), NEW ok \in BOOLEAN, NEW cl \in BOOLEAN, cl <=> v.list # "open",
         NEW out, out = TalkSeq(i, s.peer, ok, d, cl)
  PROVE  out \in Seq(Packet) /\ NoOpens(out) /\ TalkOut(s, v, i, out, d) /\ OkayIf(out, ok)
<1>1. s.peer \in Ids
  BY DEF Socket
<1>2. out \in Seq(Packet) /\ NoOpens(out) /\ TalkElements(i, s.peer, out, ok, d, cl)
  BY <1>1, TalkSeqOut
<1>3. \A k \in 1..Len(out) :
        /\ out[k].cmd \in {"OKAY", "WRTE", "CLSE"}
        /\ out[k].arg0 = i /\ out[k].arg1 = s.peer
        /\ out[k].cmd = "WRTE" => out[k].data = d /\ d # <<>>
        /\ out[k].cmd = "CLSE" => v.list # "open" /\ k = Len(out)
  BY <1>2 DEF TalkElements
<1>4. /\ \A k, l \in 1..Len(out) : out[k].cmd = "WRTE" /\ out[l].cmd = "WRTE" => k = l
      /\ d # <<>> => \E k \in 1..Len(out) : out[k].cmd = "WRTE"
  BY <1>2 DEF TalkElements
<1>5. v.list # "open" => \E k \in 1..Len(out) : out[k].cmd = "CLSE"
  BY <1>2 DEF TalkElements
<1>6. TalkOut(s, v, i, out, d)
  BY <1>3, <1>4, <1>5 DEF TalkOut
<1>7. OkayIf(out, ok)
  BY <1>2 DEF TalkElements, OkayIf
<1> QED BY <1>2, <1>6, <1>7

LEMMA NoneOkayed == OkayIf(<<>>, FALSE)
<1>1. \A k \in 1..Len(<<>>) : FALSE
  OBVIOUS
<1> QED BY <1>1 DEF OkayIf, HasOkay

\* Taking a packet changes the queues.
LEMMA RestDiffers ==
  ASSUME TypeOK, NEW x \in Side, net[x] # <<>>
  PROVE  Rest(x) # net
<1>1. net \in [Side -> Seq(Packet)] /\ net[x] \in Seq(Packet)
  BY DEF TypeOK
<1>2. Rest(x)[x] = Tail(net[x])
  BY <1>1 DEF Rest
<1>3. PICK t, u : t = Tail(net[x]) /\ u = net[x]
  OBVIOUS
<1>4. Len(t) = Len(u) - 1 /\ Len(u) \in Nat
  BY <1>1, <1>3, Tailed
<1>5. Len(t) # Len(u)
  BY <1>4
<1> QED BY <1>2, <1>3, <1>5

\* Reading, on the values: the socket s becomes v, sends d and says out.
LEMMA ReadTalks ==
  ASSUME TypeOK, NEW x \in Side, NEW i \in Ids, NEW s \in Socket, s.peer # 0 => s.list = "open",
         NEW n \in Nat, NEW is_eof \in BOOLEAN, NEW v, s.list = "open" => (is_eof <=> v.list # "open"),
         NEW d, NEW out, d = ReadData(x, i, s, n), NEW ok \in BOOLEAN,
         \/ ~ok /\ out = ReadOut(x, i, s, n, is_eof)
         \/ ok /\ s.peer # 0 /\ out = <<Okay(i, s.peer)>> \o ReadOut(x, i, s, n, is_eof)
  PROVE  /\ DataRead(x, i, s, n, d) /\ out \in Seq(Packet) /\ NoOpens(out) /\ TalkOut(s, v, i, out, d)
         /\ OkayIf(out, ok)
<1>1. DataRead(x, i, s, n, d)
  BY ReadUnits, Zenon
<1>2. d \in Seq(Unit)
  BY <1>1 DEF DataRead
<1>3. CASE s.peer = 0
  <2>1. d = <<>> /\ ReadOut(x, i, s, n, is_eof) = <<>>
    BY <1>3, ReadDropped
  <2>2. out = <<>> /\ ~ok
    BY <1>3, <2>1
  <2>3. TalkOut(s, v, i, <<>>, <<>>)
    BY <1>3, Silent
  <2>4. <<>> \in Seq(Packet) /\ NoOpens(<<>>)
    BY NothingSent DEF NoOpens
  <2>5. OkayIf(out, ok)
    BY <2>2, NoneOkayed DEF OkayIf
  <2> QED BY <1>1, <2>1, <2>2, <2>3, <2>4, <2>5
<1>4. CASE s.peer # 0
  <2>1. out = TalkSeq(i, s.peer, ok, d, is_eof)
    <3>1. /\ ReadOut(x, i, s, n, is_eof) = TalkSeq(i, s.peer, FALSE, d, is_eof)
          /\ <<Okay(i, s.peer)>> \o ReadOut(x, i, s, n, is_eof) = TalkSeq(i, s.peer, TRUE, d, is_eof)
      <4>1. ReadTalk(x, i, s, n, is_eof, ReadData(x, i, s, n))
        BY <1>4, ReadSays
      <4> QED BY <4>1, Zenon DEF ReadTalk
    <3>2. \/ ok = FALSE /\ out = TalkSeq(i, s.peer, FALSE, d, is_eof)
          \/ ok = TRUE /\ out = TalkSeq(i, s.peer, TRUE, d, is_eof)
      BY <3>1, Zenon
    <3> QED BY <3>2, Zenon
  <2>2. s.list = "open" /\ (is_eof <=> v.list # "open")
    BY <1>4
  <2>3. out \in Seq(Packet) /\ NoOpens(out) /\ TalkOut(s, v, i, out, d) /\ OkayIf(out, ok)
    BY <1>2, <1>4, <2>1, <2>2, TalkSeqSays
  <2> QED BY <1>1, <2>3
<1> QED BY <1>3, <1>4

\* Reading: what is read is sent, and at the end of the file the socket is
\* closed.
LEMMA ReadStep ==
  ASSUME StreamInv, NEW x \in Side, NEW i \in Ids, EventRead(x, i)
  PROVE  StreamInv' /\ SocketStep(x, i)
<1>1. TypeOK /\ BacklogHasPeer
  BY DEF StreamInv, TypeInv
<1> DEFINE S == sock[x][i]
<1>2. PICK n \in 0..MaxPayload, is_eof \in BOOLEAN :
       /\ CanRead(x, i, S, n, is_eof)
       /\ sock' = [sock EXCEPT ![x][i] = ReadSocket(S, n, is_eof)]
       /\ net' = Send(net, x, ReadOut(x, i, S, n, is_eof))
       /\ app' = [app EXCEPT ![x][i].sent = NowSent(x, i, S, n)]
  BY DEF EventRead
<1>3. PICK s : s = sock[x][i]
  OBVIOUS
<1>4. /\ s = sock[x][i]
      /\ CanRead(x, i, s, n, is_eof)
      /\ sock' = [sock EXCEPT ![x][i] = ReadSocket(s, n, is_eof)]
      /\ net' = Send(net, x, ReadOut(x, i, s, n, is_eof))
      /\ app' = [app EXCEPT ![x][i].sent = NowSent(x, i, s, n)]
  BY <1>2, <1>3
<1>5. n \in Nat /\ s.list # "none" /\ UNCHANGED <<next_id, online, link, gen, breaks, opens>>
  BY <1>4, StreamsAssumption DEF EventRead
<1>6. s \in Socket /\ app[x][i] \in App /\ WellFormed(s)
  BY <1>1, <1>4, BacklogOfEach DEF TypeOK
<1>7. PICK v, d, out, m : /\ v = ReadSocket(s, n, is_eof) /\ d = ReadData(x, i, s, n)
                          /\ out = ReadOut(x, i, s, n, is_eof) /\ m = NowSent(x, i, s, n)
  OBVIOUS
<1> DEFINE a == [app[x][i] EXCEPT !.sent = m]
<1>8. /\ v \in Socket /\ WellFormed(v)
      /\ is_eof => /\ v.list \in {"closing", "none"} /\ v.peer = 0
                   /\ s.list = "closing" => v = NoSocket
      /\ ~is_eof => v.list = s.list /\ v.peer = s.peer
      /\ ~is_eof \/ s.list # "closing" => v.pkts = s.pkts
  BY <1>5, <1>6, <1>7, SocketReadOrClosed
<1>9. /\ s.peer # 0 => s.list = "open"
      /\ s.list = "open" => (is_eof <=> v.list # "open")
  BY <1>5, <1>6, <1>8 DEF Socket, WellFormed
<1>10. /\ DataRead(x, i, s, n, d) /\ out \in Seq(Packet) /\ NoOpens(out) /\ TalkOut(s, v, i, out, d)
       /\ OkayIf(out, FALSE)
  <2>1. FALSE \in BOOLEAN /\ ~FALSE
    OBVIOUS
  <2> QED BY <1>1, <1>5, <1>6, <1>7, <1>9, <2>1, ReadTalks
<1>11. m \in Nat /\ m = app[x][i].sent + Len(d)
  BY <1>5, <1>6, <1>7, <1>10 DEF NowSent, App, DataRead
<1>12. /\ app' = [app EXCEPT ![x][i] = a] /\ a \in App
       /\ a.sent = m /\ a.got = app[x][i].got /\ a.mate = app[x][i].mate
       /\ a.gen = app[x][i].gen /\ a.end = app[x][i].end
  <2>1. app' = [app EXCEPT ![x][i] = a] /\ a \in App
    BY <1>1, <1>4, <1>7, <1>11, AppChanges
  <2> QED BY <1>6, <2>1 DEF App
<1>13. is_eof => app[x][i].end # "open"
  BY <1>4 DEF CanRead
<1>14. net' = Send(net, x, out) /\ sock' = [sock EXCEPT ![x][i] = v]
  BY <1>4, <1>7
<1> HIDE DEF a
<1>15. StreamInv' /\ Frame(x, i) /\ sock'[x][i] = v /\ app'[x][i] = a
  <2>1. OneStep(x, i, v, a, net, out)
    BY <1>5, <1>8, <1>10, <1>12, <1>14 DEF OneStep
  <2> QED BY <2>1, OneTalks DEF OneKept
<1>16. Takes(x, i, net, <<>>)
  BY DEF Takes
<1>17. Sends(x, i, d)
  BY <1>10, <1>11, <1>12, <1>15 DEF Sends, DataRead
<1>18. Gets(x, i, <<>>)
  <2>1. CASE v.pkts = s.pkts
    <3>1. Str(x, i)' = Str(x, i)
      BY <1>4, <1>12, <1>15, <2>1 DEF Str
    <3>2. Str(x, i) \o <<>> = Str(x, i)
      BY <1>4, <1>6 DEF Str, Socket, App
    <3> QED BY <3>1, <3>2 DEF Gets
  <2>2. CASE v.pkts # s.pkts
    <3>1. v = NoSocket /\ is_eof
      BY <1>8, <2>2
    <3>2. v.list = "none" /\ v.pkts = <<>>
      BY <3>1 DEF NoSocket
    <3> QED BY <1>12, <1>13, <1>15, <3>1, <3>2 DEF Gets
  <2> QED BY <2>1, <2>2
<1>19. Lives(x, i, net)
  <2>1. \/ v.list = s.list /\ v.peer = s.peer
        \/ v.list \in {"closing", "none"} /\ v.peer = 0
    BY <1>8
  <2>2. ~(s.list = "open" /\ v.list # "open" /\ app[x][i].end = "open")
    BY <1>8, <1>13
  <2> QED BY <1>4, <1>5, <1>12, <1>15, <2>1, <2>2 DEF Lives
<1>20. ~(net = Rest(x) /\ Receive(x, "WRTE"))
  BY <1>1, RestDiffers DEF Receive
<1>21. Credited(s, v, a, out, d, Took(x, net))
  <2>1. v.list = "open" => v.pkts = s.pkts /\ ~is_eof
    BY <1>5, <1>8
  <2>2. d # <<>> <=> s.peer # 0 /\ n # 0
    BY <1>5, <1>10 DEF DataRead
  <2>3. app[x][i].end = "open" => "READ" \in s.fde
    BY <1>4 DEF CanRead
  <2>4. ~HasOkay(out) /\ (\A k, l \in 1..Len(out) : out[k].cmd = "OKAY" /\ out[l].cmd = "OKAY" => k = l)
    BY <1>10 DEF OkayIf
  <2>5. /\ is_eof => "READ" \notin v.fde
        /\ ~is_eof => ("READ" \in v.fde <=> "READ" \in s.fde /\ (n = 0 \/ s.peer = 0))
    BY <1>5, <1>6, <1>7, ReadGivesUp
  <2>6. v.list = "open" => ("READ" \in v.fde <=> "READ" \in s.fde /\ d = <<>>)
    BY <2>1, <2>2, <2>5
  <2> QED BY <1>12, <1>20, <2>1, <2>3, <2>4, <2>5, <2>6 DEF Credited, Took
<1>22. Talks(x, i, net, out, d, <<>>)
  BY <1>4, <1>10, <1>14, <1>15, <1>16, <1>17, <1>18, <1>19, <1>21 DEF Talks
<1> QED BY <1>15, <1>22 DEF SocketStep

LEMMA UnitsAssociate == \A a, b, c \in Seq(Unit) : (a \o b) \o c = a \o (b \o c)
<1> TAKE a, b, c \in Seq(Unit)
<1> QED BY ConcatAssociative

\* Units, queued or written.
LEMMA UnitsJoined ==
  ASSUME NEW a \in Seq(Unit), NEW b \in Seq(Unit), NEW c \in Seq(Unit)
  PROVE  (a \o b) \o c = a \o (b \o c) /\ a \o <<>> = a /\ <<>> \o a = a /\ a \o b \in Seq(Unit)
<1>1. (a \o b) \o c = a \o (b \o c)
  BY ConcatAssociative
<1> QED BY <1>1

LEMMA UnitsSplit ==
  ASSUME NEW q \in Seq(Unit), NEW k \in 0..Len(q)
  PROVE  /\ SubSeq(q, 1, k) \in Seq(Unit) /\ SubSeq(q, k + 1, Len(q)) \in Seq(Unit)
         /\ SubSeq(q, 1, k) \o SubSeq(q, k + 1, Len(q)) = q
         /\ k < Len(q) => SubSeq(q, k + 1, Len(q)) # <<>>
<1> DEFINE a == SubSeq(q, 1, k)
           b == SubSeq(q, k + 1, Len(q))
<1>1. /\ a \in Seq(Unit) /\ Len(a) = k - 1 + 1
      /\ \A n \in 1..(k - 1 + 1) : n + (1 - 1) \in 1..Len(q) /\ a[n] = q[n + (1 - 1)]
  BY Cut
<1>2. /\ b \in Seq(Unit) /\ Len(b) = Len(q) - (k + 1) + 1
      /\ \A n \in 1..(Len(q) - (k + 1) + 1) : n + (k + 1 - 1) \in 1..Len(q) /\ b[n] = q[n + (k + 1 - 1)]
  BY Cut
<1> HIDE DEF a, b
<1>3. /\ Len(a) = k /\ Len(b) = Len(q) - k
      /\ \A n \in 1..k : a[n] = q[n]
      /\ \A n \in 1..(Len(q) - k) : b[n] = q[n + k]
  BY <1>1, <1>2
<1>4. /\ a \o b \in Seq(Unit) /\ Len(a \o b) = Len(a) + Len(b)
      /\ \A n \in 1..Len(a) : (a \o b)[n] = a[n]
      /\ \A n \in 1..Len(a \o b) : n > Len(a) => n - Len(a) \in 1..Len(b) /\ (a \o b)[n] = b[n - Len(a)]
  <2>1. a \in Seq(Unit) /\ b \in Seq(Unit)
    BY <1>1, <1>2
  <2> QED BY <2>1, Joined
<1> DEFINE c == a \o b
<1> HIDE DEF c
<1>5. Len(q) \in Nat /\ k \in Nat /\ k <= Len(q)
  OBVIOUS
<1>6. c \in Seq(Unit) /\ Len(c) = Len(q)
  BY <1>3, <1>4, <1>5 DEF c
<1>7. ASSUME NEW n \in 1..Len(c) PROVE c[n] = q[n]
  <2>1. CASE n <= k
    BY <1>3, <1>6, <1>4, <1>5, <2>1 DEF c
  <2>2. CASE n > k
    <3>1. n - k \in 1..(Len(q) - k) /\ c[n] = b[n - k]
      BY <1>3, <1>6, <1>4, <1>5, <2>2 DEF c
    <3>2. b[n - k] = q[n - k + k] /\ n - k + k = n
      BY <1>3, <1>5, <3>1
    <3> QED BY <3>1, <3>2
  <2> QED BY <1>5, <2>1, <2>2
<1>8. a \o b = q
  BY <1>6, <1>7, SeqEqual DEF c
<1>9. k < Len(q) => b # <<>>
  BY <1>3
<1> QED BY <1>1, <1>2, <1>8, <1>9 DEF a, b

\* What the socket's closing says.
LEMMA CloseSays ==
  ASSUME NEW i \in Ids, NEW s \in Socket, WellFormed(s), s.list # "none", NEW v, v.list # "open"
  PROVE  /\ CloseOut(i, s) \in Seq(Packet) /\ NoOpens(CloseOut(i, s)) /\ TalkOut(s, v, i, CloseOut(i, s), <<>>)
         /\ OkayIf(CloseOut(i, s), FALSE)
<1>1. CASE s.peer = 0
  <2>1. CloseOut(i, s) = <<>>
    BY <1>1 DEF CloseOut
  <2>2. TalkOut(s, v, i, <<>>, <<>>)
    BY <1>1, Silent
  <2>3. NoOpens(<<>>) /\ <<>> \in Seq(Packet)
    BY DEF NoOpens
  <2> QED BY <2>1, <2>2, <2>3, NoneOkayed, Zenon
<1>2. CASE s.peer # 0
  <2>1. s.list = "open"
    BY <1>2 DEF WellFormed, Socket
  <2>2. CloseOut(i, s) = TalkSeq(i, s.peer, FALSE, <<>>, TRUE)
    <3>1. CloseOut(i, s) = <<Clse(i, s.peer)>>
      BY <1>2 DEF CloseOut
    <3>2. TalkSeq(i, s.peer, FALSE, <<>>, TRUE) = (<<>> \o <<>>) \o <<Clse(i, s.peer)>>
      BY DEF TalkSeq
    <3>3. \A q : (<<>> \o <<>>) \o <<q>> = <<q>>
      OBVIOUS
    <3> QED BY <3>1, <3>2, <3>3
  <2>3. <<>> \in Seq(Unit) /\ TRUE \in BOOLEAN /\ FALSE \in BOOLEAN
    OBVIOUS
  <2>4. PICK out : out = TalkSeq(i, s.peer, FALSE, <<>>, TRUE)
    OBVIOUS
  <2>5. out \in Seq(Packet) /\ NoOpens(out) /\ TalkOut(s, v, i, out, <<>>) /\ OkayIf(out, FALSE)
    BY <1>2, <2>1, <2>3, <2>4, TalkSeqSays
  <2> QED BY <2>2, <2>4, <2>5
<1> QED BY <1>1, <1>2

\* An OKAY alone.
LEMMA OkaySays ==
  ASSUME NEW i \in Ids, NEW s \in Socket, s.list = "open", s.peer # 0, NEW v, v.list = "open"
  PROVE  <<Okay(i, s.peer)>> \in Seq(Packet) /\ NoOpens(<<Okay(i, s.peer)>>)
         /\ TalkOut(s, v, i, <<Okay(i, s.peer)>>, <<>>) /\ OkayIf(<<Okay(i, s.peer)>>, TRUE)
<1>1. <<Okay(i, s.peer)>> = TalkSeq(i, s.peer, TRUE, <<>>, FALSE)
  <2>1. TalkSeq(i, s.peer, TRUE, <<>>, FALSE) = (<<Okay(i, s.peer)>> \o <<>>) \o <<>>
    BY DEF TalkSeq
  <2>2. \A q : (<<q>> \o <<>>) \o <<>> = <<q>>
    OBVIOUS
  <2> QED BY <2>1, <2>2
<1>2. <<>> \in Seq(Unit) /\ TRUE \in BOOLEAN /\ FALSE \in BOOLEAN
  OBVIOUS
<1>3. PICK out : out = TalkSeq(i, s.peer, TRUE, <<>>, FALSE)
  OBVIOUS
<1>4. out \in Seq(Packet) /\ NoOpens(out) /\ TalkOut(s, v, i, out, <<>>) /\ OkayIf(out, TRUE)
  BY <1>2, <1>3, TalkSeqSays
<1> QED BY <1>1, <1>3, <1>4

\* A step of one socket, from what it makes of the socket s and of its program b.
SocketSaid(s, v, i, b, a, out, d, e, taken, took) ==
  /\ s.list # "none"
  /\ TalkOut(s, v, i, out, d)
  /\ d \in Seq(Unit) /\ a.sent = b.sent + Len(d)
  /\ \A k \in 1..Len(d) : d[k] = [gen |-> b.gen, id |-> i, n |-> b.sent + k]
  /\ \/ a.got \o v.pkts = (b.got \o s.pkts) \o e
     \/ v = NoSocket /\ b.end # "open" /\ a.got = b.got
  /\ \/ v.list = s.list /\ v.peer = s.peer
     \/ v.list \in {"closing", "none"} /\ v.peer = 0
  /\ a.mate = b.mate /\ a.gen = b.gen
  /\ b.end # "open" => a.end # "open"
  /\ s.list = "open" /\ v.list # "open" /\ b.end = "open" => taken
  /\ Credited(s, v, a, out, d, took)

\* A socket that is no longer open has nothing to answer for.
LEMMA ClosedIsCredited ==
  ASSUME NEW s, NEW v, NEW a, NEW out, NEW d, NEW took,
         v.list # "open", "READ" \notin v.fde, OkayIf(out, FALSE)
  PROVE  Credited(s, v, a, out, d, took)
BY DEF Credited, OkayIf

\* One that sends nothing and keeps its permission to send.
LEMMA KeptIsCredited ==
  ASSUME NEW s, NEW v, NEW a, NEW out, NEW took, NEW ok \in BOOLEAN, OkayIf(out, ok),
         "READ" \in s.fde <=> "READ" \in v.fde,
         ~(v.pkts # <<>> /\ ok), s.pkts # <<>> \/ took = "WRTE" <=> v.pkts # <<>> \/ ok
  PROVE  Credited(s, v, a, out, <<>>, took)
BY DEF Credited, OkayIf

LEMMA SocketSteps ==
  ASSUME StreamInv, NEW x \in Side, NEW i \in Ids, NEW v, NEW a, NEW r, NEW out, NEW d, NEW e,
         OneStep(x, i, v, a, r, out), Takes(x, i, r, e), NEW taken \in BOOLEAN,
         taken => r = Rest(x) /\ Receive(x, "CLSE"),
         NEW took, took = Took(x, r),
         SocketSaid(sock[x][i], v, i, app[x][i], a, out, d, e, taken, took)
  PROVE  StreamInv' /\ SocketStep(x, i)
<1>1. OneKept(x, i, v, a)
  BY OneTalks
<1>2. StreamInv' /\ Frame(x, i) /\ sock'[x][i] = v /\ app'[x][i] = a
  BY <1>1 DEF OneKept
<1>3. TalkOut(sock[x][i], sock'[x][i], i, out, d) /\ Sends(x, i, d)
  BY <1>2 DEF SocketSaid, Sends
<1>4. Gets(x, i, e)
  <2>1. CASE a.got \o v.pkts = (app[x][i].got \o sock[x][i].pkts) \o e
    BY <1>2, <2>1 DEF Gets, Str
  <2>2. CASE v = NoSocket /\ app[x][i].end # "open" /\ a.got = app[x][i].got
    BY <1>2, <2>2 DEF Gets, NoSocket
  <2> QED BY <2>1, <2>2 DEF SocketSaid
<1>5. Lives(x, i, r)
  BY <1>2 DEF Lives, SocketSaid
<1>6. net' = Send(r, x, out) /\ out \in Seq(Packet)
  BY DEF OneStep
<1>7. Credited(sock[x][i], sock'[x][i], app'[x][i], out, d, Took(x, r))
  BY <1>2 DEF SocketSaid
<1>8. Talks(x, i, r, out, d, e)
  BY <1>2, <1>3, <1>4, <1>5, <1>6, <1>7 DEF Talks
<1> QED BY <1>2, <1>8 DEF SocketStep

\* Part of the backlog is written.
LEMMA WriteSomeStep ==
  ASSUME StreamInv, NEW x \in Side, NEW i \in Ids, EventWriteSome(x, i)
  PROVE  StreamInv' /\ SocketStep(x, i)
<1>1. TypeOK /\ BacklogHasPeer
  BY DEF StreamInv, TypeInv
<1>2. PICK s : s = sock[x][i]
  OBVIOUS
<1>3. PICK b : b = app[x][i]
  OBVIOUS
<1>4. s \in Socket /\ b \in App /\ WellFormed(s)
  BY <1>1, <1>2, <1>3, BacklogOfEach DEF TypeOK
<1>5. PICK k \in 1..(Len(s.pkts) - 1) :
        /\ sock' = [sock EXCEPT ![x][i].pkts = SubSeq(s.pkts, k + 1, Len(s.pkts))]
        /\ app' = [app EXCEPT ![x][i].got = @ \o SubSeq(s.pkts, 1, k)]
  BY <1>2 DEF EventWriteSome
<1>6. "WRITE" \in s.fde /\ UNCHANGED <<next_id, online, net, link, gen, breaks, opens>>
  BY <1>2 DEF EventWriteSome
<1>7. PICK q, w : q = SubSeq(s.pkts, 1, k) /\ w = SubSeq(s.pkts, k + 1, Len(s.pkts))
  OBVIOUS
<1>8. q \in Seq(Unit) /\ w \in Seq(Unit) /\ q \o w = s.pkts /\ w # <<>>
  <2>1. s.pkts \in Seq(Unit) /\ k \in 0..Len(s.pkts) /\ k < Len(s.pkts)
    BY <1>4 DEF Socket
  <2> QED BY <1>7, <2>1, UnitsSplit
<1> DEFINE v == [s EXCEPT !.pkts = w]
           a == [b EXCEPT !.got = @ \o q]
<1>9. /\ v \in Socket /\ v.pkts = w /\ v.list = s.list /\ v.peer = s.peer /\ v.fde = s.fde
  BY <1>4, <1>8 DEF Socket
<1>10. WellFormed(v) /\ s.list # "none" /\ (s.list = "open" => v.list = "open")
  <2> HIDE DEF v
  <2> QED BY <1>4, <1>6, <1>8, <1>9 DEF WellFormed
<1>11. /\ a \in App /\ a.got = b.got \o q /\ a.sent = b.sent /\ a.mate = b.mate
       /\ a.gen = b.gen /\ a.end = b.end
       /\ app' = [app EXCEPT ![x][i] = a]
  <2>1. a \in App /\ app' = [app EXCEPT ![x][i] = a]
    BY <1>1, <1>3, <1>5, <1>7, <1>8, AppChanges
  <2> QED BY <1>4, <2>1 DEF App
<1>12. sock' = [sock EXCEPT ![x][i] = v]
  BY <1>2, <1>5, <1>7
<1> HIDE DEF v, a
<1>13. OneStep(x, i, v, a, net, <<>>)
  <2>1. net' = Send(net, x, <<>>) /\ <<>> \in Seq(Packet) /\ NoOpens(<<>>)
    BY <1>1, <1>6, NothingSent DEF NoOpens
  <2> QED BY <1>6, <1>9, <1>10, <1>11, <1>12, <2>1 DEF OneStep
<1>14. Takes(x, i, net, <<>>)
  BY DEF Takes
<1>15. a.got \o v.pkts = (b.got \o s.pkts) \o <<>>
  <2>1. b.got \in Seq(Unit) /\ s.pkts \in Seq(Unit)
    BY <1>4 DEF App, Socket
  <2>2. (b.got \o q) \o w = b.got \o (q \o w)
    <3>1. b.got \in Seq(Unit) /\ q \in Seq(Unit) /\ w \in Seq(Unit)
      BY <1>8, <2>1
    <3> QED BY <3>1, UnitsAssociate, Zenon
  <2>3. b.got \o s.pkts \in Seq(Unit)
    BY <2>1
  <2>4. (b.got \o s.pkts) \o <<>> = b.got \o s.pkts
    BY <2>3, UnitsJoined
  <2> QED BY <1>8, <1>9, <1>11, <2>4, <2>2
<1>16. SocketSaid(s, v, i, b, a, <<>>, <<>>, <<>>, FALSE, "none")
  <2>1. TalkOut(s, v, i, <<>>, <<>>)
    BY <1>10, Silent
  <2>2. b.sent \in Nat
    BY <1>4 DEF App
  <2>3. s.pkts # <<>>
    BY <1>4, <1>6 DEF WellFormed
  <2>4. Credited(s, v, a, <<>>, <<>>, "none")
    BY <1>8, <1>9, <2>3, NoneOkayed, KeptIsCredited
  <2> QED BY <1>9, <1>10, <1>11, <1>15, <2>1, <2>2, <2>4 DEF SocketSaid
<1>17. /\ FALSE \in BOOLEAN /\ (FALSE => net = Rest(x) /\ Receive(x, "CLSE"))
       /\ "none" = Took(x, net)
  BY <1>1, RestDiffers DEF Receive, Took
<1> QED BY <1>2, <1>3, <1>13, <1>14, <1>16, <1>17, SocketSteps

\* The write fails: the program is gone.
LEMMA WriteErrorStep ==
  ASSUME StreamInv, NEW x \in Side, NEW i \in Ids, EventWriteError(x, i)
  PROVE  StreamInv' /\ SocketStep(x, i)
<1>1. TypeOK /\ BacklogHasPeer
  BY DEF StreamInv, TypeInv
<1>2. PICK s : s = sock[x][i]
  OBVIOUS
<1>3. PICK b : b = app[x][i]
  OBVIOUS
<1>4. s \in Socket /\ b \in App /\ WellFormed(s)
  BY <1>1, <1>2, <1>3, BacklogOfEach DEF TypeOK
<1>5. /\ "WRITE" \in s.fde /\ b.end = "closed"
      /\ sock' = [sock EXCEPT ![x][i] = CloseSocket(s, TRUE)]
      /\ net' = Send(net, x, CloseOut(i, s))
      /\ UNCHANGED <<next_id, app, online, link, gen, breaks, opens>>
  BY <1>2, <1>3 DEF EventWriteError
<1>6. CloseSocket(s, TRUE) = NoSocket
  BY DEF CloseSocket
<1>7. s.list # "none"
  BY <1>4, <1>5 DEF WellFormed
<1>8. PICK v : v = NoSocket
  OBVIOUS
<1>9. v \in Socket /\ WellFormed(v) /\ v.list = "none" /\ v.peer = 0 /\ "READ" \notin v.fde
  BY <1>8, NoSocketTyped DEF NoSocket
<1>10. /\ CloseOut(i, s) \in Seq(Packet) /\ NoOpens(CloseOut(i, s)) /\ TalkOut(s, v, i, CloseOut(i, s), <<>>)
       /\ OkayIf(CloseOut(i, s), FALSE)
  BY <1>4, <1>7, <1>9, CloseSays
<1>11. OneStep(x, i, v, b, net, CloseOut(i, s))
  <2>1. app' = [app EXCEPT ![x][i] = b]
    BY <1>1, <1>3, <1>5, SameApp
  <2> QED BY <1>4, <1>5, <1>6, <1>8, <1>9, <1>10, <2>1 DEF OneStep
<1>12. Takes(x, i, net, <<>>)
  BY DEF Takes
<1>13. SocketSaid(s, v, i, b, b, CloseOut(i, s), <<>>, <<>>, FALSE, "none")
  <2>1. b.sent \in Nat
    BY <1>4 DEF App
  <2>2. <<>> \in Seq(Unit) /\ b.sent = b.sent + Len(<<>>)
    BY <2>1
  <2>3. Credited(s, v, b, CloseOut(i, s), <<>>, "none")
    BY <1>9, <1>10, ClosedIsCredited
  <2> QED BY <1>5, <1>7, <1>8, <1>9, <1>10, <2>2, <2>3 DEF SocketSaid
<1>14. /\ FALSE \in BOOLEAN /\ (FALSE => net = Rest(x) /\ Receive(x, "CLSE"))
       /\ "none" = Took(x, net)
  BY <1>1, RestDiffers DEF Receive, Took
<1> QED BY <1>2, <1>3, <1>11, <1>12, <1>13, <1>14, SocketSteps

\* The whole backlog is written: a closing socket is freed, an open one says
\* OKAY, and may go on reading.
LEMMA WriteAllStep ==
  ASSUME StreamInv, NEW x \in Side, NEW i \in Ids, EventWriteAll(x, i)
  PROVE  StreamInv' /\ SocketStep(x, i)
<1> DEFINE s == sock[x][i]
           b == app[x][i]
           w == [s EXCEPT !.pkts = <<>>, !.fde = @ \ {"WRITE"}]
           a == [b EXCEPT !.got = @ \o s.pkts]
<1>1. TypeOK /\ BacklogHasPeer
  BY DEF StreamInv, TypeInv
<1>2. s = sock[x][i]
  OBVIOUS
<1>3. b = app[x][i]
  OBVIOUS
<1>4. s \in Socket /\ b \in App /\ WellFormed(s)
  BY <1>1, BacklogOfEach DEF TypeOK
<1>5. w = [s EXCEPT !.pkts = <<>>, !.fde = @ \ {"WRITE"}] /\ a = [b EXCEPT !.got = @ \o s.pkts]
  OBVIOUS
<1>6. /\ "WRITE" \in s.fde /\ UNCHANGED <<next_id, online, link, gen, breaks, opens>>
      /\ \/ /\ s.list = "closing"
            /\ sock' = [sock EXCEPT ![x][i] = CloseSocket([s EXCEPT !.pkts = <<>>], FALSE)]
            /\ app' = [app EXCEPT ![x][i] = a]
            /\ UNCHANGED net
         \/ /\ s.list = "open"
            /\ sock' = [sock EXCEPT ![x][i] = w]
            /\ app' = [app EXCEPT ![x][i] = a]
            /\ net' = Send(net, x, <<Okay(i, s.peer)>>)
         \/ /\ s.list = "open"
            /\ \E n \in 0..MaxPayload, is_eof \in BOOLEAN :
                 /\ CanRead(x, i, s, n, is_eof)
                 /\ sock' = [sock EXCEPT ![x][i] = ReadSocket(w, n, is_eof)]
                 /\ net' = Send(net, x, <<Okay(i, s.peer)>> \o ReadOut(x, i, w, n, is_eof))
                 /\ app' = [app EXCEPT ![x][i] = [a EXCEPT !.sent = NowSent(x, i, s, n)]]
  BY DEF EventWriteAll
<1> HIDE DEF s, b, w, a
<1>7. /\ w \in Socket /\ w.pkts = <<>> /\ w.list = s.list /\ w.peer = s.peer /\ w.fde = s.fde \ {"WRITE"}
  <2>1. <<>> \in Seq(Unit)
    OBVIOUS
  <2>2. PICK e : e = <<>> /\ e \in Seq(Unit)
    BY <2>1
  <2>3. w = [s EXCEPT !.pkts = e, !.fde = @ \ {"WRITE"}]
    BY <2>2 DEF w
  <2>4. w \in Socket /\ w.pkts = e /\ w.list = s.list /\ w.peer = s.peer /\ w.fde = s.fde \ {"WRITE"}
    BY <1>4, <2>2, <2>3 DEF Socket
  <2> QED BY <2>2, <2>4
<1>8. WellFormed(w)
  BY <1>4, <1>7 DEF WellFormed
<1>9. s.list # "none" /\ (s.list = "open" => s.peer # 0)
  BY <1>4, <1>6 DEF WellFormed
<1>10. /\ a \in App /\ a.got = b.got \o s.pkts /\ a.sent = b.sent /\ a.mate = b.mate
       /\ a.gen = b.gen /\ a.end = b.end
  <2>1. b.got \o s.pkts \in Seq(Unit)
    BY <1>4 DEF App, Socket
  <2> QED BY <1>4, <1>5, <2>1 DEF App
<1>11. a.got \o <<>> = (b.got \o s.pkts) \o <<>>
  BY <1>10
<1>12. Takes(x, i, net, <<>>)
  BY DEF Takes
<1>13. /\ FALSE \in BOOLEAN /\ (FALSE => net = Rest(x) /\ Receive(x, "CLSE"))
       /\ "none" = Took(x, net)
  BY <1>1, RestDiffers DEF Receive, Took
<1>14. b.sent \in Nat /\ <<>> \in Seq(Unit) /\ b.sent = b.sent + Len(<<>>)
  BY <1>4 DEF App
<1>15. ASSUME s.list = "closing",
              sock' = [sock EXCEPT ![x][i] = CloseSocket([s EXCEPT !.pkts = <<>>], FALSE)],
              app' = [app EXCEPT ![x][i] = a], UNCHANGED net
       PROVE  StreamInv' /\ SocketStep(x, i)
  <2>1. PICK v : v = NoSocket
    OBVIOUS
  <2>2. CloseSocket([s EXCEPT !.pkts = <<>>], FALSE) = v
    BY <1>4, <2>1 DEF CloseSocket, Socket
  <2>3. v \in Socket /\ WellFormed(v) /\ v.list = "none" /\ v.peer = 0 /\ v.pkts = <<>> /\ "READ" \notin v.fde
    BY <2>1, NoSocketTyped DEF NoSocket
  <2>4. TalkOut(s, v, i, <<>>, <<>>)
    BY <1>15, Silent
  <2>5. OneStep(x, i, v, a, net, <<>>)
    <3>1. net' = Send(net, x, <<>>) /\ <<>> \in Seq(Packet) /\ NoOpens(<<>>)
      BY <1>1, <1>15, NothingSent DEF NoOpens
    <3> QED BY <1>6, <1>10, <1>15, <2>2, <2>3, <3>1 DEF OneStep
  <2>6. SocketSaid(s, v, i, b, a, <<>>, <<>>, <<>>, FALSE, "none")
    <3>1. Credited(s, v, a, <<>>, <<>>, "none")
      BY <2>3, NoneOkayed, ClosedIsCredited
    <3> QED BY <1>9, <1>10, <1>11, <1>14, <1>15, <2>3, <2>4, <3>1 DEF SocketSaid
  <2> QED BY <1>2, <1>3, <1>12, <1>13, <2>5, <2>6, SocketSteps
<1>16. ASSUME s.list = "open", sock' = [sock EXCEPT ![x][i] = w], app' = [app EXCEPT ![x][i] = a],
              net' = Send(net, x, <<Okay(i, s.peer)>>)
       PROVE  StreamInv' /\ SocketStep(x, i)
  <2>1. PICK out : out = <<Okay(i, s.peer)>>
    OBVIOUS
  <2>2. out \in Seq(Packet) /\ NoOpens(out) /\ TalkOut(s, w, i, out, <<>>) /\ OkayIf(out, TRUE)
    BY <1>4, <1>7, <1>9, <1>16, <2>1, OkaySays
  <2>3. OneStep(x, i, w, a, net, out)
    BY <1>6, <1>7, <1>8, <1>10, <1>16, <2>1, <2>2 DEF OneStep
  <2>4. SocketSaid(s, w, i, b, a, out, <<>>, <<>>, FALSE, "none")
    <3>1. s.pkts # <<>> /\ TRUE \in BOOLEAN
      BY <1>4, <1>6 DEF WellFormed
    <3>2. "READ" \in s.fde <=> "READ" \in w.fde
      BY <1>7
    <3>3. Credited(s, w, a, out, <<>>, "none")
      BY <1>7, <2>2, <3>1, <3>2, KeptIsCredited
    <3> QED BY <1>7, <1>9, <1>10, <1>11, <1>14, <1>16, <2>2, <3>3 DEF SocketSaid
  <2> QED BY <1>2, <1>3, <1>12, <1>13, <2>3, <2>4, SocketSteps
<1>17. ASSUME s.list = "open", NEW n \in 0..MaxPayload, NEW is_eof \in BOOLEAN,
              CanRead(x, i, s, n, is_eof),
              sock' = [sock EXCEPT ![x][i] = ReadSocket(w, n, is_eof)],
              net' = Send(net, x, <<Okay(i, s.peer)>> \o ReadOut(x, i, w, n, is_eof)),
              app' = [app EXCEPT ![x][i] = [a EXCEPT !.sent = NowSent(x, i, s, n)]]
       PROVE  StreamInv' /\ SocketStep(x, i)
  <2>1. PICK v, d, out, m : /\ v = ReadSocket(w, n, is_eof) /\ d = ReadData(x, i, w, n)
                            /\ out = <<Okay(i, w.peer)>> \o ReadOut(x, i, w, n, is_eof)
                            /\ m = NowSent(x, i, s, n)
    OBVIOUS
  <2>2. n \in Nat
    BY StreamsAssumption
  <2>3. /\ v \in Socket /\ WellFormed(v) /\ v.pkts = <<>>
        /\ is_eof => v.list \in {"closing", "none"} /\ v.peer = 0
        /\ ~is_eof => v.list = s.list /\ v.peer = s.peer
    <3>1. /\ v \in Socket /\ (WellFormed(w) => WellFormed(v))
          /\ is_eof => v.list \in {"closing", "none"} /\ v.peer = 0
          /\ ~is_eof => v.list = w.list /\ v.peer = w.peer
          /\ ~is_eof \/ w.list # "closing" => v.pkts = w.pkts
      BY <1>7, <2>1, <2>2, SocketReadOrClosed
    <3> QED BY <1>7, <1>8, <1>17, <3>1
  <2>4. /\ w.peer # 0 /\ w.list = "open"
        /\ is_eof <=> v.list # "open"
    BY <1>7, <1>9, <1>17, <2>3
  <2>5. /\ DataRead(x, i, w, n, d) /\ out \in Seq(Packet) /\ NoOpens(out) /\ TalkOut(w, v, i, out, d)
        /\ OkayIf(out, TRUE)
    <3>1. TRUE \in BOOLEAN
      OBVIOUS
    <3> QED BY <1>1, <1>7, <2>1, <2>2, <2>4, <3>1, ReadTalks
  <2>6. TalkOut(s, v, i, out, d)
    BY <1>7, <2>5 DEF TalkOut
  <2>7. m \in Nat /\ m = b.sent + Len(d)
    BY <1>3, <1>7, <1>14, <2>1, <2>2, <2>5 DEF NowSent, DataRead
  <2> DEFINE c == [a EXCEPT !.sent = m]
  <2>8. /\ c \in App /\ c.sent = m /\ c.got = a.got /\ c.mate = a.mate
        /\ c.gen = a.gen /\ c.end = a.end
    BY <1>10, <2>7 DEF App
  <2>9. /\ sock' = [sock EXCEPT ![x][i] = v] /\ app' = [app EXCEPT ![x][i] = c]
        /\ net' = Send(net, x, out)
    BY <1>7, <1>17, <2>1
  <2> HIDE DEF c
  <2>10. OneStep(x, i, v, c, net, out)
    BY <1>6, <2>3, <2>5, <2>8, <2>9 DEF OneStep
  <2>11. is_eof => b.end # "open"
    BY <1>3, <1>17 DEF CanRead
  <2>12. Credited(s, v, c, out, d, "none")
    <3>1. v.list = "open" => ~is_eof
      BY <2>3
    <3>2. d # <<>> <=> n # 0
      BY <2>2, <2>4, <2>5 DEF DataRead
    <3>3. b.end = "open" => "READ" \in s.fde
      BY <1>3, <1>17 DEF CanRead
    <3>4. HasOkay(out) /\ (\A k, l \in 1..Len(out) : out[k].cmd = "OKAY" /\ out[l].cmd = "OKAY" => k = l)
      BY <2>5 DEF OkayIf
    <3>5. "READ" \in w.fde <=> "READ" \in s.fde
      BY <1>7
    <3>6. /\ is_eof => "READ" \notin v.fde
          /\ ~is_eof => ("READ" \in v.fde <=> "READ" \in w.fde /\ (n = 0 \/ w.peer = 0))
      BY <1>7, <2>1, <2>2, ReadGivesUp
    <3>7. /\ v.list = "open" => ("READ" \in v.fde <=> "READ" \in s.fde /\ d = <<>>)
          /\ "READ" \in v.fde => "READ" \in s.fde
      BY <2>4, <3>1, <3>2, <3>5, <3>6
    <3>8. s.pkts # <<>> /\ v.pkts = <<>>
      BY <1>4, <1>6, <2>3 DEF WellFormed
    <3> QED BY <1>10, <2>8, <3>3, <3>4, <3>7, <3>8 DEF Credited
  <2>13. SocketSaid(s, v, i, b, c, out, d, <<>>, FALSE, "none")
    <3>1. d \in Seq(Unit) /\ (\A k \in 1..Len(d) : d[k] = [gen |-> b.gen, id |-> i, n |-> b.sent + k])
      BY <1>3, <2>5 DEF DataRead
    <3> QED BY <1>9, <1>10, <1>11, <2>3, <2>6, <2>7, <2>8, <2>11, <2>12, <3>1 DEF SocketSaid
  <2> QED BY <1>2, <1>3, <1>12, <1>13, <2>10, <2>13, SocketSteps
<1> QED BY <1>6, <1>15, <1>16, <1>17

\* The program hangs up.
LEMMA HangUpStep ==
  ASSUME StreamInv, NEW x \in Side, NEW i \in Ids, HangUp(x, i)
  PROVE  StreamInv' /\ SocketStep(x, i)
<1>1. TypeOK /\ BacklogHasPeer
  BY DEF StreamInv, TypeInv
<1>2. PICK s : s = sock[x][i]
  OBVIOUS
<1>3. PICK b : b = app[x][i]
  OBVIOUS
<1>4. s \in Socket /\ b \in App /\ WellFormed(s)
  BY <1>1, <1>2, <1>3, BacklogOfEach DEF TypeOK
<1>5. PICK e \in HangUps[x] : app' = [app EXCEPT ![x][i].end = e]
  BY DEF HangUp
<1>6. s.list # "none" /\ UNCHANGED <<next_id, sock, online, net, link, gen, breaks, opens>>
  BY <1>2 DEF HangUp
<1>7. e \in {"open", "shut", "closed"} /\ e # "open"
  BY StreamsAssumption
<1>8. PICK a : a = [b EXCEPT !.end = e]
  OBVIOUS
<1>9. /\ a \in App /\ a.got = b.got /\ a.sent = b.sent /\ a.mate = b.mate
      /\ a.gen = b.gen /\ a.end = e
  BY <1>4, <1>7, <1>8 DEF App
<1>10. app' = [app EXCEPT ![x][i] = a] /\ sock' = [sock EXCEPT ![x][i] = s]
  BY <1>1, <1>2, <1>3, <1>5, <1>6, <1>7, <1>8, AppChanges, SameApp
<1>11. OneStep(x, i, s, a, net, <<>>)
  <2>1. net' = Send(net, x, <<>>) /\ <<>> \in Seq(Packet) /\ NoOpens(<<>>)
    BY <1>1, <1>6, NothingSent DEF NoOpens
  <2> QED BY <1>4, <1>6, <1>9, <1>10, <2>1 DEF OneStep
<1>12. Takes(x, i, net, <<>>)
  BY DEF Takes
<1>13. SocketSaid(s, s, i, b, a, <<>>, <<>>, <<>>, FALSE, "none")
  <2>1. TalkOut(s, s, i, <<>>, <<>>)
    BY Silent
  <2>2. b.sent \in Nat /\ <<>> \in Seq(Unit) /\ b.sent = b.sent + Len(<<>>)
    BY <1>4 DEF App
  <2>3. a.got \o s.pkts = (b.got \o s.pkts) \o <<>>
    BY <1>4, <1>9 DEF App, Socket
  <2>4. FALSE \in BOOLEAN
    OBVIOUS
  <2>5. Credited(s, s, a, <<>>, <<>>, "none")
    BY <2>4, NoneOkayed, KeptIsCredited
  <2> QED BY <1>6, <1>7, <1>9, <2>1, <2>2, <2>3, <2>5 DEF SocketSaid
<1>14. /\ FALSE \in BOOLEAN /\ (FALSE => net = Rest(x) /\ Receive(x, "CLSE"))
       /\ "none" = Took(x, net)
  BY <1>1, RestDiffers DEF Receive, Took
<1> QED BY <1>2, <1>3, <1>11, <1>12, <1>13, <1>14, SocketSteps

\* CLSE for an open socket.
LEMMA ClseStep ==
  ASSUME StreamInv, NEW x \in Side, NEW p, p = Head(net[x]), HandleClse(x),
         online[x], Found(x, p.arg1, p.arg0)
  PROVE  StreamInv' /\ p.arg1 \in Ids /\ SocketStep(x, p.arg1)
<1>1. TypeOK /\ BacklogHasPeer
  BY DEF StreamInv, TypeInv
<1> DEFINE i == p.arg1
           s == sock[x][i]
           b == app[x][i]
<1>2. /\ Receive(x, "CLSE") /\ sock' = [sock EXCEPT ![x][i] = CloseSocket(s, FALSE)]
      /\ net' = Send(Rest(x), x, CloseOut(i, s))
      /\ UNCHANGED <<next_id, app, online, link, gen, breaks, opens>>
  BY DEF HandleClse
<1>3. p \in Packet /\ p.cmd = "CLSE" /\ net[x] # <<>>
  <2>1. net[x] \in Seq(Packet) /\ net[x] # <<>>
    BY <1>1, <1>2 DEF TypeOK, Receive
  <2> QED BY <1>2, <2>1, Tailed DEF Receive
<1>4. i \in Ids
  BY <1>3, PacketFields
<1>5. s = sock[x][i] /\ b = app[x][i]
  OBVIOUS
<1>6. s \in Socket /\ b \in App /\ WellFormed(s) /\ s.list = "open"
  BY <1>1, <1>4, BacklogOfEach DEF TypeOK, Found
<1>7. i = Head(net[x]).arg1
  OBVIOUS
<1>8. Found(x, i, Head(net[x]).arg0)
  OBVIOUS
<1> HIDE DEF i, s, b
<1>9. PICK v : v = CloseSocket(s, FALSE)
  OBVIOUS
<1>10. v \in Socket /\ WellFormed(v) /\ v.list \in {"closing", "none"} /\ v.peer = 0 /\ v.pkts = s.pkts /\ "READ" \notin v.fde
  <2>1. FALSE \in BOOLEAN /\ s.list # "closing"
    BY <1>6
  <2> QED BY <1>6, <1>9, <2>1, SocketClosed
<1>11. /\ CloseOut(i, s) \in Seq(Packet) /\ NoOpens(CloseOut(i, s)) /\ TalkOut(s, v, i, CloseOut(i, s), <<>>)
       /\ OkayIf(CloseOut(i, s), FALSE)
  <2>1. s.list # "none" /\ v.list # "open"
    BY <1>6, <1>10
  <2> QED BY <1>4, <1>6, <2>1, CloseSays
<1>12. OneStep(x, i, v, b, Rest(x), CloseOut(i, s))
  <2>1. app' = [app EXCEPT ![x][i] = b]
    BY <1>1, <1>2, <1>4, <1>5, SameApp
  <2> QED BY <1>2, <1>3, <1>6, <1>9, <1>10, <1>11, <2>1 DEF OneStep
<1>13. Takes(x, i, Rest(x), <<>>)
  <2>1. sock'[x][i].list # "open"
    BY <1>1, <1>2, <1>4, <1>9, <1>10 DEF TypeOK
  <2> QED BY <1>2, <1>7, <1>8, <2>1 DEF Takes
<1>14. SocketSaid(s, v, i, b, b, CloseOut(i, s), <<>>, <<>>, TRUE, "none")
  <2>1. b.sent \in Nat /\ <<>> \in Seq(Unit) /\ b.sent = b.sent + Len(<<>>)
    BY <1>6 DEF App
  <2>2. b.got \o v.pkts = (b.got \o s.pkts) \o <<>>
    BY <1>6, <1>10 DEF App, Socket
  <2>3. Credited(s, v, b, CloseOut(i, s), <<>>, "none")
    <3>1. v.list # "open"
      BY <1>10
    <3> QED BY <1>10, <1>11, <3>1, ClosedIsCredited
  <2> QED BY <1>6, <1>10, <1>11, <2>1, <2>2, <2>3 DEF SocketSaid
<1>15. /\ TRUE \in BOOLEAN /\ (TRUE => Rest(x) = Rest(x) /\ Receive(x, "CLSE"))
       /\ "none" = Took(x, Rest(x))
  BY <1>2 DEF Receive, Took
<1>16. StreamInv' /\ SocketStep(x, i)
  BY <1>4, <1>5, <1>12, <1>13, <1>14, <1>15, SocketSteps
<1> QED BY <1>4, <1>16 DEF i

\* WRTE for an open socket.
LEMMA EnqueueStep ==
  ASSUME StreamInv, NEW x \in Side, NEW p, p = Head(net[x]), Receive(x, "WRTE"),
         online[x], Found(x, p.arg1, p.arg0), Enqueue(x, p.arg1, p.data),
         UNCHANGED <<next_id, online, link, gen, breaks, opens>>
  PROVE  StreamInv' /\ p.arg1 \in Ids /\ SocketStep(x, p.arg1)
<1>1. TypeOK /\ BacklogHasPeer
  BY DEF StreamInv, TypeInv
<1> DEFINE i == p.arg1
           e == p.data
           s == sock[x][i]
           b == app[x][i]
<1>2. \/ /\ Backlogged(s)
         /\ sock' = [sock EXCEPT ![x][i].pkts = @ \o e]
         /\ net' = Rest(x)
         /\ UNCHANGED app
      \/ /\ ~Backlogged(s)
         /\ \E k \in 0..(Len(e) - 1) :
              /\ sock' = [sock EXCEPT ![x][i] =
                           [s EXCEPT !.pkts = SubSeq(e, k + 1, Len(e)),
                                     !.fde = @ \cup {"WRITE"}]]
              /\ app' = [app EXCEPT ![x][i].got = @ \o SubSeq(e, 1, k)]
              /\ net' = Rest(x)
      \/ /\ ~Backlogged(s)
         /\ app' = [app EXCEPT ![x][i].got = @ \o e]
         /\ net' = Send(Rest(x), x, <<Okay(i, s.peer)>>)
         /\ UNCHANGED sock
      \/ /\ ~Backlogged(s)
         /\ b.end = "closed"
         /\ sock' = [sock EXCEPT ![x][i] = CloseSocket(s, TRUE)]
         /\ net' = Send(Rest(x), x, CloseOut(i, s))
         /\ UNCHANGED app
  BY DEF Enqueue
<1>3. p \in Packet /\ p.cmd = "WRTE" /\ net[x] # <<>>
  <2>1. net[x] \in Seq(Packet) /\ net[x] # <<>>
    BY <1>1 DEF TypeOK, Receive
  <2> QED BY <2>1, Tailed DEF Receive
<1>4. i \in Ids /\ e \in Seq(Unit) /\ p.arg0 \in Ids
  BY <1>3, PacketFields
<1>5. s = sock[x][i] /\ b = app[x][i]
  OBVIOUS
<1>6. s \in Socket /\ b \in App /\ WellFormed(s)
  BY <1>1, <1>4, BacklogOfEach DEF TypeOK
<1>7. s.list = "open" /\ s.peer # 0
  BY <1>4, StreamsAssumption DEF Found, Ids
<1>8. Takes(x, i, Rest(x), e)
  BY DEF Takes
<1> HIDE DEF i, e, s, b
<1>9. /\ b.sent \in Nat /\ <<>> \in Seq(Unit) /\ b.sent = b.sent + Len(<<>>)
      /\ b.got \in Seq(Unit) /\ s.pkts \in Seq(Unit)
  BY <1>6 DEF App, Socket
<1>10. /\ FALSE \in BOOLEAN /\ (FALSE => Rest(x) = Rest(x) /\ Receive(x, "CLSE"))
       /\ "WRTE" = Took(x, Rest(x))
  BY DEF Took
<1>11. \A c, u, y \in Seq(Unit) : (c \o u) \o y = c \o (u \o y)
  BY ConcatAssociative
<1>12. /\ Rest(x) = Send(Rest(x), x, <<>>) /\ <<>> \in Seq(Packet) /\ NoOpens(<<>>)
  BY <1>1, NothingSent DEF NoOpens
<1>13. /\ app = [app EXCEPT ![x][i] = b] /\ sock = [sock EXCEPT ![x][i] = s]
  BY <1>1, <1>4, <1>5, SameApp
<1>14. ASSUME NEW q \in Seq(Unit)
       PROVE  /\ [app EXCEPT ![x][i].got = @ \o q] = [app EXCEPT ![x][i] = [b EXCEPT !.got = @ \o q]]
              /\ [b EXCEPT !.got = @ \o q] \in App
  BY <1>1, <1>4, <1>5, AppChanges
<1>15. ASSUME Backlogged(s), sock' = [sock EXCEPT ![x][i].pkts = @ \o e], net' = Rest(x), UNCHANGED app
       PROVE  StreamInv' /\ SocketStep(x, i)
  <2>1. PICK q : q = s.pkts \o e
    OBVIOUS
  <2>2. q \in Seq(Unit) /\ q # <<>>
    BY <1>4, <1>9, <1>15, <2>1 DEF Backlogged
  <2>3. PICK v : v = [s EXCEPT !.pkts = q]
    OBVIOUS
  <2>4. v \in Socket /\ v.list = s.list /\ v.peer = s.peer /\ v.fde = s.fde /\ v.pkts = q
    BY <1>6, <2>2, <2>3 DEF Socket
  <2>5. WellFormed(v)
    BY <1>6, <1>15, <2>2, <2>4 DEF WellFormed, Backlogged
  <2>6. sock' = [sock EXCEPT ![x][i] = v]
    BY <1>5, <1>15, <2>1, <2>3
  <2>7. OneStep(x, i, v, b, Rest(x), <<>>)
    BY <1>3, <1>6, <1>12, <1>13, <1>15, <2>4, <2>5, <2>6 DEF OneStep
  <2>8. TalkOut(s, v, i, <<>>, <<>>)
    BY <1>7, <2>4, Silent
  <2>9. b.got \o v.pkts = (b.got \o s.pkts) \o e
    <3>1. (b.got \o s.pkts) \o e = b.got \o (s.pkts \o e)
      BY <1>4, <1>9, UnitsAssociate, ZenonT(30)
    <3> QED BY <2>1, <2>4, <3>1
  <2>10. SocketSaid(s, v, i, b, b, <<>>, <<>>, e, FALSE, "WRTE")
    <3>1. s.pkts # <<>> /\ FALSE \in BOOLEAN
      BY <1>15 DEF Backlogged
    <3>2. Credited(s, v, b, <<>>, <<>>, "WRTE")
      BY <2>2, <2>4, <3>1, NoneOkayed, KeptIsCredited
    <3> QED BY <1>7, <1>9, <2>4, <2>8, <2>9, <3>2 DEF SocketSaid
  <2> QED BY <1>4, <1>5, <1>8, <1>10, <2>7, <2>10, SocketSteps
<1>16. ASSUME ~Backlogged(s), NEW k \in 0..(Len(e) - 1),
              sock' = [sock EXCEPT ![x][i] = [s EXCEPT !.pkts = SubSeq(e, k + 1, Len(e)),
                                                       !.fde = @ \cup {"WRITE"}]],
              app' = [app EXCEPT ![x][i].got = @ \o SubSeq(e, 1, k)], net' = Rest(x)
       PROVE  StreamInv' /\ SocketStep(x, i)
  <2>1. PICK q, w : q = SubSeq(e, 1, k) /\ w = SubSeq(e, k + 1, Len(e))
    OBVIOUS
  <2>2. q \in Seq(Unit) /\ w \in Seq(Unit) /\ q \o w = e /\ w # <<>>
    <3>1. k \in 0..Len(e) /\ k < Len(e)
      BY <1>4
    <3> QED BY <1>4, <2>1, <3>1, UnitsSplit
  <2>3. PICK v, a : v = [s EXCEPT !.pkts = w, !.fde = @ \cup {"WRITE"}] /\ a = [b EXCEPT !.got = @ \o q]
    OBVIOUS
  <2>4. v \in Socket /\ v.list = s.list /\ v.peer = s.peer /\ v.fde = s.fde \cup {"WRITE"} /\ v.pkts = w
    BY <1>6, <2>2, <2>3 DEF Socket
  <2>5. WellFormed(v)
    BY <1>6, <1>7, <2>2, <2>4 DEF WellFormed
  <2>6. /\ a \in App /\ a.got = b.got \o q /\ a.sent = b.sent /\ a.mate = b.mate
        /\ a.gen = b.gen /\ a.end = b.end /\ app' = [app EXCEPT ![x][i] = a]
    <3>1. a \in App /\ app' = [app EXCEPT ![x][i] = a]
      BY <1>14, <1>16, <2>1, <2>2, <2>3
    <3> QED BY <1>6, <2>3, <3>1 DEF App
  <2>7. OneStep(x, i, v, a, Rest(x), <<>>)
    BY <1>3, <1>12, <1>16, <2>1, <2>3, <2>4, <2>5, <2>6 DEF OneStep
  <2>8. TalkOut(s, v, i, <<>>, <<>>)
    BY <1>7, <2>4, Silent
  <2>9. a.got \o v.pkts = (b.got \o s.pkts) \o e
    <3>1. s.pkts = <<>> /\ b.got \o <<>> = b.got
      BY <1>9, <1>16 DEF Backlogged
    <3>2. (b.got \o q) \o w = b.got \o (q \o w)
      BY <1>9, <1>11, <2>2, Zenon
    <3> QED BY <2>2, <2>4, <2>6, <3>1, <3>2
  <2>10. SocketSaid(s, v, i, b, a, <<>>, <<>>, e, FALSE, "WRTE")
    <3>1. FALSE \in BOOLEAN /\ ("READ" \in s.fde <=> "READ" \in v.fde)
      BY <2>4
    <3>2. Credited(s, v, a, <<>>, <<>>, "WRTE")
      BY <2>2, <2>4, <3>1, NoneOkayed, KeptIsCredited
    <3> QED BY <1>7, <1>9, <2>4, <2>6, <2>8, <2>9, <3>2 DEF SocketSaid
  <2> QED BY <1>4, <1>5, <1>8, <1>10, <2>7, <2>10, SocketSteps
<1>17. ASSUME ~Backlogged(s), app' = [app EXCEPT ![x][i].got = @ \o e],
              net' = Send(Rest(x), x, <<Okay(i, s.peer)>>), UNCHANGED sock
       PROVE  StreamInv' /\ SocketStep(x, i)
  <2>1. PICK out, a : out = <<Okay(i, s.peer)>> /\ a = [b EXCEPT !.got = @ \o e]
    OBVIOUS
  <2>2. out \in Seq(Packet) /\ NoOpens(out) /\ TalkOut(s, s, i, out, <<>>) /\ OkayIf(out, TRUE)
    BY <1>4, <1>6, <1>7, <2>1, OkaySays
  <2>3. /\ a \in App /\ a.got = b.got \o e /\ a.sent = b.sent /\ a.mate = b.mate
        /\ a.gen = b.gen /\ a.end = b.end /\ app' = [app EXCEPT ![x][i] = a]
    <3>1. a \in App /\ app' = [app EXCEPT ![x][i] = a]
      BY <1>4, <1>14, <1>17, <2>1
    <3> QED BY <1>6, <2>1, <3>1 DEF App
  <2>4. OneStep(x, i, s, a, Rest(x), out)
    BY <1>3, <1>6, <1>13, <1>17, <2>1, <2>2, <2>3 DEF OneStep
  <2>5. a.got \o s.pkts = (b.got \o s.pkts) \o e
    <3>1. s.pkts = <<>> /\ b.got \o <<>> = b.got /\ (b.got \o e) \o <<>> = b.got \o e
      BY <1>4, <1>9, <1>17 DEF Backlogged
    <3> QED BY <2>3, <3>1
  <2>6. SocketSaid(s, s, i, b, a, out, <<>>, e, FALSE, "WRTE")
    <3>1. TRUE \in BOOLEAN /\ s.pkts = <<>>
      BY <1>17 DEF Backlogged
    <3>2. Credited(s, s, a, out, <<>>, "WRTE")
      BY <2>2, <3>1, KeptIsCredited
    <3> QED BY <1>7, <1>9, <2>2, <2>3, <2>5, <3>2 DEF SocketSaid
  <2> QED BY <1>4, <1>5, <1>8, <1>10, <2>4, <2>6, SocketSteps
<1>18. ASSUME b.end = "closed", sock' = [sock EXCEPT ![x][i] = CloseSocket(s, TRUE)],
              net' = Send(Rest(x), x, CloseOut(i, s)), UNCHANGED app
       PROVE  StreamInv' /\ SocketStep(x, i)
  <2>1. PICK v : v = NoSocket
    OBVIOUS
  <2>2. v \in Socket /\ WellFormed(v) /\ v.list = "none" /\ v.peer = 0 /\ CloseSocket(s, TRUE) = v /\ "READ" \notin v.fde
    BY <2>1, NoSocketTyped DEF CloseSocket, NoSocket
  <2>3. /\ CloseOut(i, s) \in Seq(Packet) /\ NoOpens(CloseOut(i, s)) /\ TalkOut(s, v, i, CloseOut(i, s), <<>>)
        /\ OkayIf(CloseOut(i, s), FALSE)
    <3>1. s.list # "none" /\ v.list # "open"
      BY <1>7, <2>2
    <3> QED BY <1>4, <1>6, <3>1, CloseSays
  <2>4. OneStep(x, i, v, b, Rest(x), CloseOut(i, s))
    BY <1>3, <1>6, <1>13, <1>18, <2>2, <2>3 DEF OneStep
  <2>5. SocketSaid(s, v, i, b, b, CloseOut(i, s), <<>>, e, FALSE, "WRTE")
    <3>1. Credited(s, v, b, CloseOut(i, s), <<>>, "WRTE")
      BY <2>2, <2>3, ClosedIsCredited
    <3> QED BY <1>7, <1>9, <1>18, <2>1, <2>2, <2>3, <3>1 DEF SocketSaid
  <2> QED BY <1>4, <1>5, <1>8, <1>10, <2>4, <2>5, SocketSteps
<1>19. StreamInv' /\ SocketStep(x, i)
  BY <1>2, <1>15, <1>16, <1>17, <1>18
<1> QED BY <1>4, <1>19 DEF i

\* A packet that changes no socket, and the answer out.
Ignored(x, out) ==
  /\ UNCHANGED <<next_id, sock, app, online, link, gen, breaks, opens>>
  /\ net[x] # <<>> /\ net' = Send(Rest(x), x, out)
  /\ LET p == Head(net[x]) IN
     \/ p.cmd = "OPEN" /\ ((out = <<>> /\ ~online[x]) \/ out = <<Clse(0, p.arg0)>>)
     \/ /\ p.cmd = "OKAY" /\ ~Answers(x, p)
        /\ \/ out = <<>> /\ (online[x] => sock[x][p.arg1].list = "open")
           \/ out = <<Clse(p.arg1, p.arg0)>> /\ sock[x][p.arg1].list # "open"
     \/ p.cmd \in {"CLSE", "WRTE"} /\ out = <<>> /\ ~(online[x] /\ Found(x, p.arg1, p.arg0))

LEMMA IgnoredKept ==
  ASSUME StreamInv, NEW x \in Side, NEW out, Ignored(x, out)
  PROVE  StreamInv' /\ out \in Seq(Packet) /\ NoOpens(out)
<1> USE DEF StreamInv, TypeInv
<1>1. Head(net[x]) \in Packet
  BY Tailed DEF Ignored, TypeOK
<1>2. out = <<>> \/ \E i \in Ids \cup {0}, j \in Ids : out = <<Clse(i, j)>>
  BY <1>1, PacketFields DEF Ignored
<1>3. \A i \in Ids \cup {0}, j \in Ids : Clse(i, j) \in Packet /\ Clse(i, j).cmd # "OPEN"
  BY PacketsMade DEF Clse
<1>4. out \in Seq(Packet) /\ NoOpens(out)
  <2>1. CASE out = <<>>
    BY <2>1 DEF NoOpens
  <2>2. ASSUME NEW i \in Ids \cup {0}, NEW j \in Ids, out = <<Clse(i, j)>>
        PROVE  out \in Seq(Packet) /\ NoOpens(out)
    <3>1. PICK p : p = Clse(i, j) /\ p \in Packet /\ p.cmd # "OPEN"
      BY <1>3
    <3>2. out = <<p>>
      BY <2>2, <3>1
    <3> QED BY <3>1, <3>2 DEF NoOpens
  <2> QED BY <1>2, <2>1, <2>2
<1>5. PICK r : r = Rest(x) /\ net[x] # <<>> /\ net' = Send(r, x, out) /\ UNCHANGED <<next_id, opens>>
  BY DEF Ignored
<1>6. net' \in [Side -> Seq(Packet)] /\ IdBudget' /\ (\A z \in Side : next_id'[z] <= opens' + 1)
  BY <1>4, <1>5, BudgetKept DEF NoOpens
<1>7. TypeOK'
  BY <1>6 DEF TypeOK, Ignored
<1>8. BacklogHasPeer'
  BY DEF BacklogHasPeer, Ignored
<1> QED BY <1>4, <1>6, <1>7, <1>8

\* The sockets of side x are closed, all of them if one may be open.
Reset(x, out) ==
  /\ UNCHANGED <<next_id, app, link, gen, breaks, opens>>
  /\ net[x] # <<>> /\ net' = Send(Rest(x), x, out) /\ out \in Seq(Packet)
  /\ Head(net[x]).cmd \in {"CNXN", "SYNC"}
  /\ online' = [online EXCEPT ![x] = (Head(net[x]).cmd = "CNXN")]
  /\ sock'[Other(x)] = sock[Other(x)]
  /\ \A i \in Ids : \/ sock'[x][i] = sock[x][i]
                    \/ /\ sock[x][i].list = "open" /\ sock'[x][i].list \in {"closing", "none"}
                       /\ sock'[x][i].peer = 0 /\ sock'[x][i].pkts = sock[x][i].pkts
  /\ online[x] \/ Head(net[x]).cmd = "SYNC" => \A i \in Ids : sock'[x][i].list # "open"
  /\ Head(net[x]).cmd = "CNXN" /\ ~online[x] => sock' = sock
  /\ \A n \in 1..Len(out) :
       \/ \E i \in Ids : /\ out[n] = Clse(i, sock[x][i].peer)
                         /\ sock[x][i].list = "open" /\ sock[x][i].peer \in Ids
                         /\ sock'[x][i].list # "open"
                         /\ (online[x] \/ Head(net[x]).cmd = "SYNC")
       \/ out[n] = Cnxn /\ Head(net[x]).cmd = "CNXN" /\ x = "device"
  /\ \A m, n \in 1..Len(out) : out[m] = Cnxn /\ out[n] = Cnxn => m = n
  /\ Head(net[x]).cmd = "CNXN" /\ ~online[x] =>
       Len(out) = (IF x = "device" THEN 1 ELSE 0) /\ (x = "device" => out[1] = Cnxn)

\* What CloseAll makes of the sockets.
LEMMA AllAreClosed ==
  ASSUME StreamInv, NEW x \in Side, sock' = [sock EXCEPT ![x] = CloseAll(x)]
  PROVE  /\ sock' \in [Side -> [Ids -> Socket]] /\ BacklogHasPeer'
         /\ sock'[Other(x)] = sock[Other(x)]
         /\ \A i \in Ids : \/ sock'[x][i] = sock[x][i]
                           \/ /\ sock[x][i].list = "open" /\ sock'[x][i].list \in {"closing", "none"}
                              /\ sock'[x][i].peer = 0 /\ sock'[x][i].pkts = sock[x][i].pkts
         /\ \A i \in Ids : sock'[x][i].list # "open"
<1>1. sock \in [Side -> [Ids -> Socket]] /\ BacklogHasPeer
  BY DEF StreamInv, TypeInv, TypeOK
<1>2. Other(x) \in Side /\ Other(x) # x /\ (\A z \in Side : z # x => z = Other(x))
  BY Sides
<1>3. ASSUME NEW i \in Ids
      PROVE  /\ CloseAll(x)[i] \in Socket /\ WellFormed(CloseAll(x)[i]) /\ CloseAll(x)[i].list # "open"
             /\ \/ CloseAll(x)[i] = sock[x][i]
                \/ /\ sock[x][i].list = "open" /\ CloseAll(x)[i].list \in {"closing", "none"}
                   /\ CloseAll(x)[i].peer = 0 /\ CloseAll(x)[i].pkts = sock[x][i].pkts
  <2>1. PICK s : s = sock[x][i]
    OBVIOUS
  <2>2. s \in Socket /\ WellFormed(s)
    BY <1>1, <2>1, BacklogOfEach
  <2>3. CASE s.list = "open"
    <3>1. PICK v : v = CloseSocket(s, FALSE)
      OBVIOUS
    <3>2. FALSE \in BOOLEAN /\ s.list # "closing"
      BY <2>3
    <3>3. v \in Socket /\ WellFormed(v) /\ v.list \in {"closing", "none"} /\ v.peer = 0 /\ v.pkts = s.pkts
      BY <2>2, <3>1, <3>2, SocketClosed
    <3>4. CloseAll(x)[i] = v
      BY <2>1, <2>3, <3>1 DEF CloseAll
    <3> QED BY <2>1, <2>3, <3>3, <3>4
  <2>4. CASE s.list # "open"
    <3>1. CloseAll(x)[i] = s
      BY <2>1, <2>4 DEF CloseAll
    <3> QED BY <2>1, <2>2, <2>4, <3>1
  <2> QED BY <2>3, <2>4
<1>4. CloseAll(x) \in [Ids -> Socket]
  <2>1. CloseAll(x) = [i \in Ids |-> CloseAll(x)[i]]
    BY DEF CloseAll
  <2> QED BY <1>3, <2>1
<1>5. sock' \in [Side -> [Ids -> Socket]] /\ sock'[x] = CloseAll(x) /\ sock'[Other(x)] = sock[Other(x)]
  BY <1>1, <1>2, <1>4
<1>6. \A z \in Side, i \in Ids : WellFormed(sock'[z][i])
  <2> TAKE z \in Side, i \in Ids
  <2>1. z = x \/ z = Other(x)
    BY <1>2
  <2>2. WellFormed(sock[Other(x)][i])
    BY <1>1, <1>2, BacklogOfEach
  <2> QED BY <1>3, <1>5, <2>1, <2>2
<1>7. BacklogHasPeer'
  BY <1>6 DEF BacklogHasPeer, WellFormed
<1> QED BY <1>3, <1>5, <1>7

LEMMA CnxnStep ==
  ASSUME StreamInv, NEW x \in Side, HandleCnxn(x)
  PROVE  StreamInv' /\ \E out : Reset(x, out)
<1>1. TypeOK /\ BacklogHasPeer /\ TypeInv
  BY DEF StreamInv, TypeInv
<1>2. /\ Receive(x, "CNXN")
      /\ sock' = IF online[x] THEN [sock EXCEPT ![x] = CloseAll(x)] ELSE sock
      /\ online' = [online EXCEPT ![x] = TRUE]
      /\ UNCHANGED <<next_id, app, link, gen, breaks, opens>>
  BY DEF HandleCnxn
<1>3. PICK A, B : /\ A = (IF online[x] THEN CloseAllOut(x) ELSE <<>>)
                  /\ B = (IF x = "device" THEN <<Cnxn>> ELSE <<>>)
  OBVIOUS
<1>4. PICK out : out = A \o B
  OBVIOUS
<1>5. PICK r : r = Rest(x)
  OBVIOUS
<1>6. net' = Send(r, x, out)
  BY <1>3, <1>4, <1>5 DEF HandleCnxn
<1>7. net[x] # <<>> /\ Head(net[x]).cmd = "CNXN"
  BY <1>2 DEF Receive
<1>8. /\ sock' \in [Side -> [Ids -> Socket]] /\ BacklogHasPeer'
      /\ sock'[Other(x)] = sock[Other(x)]
      /\ \A i \in Ids : \/ sock'[x][i] = sock[x][i]
                        \/ /\ sock[x][i].list = "open" /\ sock'[x][i].list \in {"closing", "none"}
                           /\ sock'[x][i].peer = 0 /\ sock'[x][i].pkts = sock[x][i].pkts
      /\ online[x] => \A i \in Ids : sock'[x][i].list # "open"
      /\ ~online[x] => sock' = sock
  <2>1. CASE online[x]
    BY <1>2, <2>1, AllAreClosed
  <2>2. CASE ~online[x]
    <3>1. sock' = sock
      BY <1>2, <2>2
    <3> QED BY <1>1, <2>2, <3>1 DEF TypeOK, BacklogHasPeer
  <2> QED BY <2>1, <2>2
<1>9. /\ A \in Seq(Packet)
      /\ \A n \in 1..Len(A) : \E i \in Ids : /\ A[n] = Clse(i, sock[x][i].peer)
                                             /\ sock[x][i].list = "open" /\ sock[x][i].peer \in Ids
                                             /\ online[x]
  <2>1. CASE online[x]
    BY <1>1, <1>3, <2>1, AllClosed
  <2>2. CASE ~online[x]
    BY <1>3, <2>2
  <2> QED BY <2>1, <2>2
<1>10. /\ B \in Seq(Packet) /\ Len(B) <= 1 /\ \A n \in 1..Len(B) : B[n] = Cnxn /\ x = "device"
  BY <1>3, PacketsMade
<1>11. /\ out \in Seq(Packet)
       /\ \A n \in 1..Len(out) :
            \/ n \in 1..Len(A) /\ out[n] = A[n]
            \/ n = Len(A) + 1 /\ out[n] = Cnxn /\ x = "device"
  <2>1. /\ out \in Seq(Packet) /\ Len(out) = Len(A) + Len(B)
        /\ \A n \in 1..Len(A) : out[n] = A[n]
        /\ \A n \in 1..Len(out) : n > Len(A) => n - Len(A) \in 1..Len(B) /\ out[n] = B[n - Len(A)]
    BY <1>4, <1>9, <1>10, Joined
  <2>2. Len(A) \in Nat /\ Len(B) \in Nat
    BY <1>9, <1>10
  <2>3. \A n \in 1..Len(out) : n > Len(A) => n = Len(A) + 1
    BY <1>10, <2>1, <2>2
  <2>4. \A n \in 1..Len(out) : n \in 1..Len(A) \/ n > Len(A)
    BY <2>1, <2>2
  <2> QED BY <1>10, <2>1, <2>3, <2>4
<1>12. \A n \in 1..Len(A) : A[n].cmd = "CLSE"
  <2>1. \A i, j : Clse(i, j).cmd = "CLSE"
    BY DEF Clse
  <2> QED BY <1>9, <2>1
<1>13. Cnxn.cmd = "CNXN"
  BY DEF Cnxn
<1>14. \A n \in 1..Len(out) :
       \/ \E i \in Ids : /\ out[n] = Clse(i, sock[x][i].peer)
                         /\ sock[x][i].list = "open" /\ sock[x][i].peer \in Ids
                         /\ sock'[x][i].list # "open"
                         /\ online[x]
       \/ out[n] = Cnxn /\ x = "device"
  BY <1>8, <1>9, <1>11
<1>15. \A m, n \in 1..Len(out) : out[m] = Cnxn /\ out[n] = Cnxn => m = n
  BY <1>11, <1>12, <1>13
<1>16. \A n \in 1..Len(out) : out[n].cmd # "OPEN"
  BY <1>11, <1>12, <1>13
<1>20. ~online[x] => Len(out) = (IF x = "device" THEN 1 ELSE 0) /\ (x = "device" => out[1] = Cnxn)
  <2>1. CASE ~online[x] /\ x = "device"
    <3>1. A = <<>> /\ B = <<Cnxn>>
      BY <1>3, <2>1
    <3> QED BY <1>4, <2>1, <3>1
  <2>2. CASE ~online[x] /\ x # "device"
    <3>1. A = <<>> /\ B = <<>>
      BY <1>3, <2>2
    <3> QED BY <1>4, <2>2, <3>1
  <2> QED BY <2>1, <2>2
<1>17. net' \in [Side -> Seq(Packet)] /\ IdBudget' /\ (\A z \in Side : next_id'[z] <= opens' + 1)
  BY <1>1, <1>2, <1>5, <1>6, <1>7, <1>11, <1>16, BudgetKept
<1>18. StreamInv'
  BY <1>1, <1>2, <1>8, <1>17 DEF StreamInv, TypeInv, TypeOK
<1>19. Reset(x, out)
  BY <1>2, <1>5, <1>6, <1>7, <1>8, <1>11, <1>14, <1>15, <1>20 DEF Reset
<1> QED BY <1>18, <1>19

LEMMA OfflineStep ==
  ASSUME StreamInv, NEW x \in Side, HandleOffline(x)
  PROVE  StreamInv' /\ \E out : Reset(x, out)
<1>1. TypeOK /\ BacklogHasPeer /\ TypeInv
  BY DEF StreamInv, TypeInv
<1>2. /\ Receive(x, "SYNC")
      /\ sock' = [sock EXCEPT ![x] = CloseAll(x)]
      /\ online' = [online EXCEPT ![x] = FALSE]
      /\ UNCHANGED <<next_id, app, link, gen, breaks, opens>>
  BY DEF HandleOffline
<1>3. PICK out, r : out = CloseAllOut(x) /\ r = Rest(x)
  OBVIOUS
<1>4. net' = Send(r, x, out)
  BY <1>3 DEF HandleOffline
<1>5. net[x] # <<>> /\ Head(net[x]).cmd = "SYNC"
  BY <1>2 DEF Receive
<1>6. /\ sock' \in [Side -> [Ids -> Socket]] /\ BacklogHasPeer'
      /\ sock'[Other(x)] = sock[Other(x)]
      /\ \A i \in Ids : \/ sock'[x][i] = sock[x][i]
                        \/ /\ sock[x][i].list = "open" /\ sock'[x][i].list \in {"closing", "none"}
                           /\ sock'[x][i].peer = 0 /\ sock'[x][i].pkts = sock[x][i].pkts
      /\ \A i \in Ids : sock'[x][i].list # "open"
  BY <1>2, AllAreClosed
<1>7. /\ out \in Seq(Packet)
      /\ \A n \in 1..Len(out) : \E i \in Ids : /\ out[n] = Clse(i, sock[x][i].peer)
                                               /\ sock[x][i].list = "open" /\ sock[x][i].peer \in Ids
  BY <1>1, <1>3, AllClosed
<1>8. \A n \in 1..Len(out) : out[n].cmd = "CLSE"
  <2>1. \A i, j : Clse(i, j).cmd = "CLSE"
    BY DEF Clse
  <2> QED BY <1>7, <2>1
<1>9. Cnxn.cmd = "CNXN"
  BY DEF Cnxn
<1>10. net' \in [Side -> Seq(Packet)] /\ IdBudget' /\ (\A z \in Side : next_id'[z] <= opens' + 1)
  <2>1. \A n \in 1..Len(out) : out[n].cmd # "OPEN"
    BY <1>8
  <2> QED BY <1>1, <1>2, <1>3, <1>4, <1>5, <1>7, <2>1, BudgetKept
<1>11. StreamInv'
  BY <1>1, <1>2, <1>6, <1>10 DEF StreamInv, TypeInv, TypeOK
<1>12. \A n \in 1..Len(out) :
         \E i \in Ids : /\ out[n] = Clse(i, sock[x][i].peer)
                       /\ sock[x][i].list = "open" /\ sock[x][i].peer \in Ids
                       /\ sock'[x][i].list # "open"
  BY <1>6, <1>7
<1>13. /\ net' = Send(Rest(x), x, out)
       /\ online' = [online EXCEPT ![x] = (Head(net[x]).cmd = "CNXN")]
  <2>1. (Head(net[x]).cmd = "CNXN") = FALSE
    BY <1>5
  <2>2. net' = Send(Rest(x), x, out)
    BY <1>3, <1>4
  <2> QED BY <1>2, <2>1, <2>2
<1>14. \A n \in 1..Len(out) : out[n] # Cnxn
  BY <1>8, <1>9
<1>15. Reset(x, out)
  BY <1>2, <1>5, <1>6, <1>7, <1>12, <1>13, <1>14 DEF Reset
<1> QED BY <1>11, <1>15

\* A new socket s of side x, with the program a.
Created(x, s, a) ==
  LET i == next_id[x] IN
  /\ i \in Ids
  /\ next_id' = [next_id EXCEPT ![x] = i + 1]
  /\ sock' = [sock EXCEPT ![x][i] = s] /\ app' = [app EXCEPT ![x][i] = a]
  /\ UNCHANGED <<online, link, gen, breaks>>
  /\ online[x]

\* Connect, and an OPEN that is answered with OKAY.
Connected(x) ==
  /\ Created(x, [NoSocket EXCEPT !.list = "open"], NewApp(gen, 0))
  /\ net' = Send(net, x, <<Open(next_id[x])>>)
  /\ opens' = opens + 1

Accepted(x, p) ==
  /\ Receive(x, "OPEN") /\ p = Head(net[x]) /\ p \in Packet /\ p.arg0 \in Ids /\ p.gen \in Nat
  /\ Created(x, [list |-> "open", peer |-> p.arg0, fde |-> {"READ"}, pkts |-> <<>>],
                NewApp(p.gen, p.arg0))
  /\ net' = Send(Rest(x), x, <<Okay(next_id[x], p.arg0)>>)
  /\ opens' = opens

LEMMA NewSockets ==
  /\ [NoSocket EXCEPT !.list = "open"] \in Socket /\ WellFormed([NoSocket EXCEPT !.list = "open"])
  /\ \A j \in Ids : LET s == [list |-> "open", peer |-> j, fde |-> {"READ"}, pkts |-> <<>>]
                    IN  s \in Socket /\ WellFormed(s)
  /\ \A g \in Nat, j \in Ids \cup {0} : NewApp(g, j) \in App
<1>1. <<>> \in Seq(Unit)
  OBVIOUS
<1> QED BY <1>1 DEF NoSocket, Socket, WellFormed, NewApp, App

LEMMA ConnectStep ==
  ASSUME StreamInv, NEW x \in Side, Connect(x)
  PROVE  StreamInv' /\ Connected(x)
<1>1. TypeOK /\ BacklogHasPeer /\ IdBudget
  BY DEF StreamInv, TypeInv
<1>2. /\ online[x] /\ opens < MaxId /\ opens' = opens + 1
      /\ next_id' = [next_id EXCEPT ![x] = next_id[x] + 1]
      /\ sock' = [sock EXCEPT ![x][next_id[x]] = [NoSocket EXCEPT !.list = "open"]]
      /\ app' = [app EXCEPT ![x][next_id[x]] = NewApp(gen, 0)]
      /\ net' = Send(net, x, <<Open(next_id[x])>>)
      /\ UNCHANGED <<online, link, gen, breaks>>
  BY DEF Connect
<1>3. PICK i : i = next_id[x]
  OBVIOUS
<1>4. i \in Ids
  BY <1>1, <1>2, <1>3, StreamsAssumption DEF TypeOK, Ids
<1>5. PICK s, a : s = [NoSocket EXCEPT !.list = "open"] /\ a = NewApp(gen, 0)
  OBVIOUS
<1>6. s \in Socket /\ WellFormed(s) /\ a \in App
  BY <1>1, <1>5, NewSockets DEF TypeOK
<1>7. sock' \in [Side -> [Ids -> Socket]] /\ app' \in [Side -> [Ids -> App]] /\ BacklogHasPeer'
  BY <1>1, <1>2, <1>3, <1>4, <1>5, <1>6, OneChanges
<1>8. PICK out : out = <<Open(i)>>
  OBVIOUS
<1>9. Open(i) \in Packet /\ out \in Seq(Packet)
  BY <1>1, <1>4, <1>8, PacketsMade DEF TypeOK
<1>10. /\ net' \in [Side -> Seq(Packet)]
       /\ net'[x] = net[x]
       /\ net'[Other(x)] = net[Other(x)] \o out \/ net'[Other(x)] = net[Other(x)]
  BY <1>1, <1>2, <1>3, <1>8, <1>9, NetStep DEF TypeOK
<1>11. Other(x) \in Side /\ Other(x) # x /\ (\A z \in Side : z = x \/ z = Other(x))
  BY Sides
<1>12. OpensIn(net[x]) \in Nat /\ OpensIn(net[Other(x)]) \in Nat
  BY <1>1, <1>11, OpensCounted DEF TypeOK
<1>13. OpensIn(net'[Other(x)]) <= OpensIn(net[Other(x)]) + 1 /\ OpensIn(net'[Other(x)]) \in Nat
  <2>1. CASE net'[Other(x)] = net[Other(x)]
    BY <1>12, <2>1
  <2>2. CASE net'[Other(x)] = net[Other(x)] \o out
    <3>1. net[Other(x)] \in Seq(Packet)
      BY <1>1, <1>11 DEF TypeOK
    <3>2. /\ OpensIn(net[Other(x)] \o <<Open(i)>>) <= OpensIn(net[Other(x)]) + 1
          /\ OpensIn(net[Other(x)] \o <<Open(i)>>) \in Nat
      BY <1>9, <3>1, OpensAppended
    <3> QED BY <1>8, <2>2, <3>2
  <2> QED BY <1>10, <2>1, <2>2
<1>14. /\ next_id' \in [Side -> Nat \ {0}] /\ next_id'[x] = next_id[x] + 1
       /\ next_id'[Other(x)] = next_id[Other(x)]
       /\ next_id[x] \in Nat /\ next_id[Other(x)] \in Nat /\ opens \in Nat
  BY <1>1, <1>2, <1>11 DEF TypeOK
<1>15. \A z \in Side : next_id'[z] + OpensIn(net'[z]) <= opens' + 1 /\ next_id'[z] <= opens' + 1
  <2>1. /\ next_id[x] + OpensIn(net[x]) <= opens + 1
        /\ next_id[Other(x)] + OpensIn(net[Other(x)]) <= opens + 1
    BY <1>1, <1>11 DEF IdBudget
  <2>2. next_id'[x] + OpensIn(net'[x]) <= opens' + 1 /\ next_id'[x] <= opens' + 1
    BY <1>2, <1>10, <1>12, <1>14, <2>1
  <2>3. next_id'[Other(x)] + OpensIn(net'[Other(x)]) <= opens' + 1 /\ next_id'[Other(x)] <= opens' + 1
    BY <1>2, <1>12, <1>13, <1>14, <2>1
  <2> QED BY <1>11, <2>2, <2>3
<1>16. opens' \in 0..MaxId
  BY <1>2, <1>14, StreamsAssumption
<1>17. StreamInv'
  BY <1>1, <1>2, <1>7, <1>10, <1>14, <1>15, <1>16 DEF StreamInv, TypeInv, TypeOK, IdBudget
<1>18. Connected(x)
  BY <1>2, <1>3, <1>4 DEF Connected, Created
<1> QED BY <1>17, <1>18

LEMMA AcceptStep ==
  ASSUME StreamInv, NEW x \in Side, NEW p, p = Head(net[x]), Receive(x, "OPEN"), online[x],
         next_id' = [next_id EXCEPT ![x] = next_id[x] + 1],
         sock' = [sock EXCEPT ![x][next_id[x]] = [list |-> "open", peer |-> p.arg0,
                                                  fde |-> {"READ"}, pkts |-> <<>>]],
         app' = [app EXCEPT ![x][next_id[x]] = NewApp(p.gen, p.arg0)],
         net' = Send(Rest(x), x, <<Okay(next_id[x], p.arg0)>>),
         UNCHANGED <<online, link, gen, breaks, opens>>
  PROVE  StreamInv' /\ Accepted(x, p)
<1>1. TypeOK /\ BacklogHasPeer /\ IdBudget
  BY DEF StreamInv, TypeInv
<1>2. net[x] # <<>> /\ net[x] \in Seq(Packet) /\ p.cmd = "OPEN"
  BY <1>1 DEF Receive, TypeOK
<1>3. /\ p \in Packet /\ p = net[x][1] /\ Len(net[x]) > 0
      /\ Tail(net[x]) \in Seq(Packet)
      /\ \A n \in 1..Len(Tail(net[x])) : n + 1 \in 1..Len(net[x]) /\ Tail(net[x])[n] = net[x][n + 1]
  BY <1>2, Tailed
<1>4. p.arg0 \in Ids /\ p.gen \in Nat
  BY <1>2, <1>3, PacketFields
<1>5. Other(x) \in Side /\ Other(x) # x /\ (\A z \in Side : z = x \/ z = Other(x))
  BY Sides
<1>6. OpensIn(Tail(net[x])) + 1 <= OpensIn(net[x])
  <2>1. PICK q, w : q = net[x] /\ w = Tail(net[x])
    OBVIOUS
  <2>2. /\ q \in Seq(Packet) /\ w \in Seq(Packet) /\ 1 \in Nat /\ 1 > 0 /\ Len(q) > 0 /\ q[1].cmd = "OPEN"
        /\ \A n \in 1..Len(w) : n + 1 \in 1..Len(q) /\ w[n] = q[n + 1]
    BY <1>2, <1>3, <2>1
  <2>3. OpensIn(w) + 1 <= OpensIn(q)
    BY <2>2, OpensInPart
  <2> QED BY <2>1, <2>3
<1>7. OpensIn(net[x]) \in Nat /\ OpensIn(Tail(net[x])) \in Nat /\ OpensIn(net[Other(x)]) \in Nat
  BY <1>1, <1>2, <1>3, <1>5, OpensCounted DEF TypeOK
<1>8. /\ next_id[x] \in Nat \ {0} /\ next_id[Other(x)] \in Nat \ {0} /\ opens \in 0..MaxId
      /\ next_id[x] + OpensIn(net[x]) <= opens + 1
      /\ next_id[Other(x)] + OpensIn(net[Other(x)]) <= opens + 1
  BY <1>1, <1>5 DEF TypeOK, IdBudget
<1>9. PICK i : i = next_id[x]
  OBVIOUS
<1>10. i \in Ids
  <2>1. PICK u, v : u = OpensIn(net[x]) /\ v = OpensIn(Tail(net[x]))
    OBVIOUS
  <2>2. u \in Nat /\ v \in Nat /\ v + 1 <= u /\ i \in Nat \ {0} /\ opens \in 0..MaxId /\ i + u <= opens + 1
    BY <1>6, <1>7, <1>8, <1>9, <2>1
  <2>3. i <= opens
    BY <2>2
  <2>4. i <= MaxId
    BY <2>2, <2>3, StreamsAssumption
  <2> QED BY <2>2, <2>4, StreamsAssumption DEF Ids
<1>11. PICK s, a : /\ s = [list |-> "open", peer |-> p.arg0, fde |-> {"READ"}, pkts |-> <<>>]
                   /\ a = NewApp(p.gen, p.arg0)
  OBVIOUS
<1>12. s \in Socket /\ WellFormed(s) /\ a \in App
  BY <1>4, <1>11, NewSockets
<1>13. sock' \in [Side -> [Ids -> Socket]] /\ app' \in [Side -> [Ids -> App]] /\ BacklogHasPeer'
  BY <1>1, <1>9, <1>10, <1>11, <1>12, OneChanges
<1>14. PICK q : q = Okay(i, p.arg0)
  OBVIOUS
<1>15. q \in Packet /\ q.cmd = "OKAY"
  BY <1>4, <1>10, <1>14, PacketsMade DEF Okay
<1>16. PICK out, r : out = <<q>> /\ r = Rest(x)
  OBVIOUS
<1>17. out \in Seq(Packet) /\ (\A n \in 1..Len(out) : out[n].cmd # "OPEN")
  BY <1>15, <1>16
<1>18. /\ net' \in [Side -> Seq(Packet)]
       /\ net'[x] = r[x]
       /\ net'[Other(x)] = net[Other(x)] \o out \/ net'[Other(x)] = net[Other(x)]
  BY <1>1, <1>2, <1>9, <1>14, <1>16, <1>17, NetStep DEF TypeOK
<1>19. r[x] = Tail(net[x])
  BY <1>1, <1>16 DEF Rest, TypeOK
<1>20. OpensIn(net'[Other(x)]) = OpensIn(net[Other(x)])
  <2>1. net[Other(x)] \in Seq(Packet)
    BY <1>1, <1>5 DEF TypeOK
  <2> QED BY <1>17, <1>18, <2>1, OpensJoined
<1>21. /\ next_id' \in [Side -> Nat \ {0}] /\ next_id'[x] = next_id[x] + 1
       /\ next_id'[Other(x)] = next_id[Other(x)]
  BY <1>1, <1>5 DEF TypeOK
<1>22. \A z \in Side : next_id'[z] + OpensIn(net'[z]) <= opens' + 1 /\ next_id'[z] <= opens' + 1
  <2>1. OpensIn(net'[x]) = OpensIn(Tail(net[x])) /\ opens' = opens /\ opens \in Nat
    <3>1. net'[x] = Tail(net[x])
      BY <1>18, <1>19, Zenon
    <3>2. OpensIn(net'[x]) = OpensIn(Tail(net[x]))
      BY <3>1, Zenon
    <3> QED BY <1>8, <3>2
  <2>2. next_id'[x] + OpensIn(net'[x]) <= opens' + 1 /\ next_id'[x] <= opens' + 1
    BY <1>6, <1>7, <1>8, <1>21, <2>1
  <2>3. next_id'[Other(x)] + OpensIn(net'[Other(x)]) <= opens' + 1 /\ next_id'[Other(x)] <= opens' + 1
    BY <1>7, <1>8, <1>20, <1>21
  <2> QED BY <1>5, <2>2, <2>3
<1>23. StreamInv'
  BY <1>1, <1>13, <1>18, <1>21, <1>22 DEF StreamInv, TypeInv, TypeOK, IdBudget
<1>24. Accepted(x, p)
  BY <1>3, <1>4, <1>9, <1>10 DEF Accepted, Created
<1> QED BY <1>23, <1>24

\* The OKAY that connects a socket or gives it credit.
Okayed(x, p) ==
  /\ Receive(x, "OKAY") /\ p = Head(net[x]) /\ p \in Packet /\ p.arg0 \in Ids /\ p.arg1 \in Ids
  /\ Answers(x, p)
  /\ Frame(x, p.arg1)
  /\ net' = Send(Rest(x), x, <<>>)
  /\ LET s == sock[x][p.arg1]  v == sock'[x][p.arg1]
         b == app[x][p.arg1]   a == app'[x][p.arg1]
     IN  /\ v.list = s.list /\ v.peer = p.arg0 /\ v.pkts = s.pkts /\ v.fde = s.fde \cup {"READ"}
         /\ a.mate = p.arg0 /\ a.sent = b.sent /\ a.got = b.got /\ a.gen = b.gen /\ a.end = b.end

LEMMA OkayStep ==
  ASSUME StreamInv, NEW x \in Side, NEW p, p = Head(net[x]), Receive(x, "OKAY"), Answers(x, p),
         sock' = [sock EXCEPT ![x][p.arg1] = Ready(sock[x][p.arg1], p.arg0)],
         app' = [app EXCEPT ![x][p.arg1].mate = p.arg0],
         net' = Rest(x), UNCHANGED <<next_id, online, link, gen, breaks, opens>>
  PROVE  StreamInv' /\ Okayed(x, p)
<1>1. TypeOK /\ BacklogHasPeer
  BY DEF StreamInv, TypeInv
<1>2. net[x] # <<>> /\ net[x] \in Seq(Packet) /\ p.cmd = "OKAY"
  BY <1>1 DEF Receive, TypeOK
<1>3. p \in Packet
  BY <1>2, Tailed
<1>4. p.arg0 \in Ids /\ p.arg1 \in Ids
  BY <1>2, <1>3, PacketFields
<1>5. PICK i, j : i = p.arg1 /\ j = p.arg0 /\ i \in Ids /\ j \in Ids
  BY <1>4
<1>6. PICK s, b : s = sock[x][i] /\ b = app[x][i]
  OBVIOUS
<1>7. s \in Socket /\ b \in App /\ WellFormed(s) /\ s.list = "open"
  BY <1>1, <1>5, <1>6, BacklogOfEach DEF TypeOK, Answers, Found
<1>8. PICK v, a : v = Ready(s, j) /\ a = [b EXCEPT !.mate = j]
  OBVIOUS
<1>9. v \in Socket /\ v.list = s.list /\ v.peer = j /\ v.pkts = s.pkts /\ v.fde = s.fde \cup {"READ"}
  BY <1>5, <1>7, <1>8 DEF Ready, Socket
<1>10. WellFormed(v)
  BY <1>5, <1>7, <1>9, StreamsAssumption DEF WellFormed, Ids
<1>11. /\ a \in App /\ app' = [app EXCEPT ![x][i] = a]
       /\ a.mate = j /\ a.sent = b.sent /\ a.got = b.got /\ a.gen = b.gen /\ a.end = b.end
  <2>1. a \in App /\ app' = [app EXCEPT ![x][i] = a]
    BY <1>1, <1>5, <1>6, <1>8, AppChanges
  <2> QED BY <1>7, <1>8, <2>1 DEF App
<1>12. net' = Send(Rest(x), x, <<>>) /\ <<>> \in Seq(Packet) /\ NoOpens(<<>>)
  BY <1>1, NothingSent DEF NoOpens
<1>13. OneStep(x, i, v, a, Rest(x), <<>>)
  BY <1>2, <1>5, <1>6, <1>8, <1>9, <1>10, <1>11, <1>12 DEF OneStep
<1>14. StreamInv' /\ Frame(x, i) /\ sock'[x][i] = v /\ app'[x][i] = a
  BY <1>5, <1>13, OneTalks DEF OneKept
<1>15. Okayed(x, p)
  BY <1>3, <1>4, <1>5, <1>6, <1>9, <1>11, <1>12, <1>14 DEF Okayed
<1> QED BY <1>14, <1>15

\* The steps of handle_packet that change no socket.
LEMMA IgnoreStep ==
  ASSUME StreamInv, NEW x \in Side, NEW p, p = Head(net[x]),
         UNCHANGED <<next_id, sock, app, online, link, gen, breaks, opens>>,
         \/ Receive(x, "OPEN") /\ ((net' = Rest(x) /\ ~online[x]) \/ net' = Send(Rest(x), x, <<Clse(0, p.arg0)>>))
         \/ /\ Receive(x, "OKAY") /\ ~Answers(x, p)
            /\ \/ net' = Rest(x) /\ (online[x] => sock[x][p.arg1].list = "open")
               \/ net' = Send(Rest(x), x, <<Clse(p.arg1, p.arg0)>>) /\ sock[x][p.arg1].list # "open"
         \/ /\ Receive(x, "CLSE") \/ Receive(x, "WRTE")
            /\ net' = Rest(x) /\ ~(online[x] /\ Found(x, p.arg1, p.arg0))
  PROVE  StreamInv' /\ \E out : Ignored(x, out)
<1>1. TypeOK
  BY DEF StreamInv, TypeInv
<1>2. net' = Rest(x) => net' = Send(Rest(x), x, <<>>)
  BY <1>1, NothingSent
<1>3. \E out : Ignored(x, out)
  <2>1. CASE /\ Receive(x, "OPEN")
             /\ (net' = Rest(x) /\ ~online[x]) \/ net' = Send(Rest(x), x, <<Clse(0, p.arg0)>>)
    <3>1. CASE net' = Rest(x) /\ ~online[x]
      <4>1. Ignored(x, <<>>)
        BY <1>2, <2>1, <3>1 DEF Ignored, Receive
      <4> QED BY <4>1
    <3>2. CASE net' = Send(Rest(x), x, <<Clse(0, p.arg0)>>)
      <4>1. Ignored(x, <<Clse(0, p.arg0)>>)
        BY <2>1, <3>2 DEF Ignored, Receive
      <4> QED BY <4>1
    <3> QED BY <2>1, <3>1, <3>2
  <2>2. CASE /\ Receive(x, "OKAY") /\ ~Answers(x, p)
             /\ \/ net' = Rest(x) /\ (online[x] => sock[x][p.arg1].list = "open")
                \/ net' = Send(Rest(x), x, <<Clse(p.arg1, p.arg0)>>) /\ sock[x][p.arg1].list # "open"
    <3>1. CASE net' = Rest(x) /\ (online[x] => sock[x][p.arg1].list = "open")
      <4>1. Ignored(x, <<>>)
        BY <1>2, <2>2, <3>1 DEF Ignored, Receive
      <4> QED BY <4>1
    <3>2. CASE net' = Send(Rest(x), x, <<Clse(p.arg1, p.arg0)>>) /\ sock[x][p.arg1].list # "open"
      <4>1. Ignored(x, <<Clse(p.arg1, p.arg0)>>)
        BY <2>2, <3>2 DEF Ignored, Receive
      <4> QED BY <4>1
    <3> QED BY <2>2, <3>1, <3>2
  <2>3. CASE /\ Receive(x, "CLSE") \/ Receive(x, "WRTE")
             /\ net' = Rest(x) /\ ~(online[x] /\ Found(x, p.arg1, p.arg0))
    <3>1. Ignored(x, <<>>)
      BY <1>2, <2>3 DEF Ignored, Receive
    <3> QED BY <3>1
  <2> QED BY <2>1, <2>2, <2>3
<1> QED BY <1>3, IgnoredKept

\* Every step of one side is one of these.
SideStep(x) ==
  \/ \E i \in Ids : SocketStep(x, i)
  \/ \E out : Ignored(x, out)
  \/ \E out : Reset(x, out)
  \/ \E p : Accepted(x, p)
  \/ \E p : Okayed(x, p)
  \/ Connected(x)

LEMMA SideSteps ==
  ASSUME StreamInv, NEW x \in Side,
         HandlePacket(x) \/ Connect(x) \/ \E i \in Ids : Event(x, i) \/ HangUp(x, i)
  PROVE  StreamInv' /\ SideStep(x)
<1> DEFINE p == Head(net[x])
<1>1. CASE HandleCnxn(x)
  BY <1>1, CnxnStep DEF SideStep
<1>2. CASE HandleOffline(x)
  BY <1>2, OfflineStep DEF SideStep
<1>3. CASE HandleOpen(x)
  <2>1. /\ Receive(x, "OPEN") /\ UNCHANGED <<online, link, gen, breaks, opens>>
        /\ \/ /\ online[x]
              /\ next_id' = [next_id EXCEPT ![x] = next_id[x] + 1]
              /\ sock' = [sock EXCEPT ![x][next_id[x]] = [list |-> "open", peer |-> p.arg0,
                                                          fde |-> {"READ"}, pkts |-> <<>>]]
              /\ app' = [app EXCEPT ![x][next_id[x]] = NewApp(p.gen, p.arg0)]
              /\ net' = Send(Rest(x), x, <<Okay(next_id[x], p.arg0)>>)
           \/ /\ (net' = Rest(x) /\ ~online[x]) \/ net' = Send(Rest(x), x, <<Clse(0, p.arg0)>>)
              /\ UNCHANGED <<next_id, sock, app>>
    BY <1>3 DEF HandleOpen, OpenFailed
  <2>2. CASE /\ online[x]
             /\ next_id' = [next_id EXCEPT ![x] = next_id[x] + 1]
             /\ sock' = [sock EXCEPT ![x][next_id[x]] = [list |-> "open", peer |-> p.arg0,
                                                         fde |-> {"READ"}, pkts |-> <<>>]]
             /\ app' = [app EXCEPT ![x][next_id[x]] = NewApp(p.gen, p.arg0)]
             /\ net' = Send(Rest(x), x, <<Okay(next_id[x], p.arg0)>>)
    <3>1. StreamInv' /\ Accepted(x, p)
      BY <2>1, <2>2, AcceptStep
    <3> QED BY <3>1 DEF SideStep
  <2>3. CASE /\ (net' = Rest(x) /\ ~online[x]) \/ net' = Send(Rest(x), x, <<Clse(0, p.arg0)>>)
             /\ UNCHANGED <<next_id, sock, app>>
    <3>1. StreamInv' /\ \E out : Ignored(x, out)
      BY <2>1, <2>3, IgnoreStep
    <3> QED BY <3>1 DEF SideStep
  <2> QED BY <2>1, <2>2, <2>3
<1>4. CASE HandleOkay(x)
  <2>1. /\ Receive(x, "OKAY") /\ UNCHANGED <<next_id, online, link, gen, breaks, opens>>
        /\ \/ /\ Answers(x, p)
              /\ sock' = [sock EXCEPT ![x][p.arg1] = Ready(sock[x][p.arg1], p.arg0)]
              /\ app' = [app EXCEPT ![x][p.arg1].mate = p.arg0]
              /\ net' = Rest(x)
           \/ /\ ~Answers(x, p) /\ UNCHANGED <<sock, app>>
              /\ \/ net' = Rest(x) /\ (online[x] => sock[x][p.arg1].list = "open")
                 \/ net' = Send(Rest(x), x, <<Clse(p.arg1, p.arg0)>>) /\ sock[x][p.arg1].list # "open"
    BY <1>4 DEF HandleOkay, Answers, Found, OkayToNobody
  <2>2. CASE /\ Answers(x, p)
             /\ sock' = [sock EXCEPT ![x][p.arg1] = Ready(sock[x][p.arg1], p.arg0)]
             /\ app' = [app EXCEPT ![x][p.arg1].mate = p.arg0]
             /\ net' = Rest(x)
    <3>1. StreamInv' /\ Okayed(x, p)
      BY <2>1, <2>2, OkayStep
    <3> QED BY <3>1 DEF SideStep
  <2>3. CASE /\ ~Answers(x, p) /\ UNCHANGED <<sock, app>>
             /\ \/ net' = Rest(x) /\ (online[x] => sock[x][p.arg1].list = "open")
                \/ net' = Send(Rest(x), x, <<Clse(p.arg1, p.arg0)>>) /\ sock[x][p.arg1].list # "open"
    <3>1. StreamInv' /\ \E out : Ignored(x, out)
      BY <2>1, <2>3, IgnoreStep
    <3> QED BY <3>1 DEF SideStep
  <2> QED BY <2>1, <2>2, <2>3
<1>5. CASE HandleClse(x)
  <2>1. CASE online[x] /\ Found(x, p.arg1, p.arg0)
    <3>1. StreamInv' /\ p.arg1 \in Ids /\ SocketStep(x, p.arg1)
      BY <1>5, <2>1, ClseStep
    <3> QED BY <3>1 DEF SideStep
  <2>2. CASE ~(online[x] /\ Found(x, p.arg1, p.arg0))
    <3>1. /\ UNCHANGED <<next_id, sock, app, online, link, gen, breaks, opens>>
          /\ Receive(x, "CLSE") /\ net' = Rest(x)
      BY <1>5, <2>2 DEF HandleClse
    <3>2. StreamInv' /\ \E out : Ignored(x, out)
      BY <2>2, <3>1, IgnoreStep
    <3> QED BY <3>2 DEF SideStep
  <2> QED BY <2>1, <2>2
<1>6. CASE HandleWrte(x)
  <2>1. CASE online[x] /\ Found(x, p.arg1, p.arg0)
    <3>1. /\ Enqueue(x, p.arg1, p.data) /\ Receive(x, "WRTE")
          /\ UNCHANGED <<next_id, online, link, gen, breaks, opens>>
      BY <1>6, <2>1 DEF HandleWrte
    <3>2. StreamInv' /\ p.arg1 \in Ids /\ SocketStep(x, p.arg1)
      BY <2>1, <3>1, EnqueueStep
    <3> QED BY <3>2 DEF SideStep
  <2>2. CASE ~(online[x] /\ Found(x, p.arg1, p.arg0))
    <3>1. /\ UNCHANGED <<next_id, sock, app, online, link, gen, breaks, opens>>
          /\ Receive(x, "WRTE") /\ net' = Rest(x)
      BY <1>6, <2>2 DEF HandleWrte
    <3>2. StreamInv' /\ \E out : Ignored(x, out)
      BY <2>2, <3>1, IgnoreStep
    <3> QED BY <3>2 DEF SideStep
  <2> QED BY <2>1, <2>2
<1>7. CASE Connect(x)
  BY <1>7, ConnectStep DEF SideStep
<1>8. ASSUME NEW i \in Ids, Event(x, i) \/ HangUp(x, i)
      PROVE  StreamInv' /\ SideStep(x)
  <2>1. StreamInv' /\ SocketStep(x, i)
    BY <1>8, ReadStep, WriteSomeStep, WriteErrorStep, WriteAllStep, HangUpStep DEF Event
  <2> QED BY <2>1 DEF SideStep
<1> QED BY <1>1, <1>2, <1>3, <1>4, <1>5, <1>6, <1>7, <1>8 DEF HandlePacket

\* The wire fails, or comes back; the server is restarted.
LEMMA BreakKept ==
  ASSUME StreamInv, Break
  PROVE  StreamInv'
<1>1. TypeOK /\ BacklogHasPeer /\ IdBudget
  BY DEF StreamInv, TypeInv
<1>2. PICK h \in 0..Len(net["host"]), d \in 0..Len(net["device"]) :
        net' = [x \in Side |-> Append(SubSeq(net[x], 1, IF x = "host" THEN h ELSE d), Offline)]
  BY DEF Break
<1>3. ASSUME NEW x \in Side
      PROVE  net'[x] \in Seq(Packet) /\ OpensIn(net'[x]) <= OpensIn(net[x])
  <2>1. PICK q, k : q = net[x] /\ k = (IF x = "host" THEN h ELSE d)
    OBVIOUS
  <2>2. q \in Seq(Packet) /\ k \in 0..Len(q)
    BY <1>1, <2>1 DEF TypeOK, Side
  <2>3. PICK r : r = SubSeq(q, 1, k)
    OBVIOUS
  <2>4. /\ r \in Seq(Packet) /\ Len(r) = k
        /\ \A n \in 1..Len(r) : n + 0 \in 1..Len(q) /\ r[n] = q[n + 0]
    BY <2>2, <2>3
  <2>5. OpensIn(r) <= OpensIn(q)
    <3>1. 0 \in Nat
      OBVIOUS
    <3> QED BY <2>2, <2>4, <3>1, OpensInPart
  <2>6. net'[x] = Append(r, Offline) /\ Append(r, Offline) = r \o <<Offline>>
    <3>1. net'[x] = Append(SubSeq(net[x], 1, IF x = "host" THEN h ELSE d), Offline)
      BY <1>2
    <3>2. Append(r, Offline) = r \o <<Offline>>
      BY <2>4
    <3> QED BY <2>1, <2>3, <3>1, <3>2, Zenon
  <2>7. PICK o : o = <<Offline>>
    OBVIOUS
  <2>8. o \in Seq(Packet) /\ (\A n \in 1..Len(o) : o[n].cmd # "OPEN")
    BY <2>7, PacketsMade DEF Offline
  <2>9. OpensIn(r \o o) = OpensIn(r) /\ r \o o \in Seq(Packet)
    BY <2>4, <2>8, OpensJoined
  <2> QED BY <2>1, <2>5, <2>6, <2>7, <2>9
<1>4. net' \in [Side -> Seq(Packet)]
  <2>1. net' = [x \in Side |-> net'[x]]
    BY <1>2
  <2> QED BY <1>3, <2>1
<1>5. \A x \in Side : OpensIn(net[x]) \in Nat /\ OpensIn(net'[x]) \in Nat
  BY <1>1, <1>3, OpensCounted DEF TypeOK
<1>6. UNCHANGED <<next_id, sock, app, online, gen, opens>> /\ breaks' = breaks + 1 /\ link' = "broken"
  BY DEF Break
<1>7. IdBudget'
  BY <1>1, <1>3, <1>5, <1>6 DEF IdBudget, TypeOK
<1>8. BacklogHasPeer'
  BY <1>1, <1>6 DEF BacklogHasPeer
<1> QED BY <1>1, <1>4, <1>6, <1>7, <1>8 DEF StreamInv, TypeInv, TypeOK

LEMMA ReconnectKept ==
  ASSUME StreamInv, Reconnect
  PROVE  StreamInv'
<1>1. TypeOK /\ BacklogHasPeer /\ IdBudget
  BY DEF StreamInv, TypeInv
<1>2. /\ net' = [net EXCEPT !["device"] = <<Cnxn>>] /\ link' = "up"
      /\ UNCHANGED <<next_id, sock, app, online, gen, breaks, opens>>
  BY DEF Reconnect
<1>3. PICK o : o = <<Cnxn>>
  OBVIOUS
<1>4. o \in Seq(Packet) /\ (\A n \in 1..Len(o) : o[n].cmd # "OPEN")
  BY <1>3, PacketsMade DEF Cnxn
<1>5. net' \in [Side -> Seq(Packet)] /\ net'["device"] = o /\ net'["host"] = net["host"]
  BY <1>1, <1>2, <1>3, <1>4 DEF TypeOK, Side
<1>6. OpensIn(o) = 0
  <2>1. {n \in 1..Len(o) : o[n].cmd = "OPEN"} = {}
    BY <1>4
  <2> QED BY <2>1, FS_EmptySet DEF OpensIn
<1>7. IdBudget'
  <2>1. next_id["device"] <= opens + 1 /\ next_id["device"] \in Nat /\ opens \in Nat
    BY <1>1 DEF TypeOK, Side
  <2>2. next_id'["device"] + OpensIn(net'["device"]) <= opens' + 1
    BY <1>2, <1>5, <1>6, <2>1
  <2>3. next_id'["host"] + OpensIn(net'["host"]) <= opens' + 1
    BY <1>1, <1>2, <1>5 DEF IdBudget, Side
  <2> QED BY <2>2, <2>3 DEF IdBudget, Side
<1>8. BacklogHasPeer'
  BY <1>1, <1>2 DEF BacklogHasPeer
<1> QED BY <1>1, <1>2, <1>5, <1>7, <1>8 DEF StreamInv, TypeInv, TypeOK

LEMMA RestartKept ==
  ASSUME StreamInv, HostRestart
  PROVE  StreamInv'
<1>1. TypeOK /\ BacklogHasPeer /\ IdBudget
  BY DEF StreamInv, TypeInv
<1>2. PICK h \in 0..Len(net["host"]), d \in 0..Len(net["device"]) :
        net' = [x \in Side |-> IF x = "host" THEN SubSeq(net[x], h + 1, Len(net[x]))
                                             ELSE Append(SubSeq(net[x], 1, d), Cnxn)]
  BY DEF HostRestart
<1>3. /\ gen' = gen + 1 /\ UNCHANGED <<link, breaks, opens>>
      /\ next_id' = [next_id EXCEPT !["host"] = 1]
      /\ sock' = [sock EXCEPT !["host"] = [i \in Ids |-> NoSocket]]
      /\ app' = [app EXCEPT !["host"] = [i \in Ids |-> NewApp(0, 0)]]
      /\ online' = [online EXCEPT !["host"] = FALSE]
  BY DEF HostRestart
<1>4. net["host"] \in Seq(Packet) /\ net["device"] \in Seq(Packet)
  BY <1>1 DEF TypeOK, Side
<1>5. /\ net'["host"] = SubSeq(net["host"], h + 1, Len(net["host"]))
      /\ net'["device"] = Append(SubSeq(net["device"], 1, d), Cnxn)
  BY <1>2 DEF Side
<1>6. net'["host"] \in Seq(Packet) /\ OpensIn(net'["host"]) <= OpensIn(net["host"])
  <2>1. PICK q : q = net["host"]
    OBVIOUS
  <2>2. q \in Seq(Packet) /\ h \in 0..Len(q) /\ h \in Nat
    BY <1>4, <2>1
  <2>3. PICK r : r = SubSeq(q, h + 1, Len(q))
    OBVIOUS
  <2>4. /\ r \in Seq(Packet) /\ Len(r) = Len(q) - h
        /\ \A n \in 1..Len(r) : n + h \in 1..Len(q) /\ r[n] = q[n + h]
    BY <2>2, <2>3
  <2>5. OpensIn(r) <= OpensIn(q)
    BY <2>2, <2>4, OpensInPart
  <2> QED BY <1>5, <2>1, <2>3, <2>4, <2>5
<1>7. net'["device"] \in Seq(Packet) /\ OpensIn(net'["device"]) <= OpensIn(net["device"])
  <2>1. PICK q : q = net["device"]
    OBVIOUS
  <2>2. q \in Seq(Packet) /\ d \in 0..Len(q)
    BY <1>4, <2>1
  <2>3. PICK r : r = SubSeq(q, 1, d)
    OBVIOUS
  <2>4. /\ r \in Seq(Packet) /\ Len(r) = d
        /\ \A n \in 1..Len(r) : n + 0 \in 1..Len(q) /\ r[n] = q[n + 0]
    BY <2>2, <2>3
  <2>5. OpensIn(r) <= OpensIn(q)
    <3>1. 0 \in Nat
      OBVIOUS
    <3> QED BY <2>2, <2>4, <3>1, OpensInPart
  <2>6. Append(r, Cnxn) = r \o <<Cnxn>>
    BY <2>4
  <2>7. PICK o : o = <<Cnxn>>
    OBVIOUS
  <2>8. o \in Seq(Packet) /\ (\A n \in 1..Len(o) : o[n].cmd # "OPEN")
    BY <2>7, PacketsMade DEF Cnxn
  <2>9. OpensIn(r \o o) = OpensIn(r) /\ r \o o \in Seq(Packet)
    BY <2>4, <2>8, OpensJoined
  <2> QED BY <1>5, <2>1, <2>3, <2>5, <2>6, <2>7, <2>9
<1>8. net' \in [Side -> Seq(Packet)]
  <2>1. net' = [x \in Side |-> net'[x]]
    BY <1>2
  <2> QED BY <1>6, <1>7, <2>1 DEF Side
<1>9. /\ OpensIn(net["host"]) \in Nat /\ OpensIn(net'["host"]) \in Nat
      /\ OpensIn(net["device"]) \in Nat /\ OpensIn(net'["device"]) \in Nat
  BY <1>4, <1>6, <1>7, OpensCounted
<1>10. /\ next_id["host"] \in Nat \ {0} /\ next_id["device"] \in Nat \ {0} /\ opens \in Nat
       /\ next_id["host"] + OpensIn(net["host"]) <= opens + 1
       /\ next_id["device"] + OpensIn(net["device"]) <= opens + 1
  BY <1>1 DEF TypeOK, IdBudget, Side
<1>11. next_id' \in [Side -> Nat \ {0}] /\ next_id'["host"] = 1 /\ next_id'["device"] = next_id["device"]
  <2>1. next_id \in [Side -> Nat \ {0}]
    BY <1>1 DEF TypeOK
  <2>2. "host" \in Side /\ "device" \in Side /\ 1 \in Nat \ {0}
    BY DEF Side
  <2> QED BY <1>3, <2>1, <2>2
<1>12. /\ next_id'["host"] + OpensIn(net'["host"]) <= opens' + 1 /\ next_id'["host"] <= opens' + 1
       /\ next_id'["device"] + OpensIn(net'["device"]) <= opens' + 1 /\ next_id'["device"] <= opens' + 1
  <2>1. next_id'["host"] + OpensIn(net'["host"]) <= opens' + 1 /\ next_id'["host"] <= opens' + 1
    BY <1>3, <1>6, <1>9, <1>10, <1>11
  <2>2. next_id'["device"] + OpensIn(net'["device"]) <= opens' + 1 /\ next_id'["device"] <= opens' + 1
    BY <1>3, <1>7, <1>9, <1>10, <1>11
  <2> QED BY <2>1, <2>2
<1>13. IdBudget' /\ (\A x \in Side : next_id'[x] <= opens' + 1)
  BY <1>12 DEF IdBudget, Side
<1>14. sock' \in [Side -> [Ids -> Socket]] /\ app' \in [Side -> [Ids -> App]]
  <2>1. NoSocket \in Socket /\ NewApp(0, 0) \in App
    <3>1. 0 \in Nat /\ 0 \in Ids \cup {0}
      OBVIOUS
    <3> QED BY <3>1, NoSocketTyped, NewSockets
  <2>2. [i \in Ids |-> NoSocket] \in [Ids -> Socket] /\ [i \in Ids |-> NewApp(0, 0)] \in [Ids -> App]
    BY <2>1
  <2> QED BY <1>1, <1>3, <2>2 DEF TypeOK
<1>15. BacklogHasPeer'
  <2>1. \A x \in Side, i \in Ids : sock'[x][i] = NoSocket \/ sock'[x][i] = sock[x][i]
    BY <1>1, <1>3 DEF TypeOK, Side
  <2>2. \A x \in Side, i \in Ids : WellFormed(sock'[x][i])
    BY <1>1, <2>1, NoSocketTyped, BacklogOfEach
  <2> QED BY <2>2 DEF BacklogHasPeer, WellFormed
<1> QED BY <1>1, <1>3, <1>8, <1>11, <1>13, <1>14, <1>15 DEF StreamInv, TypeInv, TypeOK

LEMMA StreamInvInit == Init => StreamInv
<1> SUFFICES ASSUME Init PROVE StreamInv
  OBVIOUS
<1>1. /\ next_id = [x \in Side |-> 1] /\ gen = 0 /\ breaks = 0 /\ opens = 0 /\ link = "up"
      /\ sock = [x \in Side |-> [i \in Ids |-> NoSocket]]
      /\ app = [x \in Side |-> [i \in Ids |-> NewApp(0, 0)]]
      /\ online = [x \in Side |-> FALSE]
      /\ net = [x \in Side |-> IF x = "device" THEN <<Cnxn>> ELSE <<>>]
  BY DEF Init
<1>2. net \in [Side -> Seq(Packet)] /\ (\A x \in Side : \A n \in 1..Len(net[x]) : net[x][n].cmd # "OPEN")
  <2>1. Cnxn \in Packet /\ Cnxn.cmd # "OPEN"
    BY PacketsMade DEF Cnxn
  <2> QED BY <1>1, <2>1
<1>3. \A x \in Side : OpensIn(net[x]) = 0
  <2> TAKE x \in Side
  <2>1. {n \in 1..Len(net[x]) : net[x][n].cmd = "OPEN"} = {}
    BY <1>2
  <2> QED BY <2>1, FS_EmptySet DEF OpensIn
<1>4. TypeOK
  <2>1. NoSocket \in Socket /\ NewApp(0, 0) \in App
    <3>1. 0 \in Nat /\ 0 \in Ids \cup {0}
      OBVIOUS
    <3> QED BY <3>1, NoSocketTyped, NewSockets
  <2>2. [i \in Ids |-> NoSocket] \in [Ids -> Socket] /\ [i \in Ids |-> NewApp(0, 0)] \in [Ids -> App]
    BY <2>1
  <2>3. sock \in [Side -> [Ids -> Socket]] /\ app \in [Side -> [Ids -> App]]
    BY <1>1, <2>2
  <2>4. next_id \in [Side -> Nat \ {0}] /\ online \in [Side -> BOOLEAN]
    BY <1>1
  <2>5. opens \in 0..MaxId /\ (\A x \in Side : next_id[x] <= opens + 1)
    BY <1>1, StreamsAssumption
  <2> QED BY <1>1, <1>2, <2>3, <2>4, <2>5 DEF TypeOK
<1>5. IdBudget
  BY <1>1, <1>3 DEF IdBudget
<1>6. BacklogHasPeer
  BY <1>1, NoSocketTyped, BacklogOfEach
<1> QED BY <1>4, <1>5, <1>6 DEF StreamInv, TypeInv

LEMMA StreamInvNext == StreamInv /\ [Next]_vars => StreamInv'
<1> SUFFICES ASSUME StreamInv, [Next]_vars PROVE StreamInv'
  OBVIOUS
<1>1. CASE UNCHANGED vars
  BY <1>1 DEF vars, StreamInv, TypeInv, TypeOK, IdBudget, BacklogHasPeer
<1>2. ASSUME NEW x \in Side, HandlePacket(x) \/ Connect(x) \/ \E i \in Ids : Event(x, i) \/ HangUp(x, i)
      PROVE  StreamInv'
  BY <1>2, SideSteps
<1> QED BY <1>1, <1>2, BreakKept, ReconnectKept, RestartKept DEF Next

\* Type correctness: what is sent, queued and stored is well-formed, and the
\* ids handed out stay within the budget of streams, on both sides, over
\* restarts of the server and failures of the wire.
THEOREM StreamsTypeCorrect == Spec => []TypeOK
<1>1. StreamInv => TypeOK
  BY DEF StreamInv, TypeInv
<1> QED BY <1>1, StreamInvInit, StreamInvNext, PTL DEF Spec

\* A socket asks for FDE_WRITE exactly while it has a backlog, and an open one
\* with a backlog has a peer to say OKAY to.
THEOREM BacklogsHavePeers == Spec => []BacklogHasPeer
<1>1. StreamInv => BacklogHasPeer
  BY DEF StreamInv
<1> QED BY <1>1, StreamInvInit, StreamInvNext, PTL DEF Spec

=============================================================================
