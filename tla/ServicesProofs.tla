--------------------------- MODULE ServicesProofs ---------------------------
(***************************************************************************)
(* Theorems about the services of adbd: ShellService, for any number of    *)
(* units, packets and any room in the pipes and on the wire, Jdwp, for any *)
(* set of processes, debuggers and trackers, and the services together.    *)
(***************************************************************************)
EXTENDS MCServices, FileCopyProofs

-----------------------------------------------------------------------------
(* How often a packet is in a queue *)

Count(q, p) == Cardinality({n \in 1..Len(q) : q[n] = p})

LEMMA Counted ==
  ASSUME NEW S, NEW q \in Seq(S), NEW p
  PROVE  /\ IsFiniteSet({n \in 1..Len(q) : q[n] = p})
         /\ Count(q, p) \in Nat
<1>1. IsFiniteSet(1..Len(q))
  BY FS_Interval
<1> QED BY <1>1, FS_Subset, FS_CardinalityType DEF Count

LEMMA CountEmpty == \A p : Count(<<>>, p) = 0
<1> TAKE p
<1>1. {n \in 1..Len(<<>>) : <<>>[n] = p} = {}
  OBVIOUS
<1> QED BY <1>1, FS_EmptySet DEF Count

\* A packet that is counted is somewhere in the queue.
LEMMA CountFinds ==
  ASSUME NEW S, NEW q \in Seq(S), NEW p
  PROVE  Count(q, p) # 0 <=> \E n \in 1..Len(q) : q[n] = p
<1> DEFINE Q == {n \in 1..Len(q) : q[n] = p}
<1>1. IsFiniteSet(Q)
  BY Counted
<1>2. Cardinality(Q) = 0 <=> Q = {}
  <2> HIDE DEF Q
  <2> QED BY <1>1, FS_EmptySet
<1> QED BY <1>2 DEF Count

LEMMA CountAppended ==
  ASSUME NEW S, NEW q \in Seq(S), NEW e \in S, NEW p
  PROVE  Count(Append(q, e), p) = Count(q, p) + (IF e = p THEN 1 ELSE 0)
<1> DEFINE Q == {n \in 1..Len(q) : q[n] = p}
           R == {n \in 1..Len(Append(q, e)) : Append(q, e)[n] = p}
           k == Len(q) + 1
<1>1. IsFiniteSet(Q) /\ Cardinality(Q) \in Nat
  BY Counted DEF Count
<1>2. k \notin Q
  OBVIOUS
<1>3. Len(Append(q, e)) = k /\ Append(q, e)[k] = e
      /\ \A n \in 1..Len(q) : Append(q, e)[n] = q[n]
  OBVIOUS
<1>4. CASE e = p
  <2>1. R = Q \cup {k}
    BY <1>3, <1>4
  <2>2. Cardinality(Q \cup {k}) = Cardinality(Q) + 1
    <3> HIDE DEF Q, k
    <3> QED BY <1>1, <1>2, FS_AddElement
  <2> QED BY <1>4, <2>1, <2>2 DEF Count
<1>5. CASE e # p
  <2>1. R = Q
    BY <1>3, <1>5
  <2> HIDE DEF R, Q
  <2>2. Cardinality(R) = Cardinality(Q) + 0
    BY <1>1, <2>1
  <2> QED BY <1>5, <2>2 DEF Count, R, Q
<1> QED BY <1>4, <1>5

LEMMA CountTail ==
  ASSUME NEW S, NEW q \in Seq(S), q # <<>>, NEW p
  PROVE  Count(q, p) = Count(Tail(q), p) + (IF Head(q) = p THEN 1 ELSE 0)
<1> DEFINE Q == {n \in 1..Len(q) : q[n] = p}
           R == {n \in 1..Len(Tail(q)) : Tail(q)[n] = p}
           f == [n \in R |-> n + 1]
<1>1. Tail(q) \in Seq(S) /\ Len(q) \in Nat \ {0} /\ Len(Tail(q)) = Len(q) - 1 /\ Head(q) = q[1]
      /\ \A n \in 1..Len(Tail(q)) : Tail(q)[n] = q[n + 1]
  OBVIOUS
<1>2. IsFiniteSet(Q) /\ Cardinality(Q) \in Nat /\ IsFiniteSet(R) /\ Cardinality(R) \in Nat
  BY <1>1, Counted DEF Count
<1>3. \A n \in R : f[n] \in Q \ {1}
  BY <1>1
<1>4. \A m, n \in R : f[m] = f[n] => m = n
  OBVIOUS
<1>5. \A m \in Q \ {1} : \E n \in R : f[n] = m
  <2> TAKE m \in Q \ {1}
  <2>1. m - 1 \in 1..Len(Tail(q)) /\ (m - 1) + 1 = m
    BY <1>1
  <2>2. Tail(q)[m - 1] = q[m]
    BY <1>1, <2>1
  <2>3. m - 1 \in R
    BY <2>1, <2>2
  <2> QED BY <2>1, <2>3
<1>6. f \in Bijection(R, Q \ {1})
  <2>1. f \in [R -> Q \ {1}]
    BY <1>3
  <2> HIDE DEF f, R, Q
  <2> QED BY <1>4, <1>5, <2>1 DEF Bijection, Injection, Surjection, IsInjective
<1>7. Cardinality(R) = Cardinality(Q \ {1})
  <2> HIDE DEF f, R, Q
  <2>1. ExistsBijection(R, Q \ {1})
    BY <1>6 DEF ExistsBijection
  <2> QED BY <1>2, <2>1, FS_Bijection
<1>8. CASE Head(q) = p
  <2>1. 1 \in Q
    BY <1>1, <1>8
  <2>2. Cardinality(Q \ {1}) = Cardinality(Q) - 1
    <3> HIDE DEF Q
    <3> QED BY <1>2, <2>1, FS_RemoveElement
  <2>3. Cardinality(Q) = Cardinality(R) + 1
    <3> HIDE DEF R, Q
    <3> QED BY <1>2, <1>7, <2>2
  <2> QED BY <1>8, <2>3 DEF Count
<1>9. CASE Head(q) # p
  <2>1. Cardinality(Q) = Cardinality(R) + 0
    <3>1. 1 \notin Q
      BY <1>1, <1>9
    <3>2. Cardinality(Q \ {1}) = Cardinality(Q)
      <4> HIDE DEF Q
      <4> QED BY <1>2, <3>1, FS_RemoveElement
    <3> HIDE DEF R, Q
    <3> QED BY <1>2, <1>7, <3>2
  <2> QED BY <1>9, <2>1 DEF Count
<1> QED BY <1>8, <1>9

LEMMA CountPrefix ==
  ASSUME NEW S, NEW q \in Seq(S), NEW k \in 0..Len(q), NEW p
  PROVE  /\ SubSeq(q, 1, k) \in Seq(S) /\ Len(SubSeq(q, 1, k)) = k
         /\ \A n \in 1..k : SubSeq(q, 1, k)[n] = q[n]
         /\ Count(SubSeq(q, 1, k), p) <= Count(q, p)
         /\ k = Len(q) => SubSeq(q, 1, k) = q
<1> DEFINE Q == {n \in 1..Len(q) : q[n] = p}
           R == {n \in 1..Len(SubSeq(q, 1, k)) : SubSeq(q, 1, k)[n] = p}
<1>1. /\ SubSeq(q, 1, k) \in Seq(S) /\ Len(SubSeq(q, 1, k)) = k
      /\ \A n \in 1..k : SubSeq(q, 1, k)[n] = q[n]
  OBVIOUS
<1>2. R \subseteq Q
  BY <1>1
<1>3. IsFiniteSet(Q)
  BY Counted
<1>4. Cardinality(R) <= Cardinality(Q)
  <2> HIDE DEF R, Q
  <2> QED BY <1>2, <1>3, FS_Subset
<1>5. k = Len(q) => SubSeq(q, 1, k) = q
  OBVIOUS
<1> QED BY <1>1, <1>4, <1>5 DEF Count

-----------------------------------------------------------------------------
(* ShellService: the inductive invariant *)

\* The units in n packets of stdin
Units(n) == ShPacket * n

\* Types, without the bounds that follow from what is counted.
ShTypes ==
  /\ shMode \in {"raw", "pty"}
  /\ shChild \in [st : {"none", "runs", "zombie", "reaped"},
                  hup : BOOLEAN, wrote : [ShOutputs -> 0..ShMaxOut], took : Nat]
  /\ shPipe \in [{"out", "err", "in"} -> Nat]
  /\ shHeld \subseteq ShOutputs
  /\ shSvc \in [pc : {"start", "select", "pass", "wait", "over"}, left : 0..ShPacket,
                reads : BOOLEAN, lost : SUBSET ShOutputs, ready : SUBSET {"out", "err", "proto", "in"}]
  /\ shFds \subseteq {"out", "err", "proto"}
  /\ shToDev \in Seq(ShPackets) /\ shToHost \in Seq(ShPackets)
  /\ shUp \in BOOLEAN
  /\ shCli \in [pc : {"runs", "done", "killed"}, sent : 0..ShMaxIn, typed : 0..ShMaxIn, open : BOOLEAN,
                got : [ShOutputs -> Nat], code : {"none", "exit", "exit126"}]

\* The thread has a subprocess from its start to waitpid; a subprocess that
\* could not be started is a message of ReportError and nothing else.
ShLife ==
  /\ shSvc.pc = "start" =>
       shChild.st = "none" /\ shToHost = <<>> /\ shCli.code = "none" /\ shCli.got["err"] = 0
  /\ shSvc.pc \in {"select", "pass", "wait"} => shChild.st \in {"runs", "zombie"}
  /\ shSvc.pc = "wait" => ~ShGoesOn(shFds)
  /\ shChild.st = "none" =>
       /\ shFds = {}
       /\ \A o \in ShOutputs : shChild.wrote[o] = 0 /\ shPipe[o] = 0
       /\ shCli.got["out"] + Count(shToHost, "out") = 0
       /\ shCli.got["err"] + Count(shToHost, "err") <= 1

\* The client is sent output; an exit packet is the last one, and only the end
\* of the thread sends one.
ShExit ==
  /\ \A n \in 1..Len(shToHost) : shToHost[n] \in ShOutputs \cup {"exit", "exit126"}
  /\ \A n \in 1..Len(shToHost) : shToHost[n] \in {"exit", "exit126"} =>
       /\ n = Len(shToHost) /\ shSvc.pc = "over" /\ shCli.code = "none"
       /\ shToHost[n] = "exit" => shChild.st = "reaped"
  /\ shCli.code # "none" => shSvc.pc = "over" /\ shToHost = <<>>
  /\ shCli.code = "exit" => shChild.st = "reaped"

\* The output is closed by its end only.
ShSound(o) == o \notin shSvc.lost

\* Units of an output that the client has or that are under way
ShArrived(o) == shCli.got[o] + Count(shToHost, o)

\* What the subprocess wrote is in the pipe, under way or with the client, and
\* none is lost while the stream is up; an output that was closed by its end
\* was empty, so that nothing is missing before the exit packet.
ShOut ==
  \A o \in ShOutputs :
    /\ shChild.st # "none" => ShArrived(o) + shPipe[o] <= shChild.wrote[o]
    /\ shUp = TRUE /\ shChild.st # "none" => ShArrived(o) + shPipe[o] = shChild.wrote[o]
    /\ "proto" \in shFds /\ o \notin shFds /\ ShSound(o) => shPipe[o] = 0
    /\ (Count(shToHost, "exit") # 0 \/ shCli.code = "exit") /\ ShSound(o) =>
         ShArrived(o) = shChild.wrote[o]

\* Units of stdin that the client has sent and that have not been lost
ShGiven == Units(Count(shToDev, "stdin")) + shSvc.left + shPipe["in"] + shChild.took

\* The same for stdin; the thread reads no packet while it has the rest of
\* another to write.
ShIn ==
  /\ shPipe["in"] <= ShRoom
  /\ shSvc.reads = TRUE <=> shSvc.left = 0
  /\ "proto" \in shSvc.ready => shSvc.left = 0
  /\ ShGiven <= Units(shCli.typed)
  /\ shUp = TRUE /\ (shSvc.pc = "start" \/ "out" \in shFds) => ShGiven = Units(shCli.typed)
  /\ shCli.typed <= shCli.sent

ShInv == ShTypes /\ ShLife /\ ShExit /\ ShOut /\ ShIn

-----------------------------------------------------------------------------
(* ShellService: what the invariant says, and its initial states *)

LEMMA UnitsAdded ==
  /\ Units(0) = 0
  /\ \A n \in Nat : Units(n) \in Nat /\ Units(n + 1) = Units(n) + ShPacket
  /\ \A m, n \in Nat : m <= n => Units(m) <= Units(n)
<1>1. ShPacket \in Nat
  BY ShellServiceAssumption
<1>2. PICK p : p = ShPacket
  OBVIOUS
<1>3. \A n \in Nat : p * n \in Nat /\ p * (n + 1) = p * n + p
  BY <1>1, <1>2
<1>4. ASSUME NEW m \in Nat, NEW n \in Nat, m <= n
      PROVE  p * m <= p * n
  <2>1. n - m \in Nat /\ p * (n - m) \in Nat
    BY <1>1, <1>2, <1>4
  <2>2. p * n = p * m + p * (n - m)
    BY <1>1, <1>2
  <2>3. p * m \in Nat /\ p * n \in Nat
    BY <1>3
  <2> QED BY <2>1, <2>2, <2>3
<1> QED BY <1>1, <1>2, <1>3, <1>4 DEF Units

\* The counts of a state are numbers.
LEMMA ShCounts ==
  ASSUME ShTypes
  PROVE  /\ \A p : Count(shToDev, p) \in Nat /\ Count(shToHost, p) \in Nat
         /\ Units(Count(shToDev, "stdin")) \in Nat
         /\ Units(shCli.typed) \in Nat /\ Units(shCli.typed) <= Units(ShMaxIn)
         /\ Units(ShMaxIn) \in Nat
<1>1. \A p : Count(shToDev, p) \in Nat /\ Count(shToHost, p) \in Nat
  BY Counted DEF ShTypes
<1>2. shCli.typed \in Nat /\ ShMaxIn \in Nat /\ shCli.typed <= ShMaxIn
  BY ShellServiceAssumption DEF ShTypes
<1> QED BY <1>1, <1>2, UnitsAdded

\* The numbers of a state are numbers.
LEMMA ShNumbers ==
  ASSUME ShInv
  PROVE  /\ \A o \in ShOutputs : /\ ShArrived(o) \in Nat /\ shPipe[o] \in Nat
                               /\ shCli.got[o] \in Nat /\ shChild.wrote[o] \in Nat
         /\ \A p : Count(shToDev, p) \in Nat /\ Count(shToHost, p) \in Nat
         /\ Units(Count(shToDev, "stdin")) \in Nat /\ Units(shCli.typed) \in Nat
         /\ shSvc.left \in Nat /\ shPipe["in"] \in Nat /\ shChild.took \in Nat
         /\ ShRoom \in Nat \ {0} /\ ShPacket \in Nat \ {0}
<1> USE DEF ShInv
<1>1. \A o \in ShOutputs : shPipe[o] \in Nat /\ shCli.got[o] \in Nat /\ shChild.wrote[o] \in Nat
  <2>1. /\ shPipe \in [{"out", "err", "in"} -> Nat] /\ shCli.got \in [ShOutputs -> Nat]
        /\ shChild.wrote \in [ShOutputs -> 0..ShMaxOut]
    BY DEF ShTypes
  <2>2. \A o \in ShOutputs : o \in {"out", "err", "in"}
    BY DEF ShOutputs
  <2>3. \A n \in 0..ShMaxOut : n \in Nat
    BY ShellServiceAssumption
  <2> QED BY <2>1, <2>2, <2>3
<1>2. shSvc.left \in Nat /\ shPipe["in"] \in Nat /\ shChild.took \in Nat
      /\ ShRoom \in Nat \ {0} /\ ShPacket \in Nat \ {0}
  BY ShellServiceAssumption DEF ShTypes
<1>3. \A o \in ShOutputs : ShArrived(o) \in Nat
  BY <1>1, ShCounts DEF ShArrived
<1> QED BY <1>1, <1>2, <1>3, ShCounts

LEMMA ShInvTyped == ShInv => ShellServiceTypeOK
<1> SUFFICES ASSUME ShInv PROVE ShellServiceTypeOK
  OBVIOUS
<1> USE DEF ShInv
<1>1. shPipe["in"] \in 0..ShRoom /\ ShRoom \in Nat /\ ShMaxOut \in Nat
  BY ShellServiceAssumption DEF ShTypes, ShIn
<1>2. ASSUME NEW o \in ShOutputs
      PROVE  shPipe[o] <= ShMaxOut /\ shCli.got[o] <= ShMaxOut + 1
  <2>1. /\ shPipe[o] \in Nat /\ shCli.got[o] \in Nat /\ shChild.wrote[o] \in 0..ShMaxOut
        /\ Count(shToHost, o) \in Nat
    BY <1>2, ShCounts DEF ShTypes, ShOutputs
  <2>2. CASE shChild.st # "none"
    BY <1>1, <2>1, <2>2 DEF ShOut, ShArrived
  <2>3. CASE shChild.st = "none"
    BY <1>1, <2>1, <2>3 DEF ShLife, ShOutputs
  <2> QED BY <2>2, <2>3
<1>3. shChild.took \in 0..(ShMaxIn * ShPacket)
  <2>1. /\ shSvc.left \in Nat /\ shPipe["in"] \in Nat /\ shChild.took \in Nat
        /\ ShMaxIn \in Nat /\ ShPacket \in Nat
    BY ShellServiceAssumption DEF ShTypes
  <2>2. shChild.took <= Units(ShMaxIn) /\ Units(ShMaxIn) \in Nat
    BY <2>1, ShCounts DEF ShIn, ShGiven
  <2>3. Units(ShMaxIn) = ShMaxIn * ShPacket
    BY <2>1 DEF Units
  <2> QED BY <2>1, <2>2, <2>3
<1>4. shPipe \in [{"out", "err", "in"} -> 0..(ShMaxOut + ShRoom)]
  <2>1. \A p \in {"out", "err", "in"} : shPipe[p] \in 0..(ShMaxOut + ShRoom)
    <3>1. \A p \in {"out", "err", "in"} : shPipe[p] \in Nat /\ (p \in ShOutputs \/ p = "in")
      BY DEF ShTypes, ShOutputs
    <3>2. \A n \in Nat : n <= ShMaxOut \/ n \in 0..ShRoom => n \in 0..(ShMaxOut + ShRoom)
      BY <1>1
    <3> QED BY <1>1, <1>2, <3>1, <3>2
  <2> QED BY <2>1 DEF ShTypes
<1>5. shCli.got \in [ShOutputs -> 0..(ShMaxOut + 1)]
  BY <1>1, <1>2 DEF ShTypes
<1>6. shChild \in [st : {"none", "runs", "zombie", "reaped"},
                   hup : BOOLEAN, wrote : [ShOutputs -> 0..ShMaxOut],
                   took : 0..(ShMaxIn * ShPacket)]
  BY <1>3 DEF ShTypes
<1>7. shCli \in [pc : {"runs", "done", "killed"}, sent : 0..ShMaxIn, typed : 0..ShMaxIn, open : BOOLEAN,
                 got : [ShOutputs -> 0..(ShMaxOut + 1)], code : {"none", "exit", "exit126"}]
  BY <1>5 DEF ShTypes
<1> QED BY <1>4, <1>6, <1>7 DEF ShTypes, ShellServiceTypeOK

LEMMA ShInvComplete == ShInv => ShellComplete
<1> SUFFICES ASSUME ShInv PROVE ShellComplete
  OBVIOUS
<1> USE DEF ShInv
<1>1. OutputComplete
  <2> SUFFICES ASSUME shCli.code = "exit"
               PROVE  /\ shChild.st = "reaped"
                      /\ \A o \in ShOutputs \ shSvc.lost : shCli.got[o] = shChild.wrote[o]
    BY DEF OutputComplete
  <2>1. shChild.st = "reaped" /\ shToHost = <<>>
    BY DEF ShExit
  <2>2. \A o \in ShOutputs : ShSound(o) => shCli.got[o] + 0 = shChild.wrote[o]
    BY <2>1, CountEmpty DEF ShOut, ShArrived
  <2>3. \A o \in ShOutputs : ShSound(o) => shCli.got[o] = shChild.wrote[o]
    BY <2>2 DEF ShTypes
  <2> QED BY <2>1, <2>3 DEF ShSound
<1>2. StdinComplete
  <2>1. {i \in DOMAIN shToDev : shToDev[i] = "stdin"} = {n \in 1..Len(shToDev) : shToDev[n] = "stdin"}
    BY DEF ShTypes
  <2>2. Cardinality({i \in DOMAIN shToDev : shToDev[i] = "stdin"}) = Count(shToDev, "stdin")
    BY <2>1 DEF Count
  <2>3. shCli.typed \in Nat /\ ShPacket \in Nat
    BY ShellServiceAssumption DEF ShTypes
  <2>4. shCli.typed * ShPacket = Units(shCli.typed)
    BY <2>3 DEF Units
  <2> QED BY <2>2, <2>4 DEF StdinComplete, ShIn, ShGiven, Units
<1> QED BY <1>1, <1>2 DEF ShellComplete

LEMMA ShInvInit == ShellServiceInit => ShInv
<1> SUFFICES ASSUME ShellServiceInit PROVE ShInv
  OBVIOUS
<1> USE DEF ShellServiceInit
<1>1. ShTypes
  BY ShellServiceAssumption DEF ShTypes, ShOutputs, ShEnds
<1>2. \A p : Count(shToHost, p) = 0 /\ Count(shToDev, p) = 0
  BY CountEmpty
<1>3. Units(0) = 0
  BY UnitsAdded
<1>4. ShLife /\ ShExit
  BY <1>2 DEF ShLife, ShExit, ShOutputs
<1>5. ShOut
  BY <1>2 DEF ShOut, ShArrived, ShOutputs
<1>6. ShIn
  BY <1>2, <1>3, ShellServiceAssumption DEF ShIn, ShGiven
<1> QED BY <1>1, <1>4, <1>5, <1>6 DEF ShInv

-----------------------------------------------------------------------------
(* ShellService: one lemma per action *)

LEMMA ShStartStep == ShInv /\ ShStart => ShInv'
<1> SUFFICES ASSUME ShInv, ShStart PROVE ShInv'
  OBVIOUS
<1> USE DEF ShInv, ShStart
<1>1. ShTypes'
  BY DEF ShTypes, ShEnds, ShOutputs
<1>2. shChild'.st = "runs" /\ shSvc'.pc = "select" /\ shChild'.wrote = shChild.wrote
      /\ shChild'.took = shChild.took /\ shSvc'.lost = shSvc.lost
      /\ shSvc'.left = shSvc.left /\ shSvc'.reads = shSvc.reads /\ shSvc'.ready = shSvc.ready
  BY DEF ShTypes
<1>3. ShLife' /\ ShExit'
  BY <1>2 DEF ShLife, ShExit
<1>4. ShOut'
  <2>1. \A p : Count(shToHost, p) = 0
    BY CountEmpty DEF ShLife
  <2>2. \A o \in ShOutputs : shChild.wrote[o] = 0 /\ shPipe[o] = 0 /\ ShArrived(o) = 0
    BY <2>1 DEF ShLife, ShTypes, ShArrived, ShOutputs
  <2> QED BY <1>2, <2>1, <2>2 DEF ShOut, ShArrived, ShLife
<1>5. ShIn'
  BY <1>2 DEF ShIn, ShGiven
<1> QED BY <1>1, <1>3, <1>4, <1>5

LEMMA ShStartFailsStep == ShInv /\ ShStartFails => ShInv'
<1> SUFFICES ASSUME ShInv, ShStartFails PROVE ShInv'
  OBVIOUS
<1> USE DEF ShInv, ShStartFails
<1>1. ShTypes'
  <2>1. shToHost' \in Seq(ShPackets)
    <3>1. {"err", "exit126"} \subseteq ShPackets
      BY DEF ShPackets
    <3> HIDE DEF ShInv
    <3> QED BY <3>1
  <2>2. shSvc' \in [pc : {"start", "select", "pass", "wait", "over"}, left : 0..ShPacket,
                    reads : BOOLEAN, lost : SUBSET ShOutputs, ready : SUBSET {"out", "err", "proto", "in"}]
    BY DEF ShTypes
  <2> QED BY <2>1, <2>2 DEF ShTypes
<1>2. shSvc'.pc = "over" /\ shSvc'.lost = shSvc.lost /\ shSvc'.left = shSvc.left
      /\ shSvc'.reads = shSvc.reads /\ shSvc'.ready = shSvc.ready
  BY DEF ShTypes
<1>3. \A p : Count(shToHost', p) = (IF p = "err" THEN 1 ELSE 0) + (IF p = "exit126" THEN 1 ELSE 0)
  <2> TAKE p
  <2>1. PICK q : q = <<>>
    OBVIOUS
  <2>2. PICK r : r = Append(q, "err")
    OBVIOUS
  <2>3. shToHost' = Append(r, "exit126")
    BY <2>1, <2>2
  <2>4. q \in Seq(ShPackets) /\ r \in Seq(ShPackets)
        /\ "err" \in ShPackets /\ "exit126" \in ShPackets
    BY <2>1, <2>2 DEF ShPackets
  <2>5. Count(q, p) = 0
    BY <2>1, CountEmpty
  <2> HIDE DEF ShInv, ShStartFails
  <2>6. Count(r, p) = 0 + (IF "err" = p THEN 1 ELSE 0)
    BY <2>2, <2>4, <2>5, CountAppended
  <2>7. Count(shToHost', p) = Count(r, p) + (IF "exit126" = p THEN 1 ELSE 0)
    BY <2>3, <2>4, CountAppended
  <2> QED BY <2>6, <2>7
<1>4. ShLife'
  <2>1. \A o \in ShOutputs : shCli.got[o] = 0 \/ shCli.got[o] + 0 = 0
    BY CountEmpty DEF ShLife, ShOutputs
  <2>2. \A o \in ShOutputs : shCli.got[o] = 0
    BY <2>1, ShNumbers
  <2>3. Count(shToHost', "out") = 0 /\ Count(shToHost', "err") = 1
    BY <1>3
  <2> QED BY <1>2, <2>2, <2>3 DEF ShLife, ShOutputs
<1>5. ShExit'
  BY <1>2 DEF ShLife, ShExit, ShOutputs
<1>6. ShOut'
  BY <1>2, <1>3 DEF ShOut, ShLife, ShArrived
<1>7. ShIn'
  BY <1>2 DEF ShIn, ShGiven, ShLife
<1> QED BY <1>1, <1>4, <1>5, <1>6, <1>7

LEMMA ShWritesStep ==
  ASSUME ShInv, NEW o \in ShOutputs, ShWrites(o)
  PROVE  ShInv'
<1> USE DEF ShInv, ShWrites
<1>1. ShTypes'
  <2>1. shPipe \in [{"out", "err", "in"} -> Nat] /\ o \in {"out", "err", "in"}
    BY DEF ShTypes, ShOutputs
  <2>2. shPipe' \in [{"out", "err", "in"} -> Nat]
    BY <2>1
  <2>3. shChild.wrote \in [ShOutputs -> 0..ShMaxOut] /\ ShMaxOut \in Nat
    BY ShellServiceAssumption DEF ShTypes
  <2>4. shChild.wrote[o] + 1 \in 0..ShMaxOut
    BY <2>3
  <2>5. [shChild.wrote EXCEPT ![o] = @ + 1] \in [ShOutputs -> 0..ShMaxOut]
    BY <2>3, <2>4
  <2>6. shChild' \in [st : {"none", "runs", "zombie", "reaped"},
                      hup : BOOLEAN, wrote : [ShOutputs -> 0..ShMaxOut], took : Nat]
    BY <2>5 DEF ShTypes
  <2> QED BY <2>2, <2>6 DEF ShTypes
<1>2. /\ shChild'.st = shChild.st /\ shChild'.took = shChild.took
      /\ shChild'.wrote[o] = shChild.wrote[o] + 1
      /\ \A u \in ShOutputs : u # o => shChild'.wrote[u] = shChild.wrote[u] /\ shPipe'[u] = shPipe[u]
      /\ shPipe'[o] = shPipe[o] + 1 /\ shPipe'["in"] = shPipe["in"]
  BY DEF ShTypes, ShOutputs
<1>3. ShLife'
  BY <1>2 DEF ShLife
<1>4. ShExit'
  BY <1>2 DEF ShExit
<1>5. ASSUME NEW u \in ShOutputs
      PROVE  /\ ShArrived(u)' = ShArrived(u) /\ ShArrived(u) \in Nat
             /\ shPipe[u] \in Nat /\ shChild.wrote[u] \in Nat
  <2>1. ShArrived(u)' = ShArrived(u)
    BY DEF ShArrived
  <2>2. ShArrived(u) \in Nat /\ shPipe[u] \in Nat /\ shChild.wrote[u] \in Nat
    BY ShNumbers
  <2> QED BY <2>1, <2>2
<1>6. Count(shToHost, "exit") = 0 /\ shCli.code # "exit"
  <2>1. \A n \in 1..Len(shToHost) : shToHost[n] # "exit"
    BY DEF ShExit
  <2>2. shToHost \in Seq(ShPackets)
    BY DEF ShTypes
  <2>3. Count(shToHost, "exit") = 0
    <3> HIDE DEF ShInv, ShWrites
    <3> QED BY <2>1, <2>2, CountFinds
  <2> QED BY <2>3 DEF ShExit
<1>7. ShOut'
  <2> SUFFICES ASSUME NEW u \in ShOutputs
               PROVE  /\ (shChild.st # "none" => ShArrived(u) + shPipe[u] <= shChild.wrote[u])'
                      /\ (shUp = TRUE /\ shChild.st # "none" =>
                            ShArrived(u) + shPipe[u] = shChild.wrote[u])'
                      /\ ("proto" \in shFds /\ u \notin shFds /\ ShSound(u) => shPipe[u] = 0)'
    BY <1>6 DEF ShOut
  <2>1. CASE u = o
    BY <1>2, <1>5, <2>1 DEF ShOut
  <2>2. CASE u # o
    BY <1>2, <1>5, <2>2 DEF ShOut, ShSound
  <2> QED BY <2>1, <2>2
<1>8. ShIn'
  BY <1>2 DEF ShIn, ShGiven
<1> QED BY <1>1, <1>3, <1>4, <1>7, <1>8

LEMMA ShReadsStep == ShInv /\ ShReads => ShInv'
<1> SUFFICES ASSUME ShInv, ShReads PROVE ShInv'
  OBVIOUS
<1> USE DEF ShInv, ShReads
<1>1. ShTypes'
  <2>1. shPipe \in [{"out", "err", "in"} -> Nat] /\ shPipe["in"] - 1 \in Nat
    BY DEF ShTypes
  <2>2. shPipe' \in [{"out", "err", "in"} -> Nat]
    BY <2>1
  <2>3. shChild' \in [st : {"none", "runs", "zombie", "reaped"},
                      hup : BOOLEAN, wrote : [ShOutputs -> 0..ShMaxOut], took : Nat]
    <3>1. shChild \in [st : {"none", "runs", "zombie", "reaped"},
                       hup : BOOLEAN, wrote : [ShOutputs -> 0..ShMaxOut], took : Nat]
      BY DEF ShTypes
    <3>2. shChild.took + 1 \in Nat
      BY <3>1
    <3> QED BY <3>1, <3>2
  <2> QED BY <2>2, <2>3 DEF ShTypes
<1>2. /\ shChild'.st = shChild.st /\ shChild'.took = shChild.took + 1 /\ shChild'.wrote = shChild.wrote
      /\ \A u \in ShOutputs : shPipe'[u] = shPipe[u]
      /\ shPipe'["in"] = shPipe["in"] - 1
  BY DEF ShTypes, ShOutputs
<1>3. ShLife' /\ ShExit' /\ ShOut'
  BY <1>2 DEF ShLife, ShExit, ShOut, ShArrived, ShSound
<1>4. ShGiven' = ShGiven /\ ShGiven \in Nat
  <2> HIDE DEF ShReads
  <2>1. UNCHANGED <<shToDev, shSvc>>
    BY DEF ShReads
  <2> QED BY <1>2, <2>1, ShNumbers DEF ShGiven
<1>5. shPipe["in"] \in Nat /\ ShRoom \in Nat
  BY ShellServiceAssumption DEF ShTypes
<1>6. ShIn'
  BY <1>2, <1>4, <1>5 DEF ShIn
<1> QED BY <1>1, <1>3, <1>6

LEMMA ShExitsStep == ShInv /\ ShExits => ShInv'
<1> SUFFICES ASSUME ShInv, ShExits PROVE ShInv'
  OBVIOUS
<1> USE DEF ShInv, ShExits
<1>1. ShTypes'
  BY DEF ShTypes
<1>2. shChild'.st = "zombie" /\ shChild'.took = shChild.took /\ shChild'.wrote = shChild.wrote
  BY DEF ShTypes
<1>3. ShLife' /\ ShExit' /\ ShOut' /\ ShIn'
  BY <1>2 DEF ShLife, ShExit, ShOut, ShArrived, ShSound, ShIn, ShGiven
<1> QED BY <1>1, <1>3

LEMMA ShReleasesStep ==
  ASSUME ShInv, NEW o \in ShOutputs, ShReleases(o)
  PROVE  ShInv'
BY DEF ShInv, ShReleases, ShTypes, ShLife, ShExit, ShOut, ShArrived, ShSound, ShIn, ShGiven

LEMMA ShSelectStep == ShInv /\ ShSelect => ShInv'
<1> SUFFICES ASSUME ShInv, ShSelect PROVE ShInv'
  OBVIOUS
<1> USE DEF ShInv, ShSelect
<1>1. ShReady \subseteq {"out", "err", "proto", "in"}
      /\ ("proto" \in ShReady => shSvc.reads = TRUE)
  BY DEF ShReady, ShOutputs, ShTypes
<1>2. ShTypes'
  BY <1>1 DEF ShTypes
<1>3. shSvc'.pc = "pass" /\ shSvc'.lost = shSvc.lost /\ shSvc'.left = shSvc.left
      /\ shSvc'.reads = shSvc.reads /\ shSvc'.ready = ShReady
  BY DEF ShTypes
<1>4. ShLife' /\ ShExit' /\ ShOut'
  BY <1>3 DEF ShLife, ShExit, ShOut, ShArrived, ShSound
<1>5. ShIn'
  BY <1>1, <1>3 DEF ShIn, ShGiven
<1> QED BY <1>2, <1>4, <1>5

LEMMA ShSelectFailsStep == ShInv /\ ShSelectFails => ShInv'
<1> SUFFICES ASSUME ShInv, ShSelectFails PROVE ShInv'
  OBVIOUS
<1>1. /\ shSvc.pc = "select" /\ shFds' = shFds \ ShOutputs
      /\ shSvc' = [shSvc EXCEPT !.lost = ShOutputs]
      /\ UNCHANGED <<shMode, shChild, shPipe, shHeld, shToDev, shToHost, shUp, shCli>>
  BY DEF ShSelectFails
<1>2. /\ shSvc' \in [pc : {"start", "select", "pass", "wait", "over"}, left : 0..ShPacket,
                     reads : BOOLEAN, lost : SUBSET ShOutputs, ready : SUBSET {"out", "err", "proto", "in"}]
      /\ shSvc'.pc = "select" /\ shSvc'.lost = ShOutputs /\ shSvc'.left = shSvc.left
      /\ shSvc'.reads = shSvc.reads /\ shSvc'.ready = shSvc.ready
  BY <1>1 DEF ShInv, ShTypes
<1>3. ShTypes'
  BY <1>1, <1>2 DEF ShInv, ShTypes
<1>4. ShLife' /\ ShExit'
  BY <1>1, <1>2 DEF ShInv, ShLife, ShExit
<1>5. ShOut'
  BY <1>1, <1>2 DEF ShInv, ShOut, ShArrived, ShSound
<1>6. ShIn'
  BY <1>1, <1>2 DEF ShInv, ShIn, ShGiven
<1> QED BY <1>3, <1>4, <1>5, <1>6 DEF ShInv

LEMMA ShLoopEndsStep == ShInv /\ ShLoopEnds => ShInv'
<1> SUFFICES ASSUME ShInv, ShLoopEnds PROVE ShInv'
  OBVIOUS
<1> USE DEF ShInv, ShLoopEnds
<1>1. ShTypes'
  BY DEF ShTypes
<1>2. shSvc'.pc = "wait" /\ shSvc'.lost = shSvc.lost /\ shSvc'.left = shSvc.left
      /\ shSvc'.reads = shSvc.reads /\ shSvc'.ready = shSvc.ready
  BY DEF ShTypes
<1>3. ShLife' /\ ShExit' /\ ShOut' /\ ShIn'
  BY <1>2 DEF ShLife, ShExit, ShOut, ShArrived, ShSound, ShIn, ShGiven, ShGoesOn
<1> QED BY <1>1, <1>3

\* No exit packet has been sent while the thread is not over.
LEMMA ShNoExit ==
  ASSUME ShInv, shSvc.pc # "over"
  PROVE  /\ Count(shToHost, "exit") = 0 /\ shCli.code = "none"
         /\ \A n \in 1..Len(shToHost) : shToHost[n] \notin {"exit", "exit126"}
<1>1. \A n \in 1..Len(shToHost) : shToHost[n] \notin {"exit", "exit126"}
  BY DEF ShInv, ShExit
<1>2. shToHost \in Seq(ShPackets)
  BY DEF ShInv, ShTypes
<1>3. \A n \in 1..Len(shToHost) : shToHost[n] # "exit"
  BY <1>1
<1>4. Count(shToHost, "exit") = 0
  BY <1>2, <1>3, CountFinds
<1> QED BY <1>1, <1>4 DEF ShInv, ShExit

LEMMA ShPassOutputStep ==
  ASSUME ShInv, NEW o \in ShOutputs, ShPassOutput(o)
  PROVE  ShInv'
<1> USE DEF ShInv
<1>1. /\ shSvc.pc = "pass" /\ o \in shSvc.ready
      /\ UNCHANGED <<shMode, shHeld, shToDev, shUp, shCli>>
  BY DEF ShPassOutput
<1>2. shChild.st \in {"runs", "zombie"} /\ shCli.code = "none" /\ Count(shToHost, "exit") = 0
      /\ \A n \in 1..Len(shToHost) : shToHost[n] \notin {"exit", "exit126"}
  BY <1>1, ShNoExit DEF ShLife
<1>3. /\ shPipe \in [{"out", "err", "in"} -> Nat] /\ o \in {"out", "err", "in"} /\ o # "in"
      /\ shToHost \in Seq(ShPackets) /\ o \in ShPackets /\ o # "exit"
  BY DEF ShTypes, ShOutputs, ShPackets
<1>4. CASE /\ shPipe[o] > 0 /\ shUp /\ Len(shToHost) < ShWindow
           /\ shPipe' = [shPipe EXCEPT ![o] = @ - 1]
           /\ shToHost' = Append(shToHost, o)
           /\ ShHandled(o, shSvc)
  <2>1. /\ shFds' = shFds /\ shChild' = shChild
        /\ shSvc' \in [pc : {"start", "select", "pass", "wait", "over"}, left : 0..ShPacket,
                       reads : BOOLEAN, lost : SUBSET ShOutputs, ready : SUBSET {"out", "err", "proto", "in"}]
        /\ shSvc'.pc \in {"select", "pass"} /\ shSvc'.left = shSvc.left /\ shSvc'.reads = shSvc.reads
        /\ shSvc'.lost = shSvc.lost /\ shSvc'.ready \subseteq shSvc.ready
    BY <1>4 DEF ShHandled, ShTypes
  <2>2. shPipe[o] - 1 \in Nat
    BY <1>3, <1>4
  <2>3. shPipe' \in [{"out", "err", "in"} -> Nat] /\ shPipe'[o] = shPipe[o] - 1
        /\ \A u \in {"out", "err", "in"} : u # o => shPipe'[u] = shPipe[u]
    BY <1>3, <1>4, <2>2
  <2>4. shToHost' \in Seq(ShPackets) /\ Len(shToHost') = Len(shToHost) + 1 /\ Len(shToHost) \in Nat
        /\ shToHost'[Len(shToHost) + 1] = o
        /\ \A n \in 1..Len(shToHost) : shToHost'[n] = shToHost[n]
    BY <1>3, <1>4
  <2>5. \A p : Count(shToHost', p) = Count(shToHost, p) + (IF o = p THEN 1 ELSE 0)
    BY <1>3, <1>4, CountAppended
  <2>6. ShTypes'
    BY <1>1, <2>1, <2>3, <2>4 DEF ShTypes
  <2>7. ShLife'
    BY <1>1, <1>2, <2>1 DEF ShLife
  <2>8. \A n \in 1..Len(shToHost') : shToHost'[n] \notin {"exit", "exit126"}
    BY <1>2, <2>4 DEF ShOutputs
  <2>9. ShExit'
    <3>1. \A n \in 1..Len(shToHost') : shToHost'[n] \in ShOutputs \cup {"exit", "exit126"}
      BY <2>4 DEF ShExit
    <3> QED BY <1>1, <1>2, <2>8, <3>1 DEF ShExit
  <2>10. Count(shToHost', "exit") = 0
    <3>1. Count(shToHost', "exit") = 0 + 0
      BY <1>2, <1>3, <2>5
    <3> QED BY <3>1
  <2>11. ASSUME NEW u \in ShOutputs
         PROVE  /\ ShArrived(u)' + shPipe'[u] = ShArrived(u) + shPipe[u]
                /\ shPipe'[u] = 0 \/ shPipe'[u] = shPipe[u] \/ u = o
    <3>1. /\ shCli.got[u] \in Nat /\ shPipe[u] \in Nat /\ Count(shToHost, u) \in Nat
          /\ u \in {"out", "err", "in"}
      BY ShNumbers DEF ShOutputs
    <3>2. Count(shToHost', u) + shPipe'[u] = Count(shToHost, u) + shPipe[u]
          /\ Count(shToHost', u) \in Nat /\ shPipe'[u] \in Nat
      BY <2>3, <2>5, <3>1
    <3>3. ShArrived(u)' = shCli.got[u] + Count(shToHost', u)
      BY <1>1 DEF ShArrived
    <3>4. (shCli.got[u] + Count(shToHost', u)) + shPipe'[u] = (shCli.got[u] + Count(shToHost, u)) + shPipe[u]
      BY <3>1, <3>2
    <3> QED BY <2>3, <3>1, <3>3, <3>4 DEF ShArrived
  <2>12. ShOut'
    <3> SUFFICES ASSUME NEW u \in ShOutputs
                 PROVE  /\ (shChild.st # "none" => ShArrived(u) + shPipe[u] <= shChild.wrote[u])'
                        /\ (shUp = TRUE /\ shChild.st # "none" =>
                              ShArrived(u) + shPipe[u] = shChild.wrote[u])'
                        /\ ("proto" \in shFds /\ u \notin shFds /\ ShSound(u) => shPipe[u] = 0)'
      BY <1>1, <1>2, <2>10 DEF ShOut
    <3>1. ("proto" \in shFds /\ u \notin shFds /\ ShSound(u) => shPipe[u] = 0)'
      <4>1. "proto" \in shFds /\ u \notin shFds /\ ShSound(u) => shPipe[u] = 0
        BY DEF ShOut
      <4>2. CASE u = o
        BY <1>3, <1>4, <2>1, <4>1, <4>2 DEF ShSound
      <4>3. CASE u # o
        BY <2>1, <2>3, <4>1, <4>3 DEF ShSound, ShOutputs
      <4> QED BY <4>2, <4>3
    <3>2. /\ shChild.st # "none" => ShArrived(u) + shPipe[u] <= shChild.wrote[u]
          /\ shUp = TRUE /\ shChild.st # "none" => ShArrived(u) + shPipe[u] = shChild.wrote[u]
      BY DEF ShOut
    <3> QED BY <1>1, <2>1, <2>11, <3>1, <3>2
  <2>13. ShIn'
    BY <1>1, <1>3, <2>1, <2>3 DEF ShIn, ShGiven
  <2> QED BY <2>6, <2>7, <2>9, <2>12, <2>13
<1>5. CASE /\ shPipe[o] > 0 /\ ~shUp
           /\ shPipe' = [shPipe EXCEPT ![o] = @ - 1]
           /\ ShDead("proto") /\ UNCHANGED shToHost
  <2>1. /\ shFds' = {} /\ shToHost' = shToHost
        /\ shSvc' = [shSvc EXCEPT !.pc = "select", !.ready = {}]
        /\ shChild' = [shChild EXCEPT !.hup = TRUE]
    BY <1>5 DEF ShDead
  <2>2. /\ shSvc' \in [pc : {"start", "select", "pass", "wait", "over"}, left : 0..ShPacket,
                       reads : BOOLEAN, lost : SUBSET ShOutputs, ready : SUBSET {"out", "err", "proto", "in"}]
        /\ shChild' \in [st : {"none", "runs", "zombie", "reaped"},
                         hup : BOOLEAN, wrote : [ShOutputs -> 0..ShMaxOut], took : Nat]
        /\ shSvc'.pc = "select" /\ shSvc'.left = shSvc.left /\ shSvc'.reads = shSvc.reads
        /\ shSvc'.lost = shSvc.lost /\ shSvc'.ready = {}
        /\ shChild'.st = shChild.st /\ shChild'.wrote = shChild.wrote /\ shChild'.took = shChild.took
    BY <2>1 DEF ShTypes
  <2>3. shPipe[o] - 1 \in Nat /\ shPipe[o] - 1 <= shPipe[o]
    BY <1>3, <1>5
  <2>4. shPipe' \in [{"out", "err", "in"} -> Nat] /\ shPipe'["in"] = shPipe["in"]
        /\ \A u \in ShOutputs : shPipe'[u] <= shPipe[u] /\ shPipe'[u] \in Nat
    BY <1>3, <1>5, <2>3 DEF ShOutputs
  <2>5. ShTypes'
    BY <1>1, <2>1, <2>2, <2>4 DEF ShTypes
  <2>6. ShLife' /\ ShExit'
    BY <1>1, <1>2, <2>1, <2>2 DEF ShInv, ShLife, ShExit
  <2>7. ShOut'
    <3> SUFFICES ASSUME NEW u \in ShOutputs
                 PROVE  ShArrived(u)' + shPipe'[u] <= shChild.wrote[u]
      BY <1>1, <1>2, <1>5, <2>1, <2>2 DEF ShOut
    <3>1. ShArrived(u)' = ShArrived(u)
      BY <1>1, <2>1 DEF ShArrived
    <3>2. ShArrived(u) + shPipe[u] <= shChild.wrote[u]
      BY <1>2 DEF ShOut
    <3>3. ShArrived(u) \in Nat /\ shPipe[u] \in Nat /\ shChild.wrote[u] \in Nat
      BY ShNumbers
    <3> QED BY <2>4, <3>1, <3>2, <3>3
  <2>8. ShIn'
    BY <1>1, <1>5, <2>1, <2>2, <2>4 DEF ShIn, ShGiven
  <2> QED BY <2>5, <2>6, <2>7, <2>8
<1>6. CASE shPipe[o] = 0 /\ ShOutputEnds(o)
  <2>1. /\ shFds' = shFds \ {o} /\ shToHost' = shToHost /\ shPipe' = shPipe /\ shChild' = shChild
        /\ shSvc' = [shSvc EXCEPT !.pc = "select", !.ready = {}]
    BY <1>3, <1>6 DEF ShDead, ShOutputEnds, ShOutputs
  <2>2. /\ shSvc' \in [pc : {"start", "select", "pass", "wait", "over"}, left : 0..ShPacket,
                       reads : BOOLEAN, lost : SUBSET ShOutputs, ready : SUBSET {"out", "err", "proto", "in"}]
        /\ shSvc'.pc = "select" /\ shSvc'.left = shSvc.left /\ shSvc'.reads = shSvc.reads
        /\ shSvc'.lost = shSvc.lost /\ shSvc'.ready = {}
    BY <2>1 DEF ShTypes
  <2>3. ShTypes'
    BY <1>1, <2>1, <2>2 DEF ShTypes
  <2>4. ShLife' /\ ShExit'
    BY <1>1, <1>2, <2>1, <2>2 DEF ShInv, ShLife, ShExit
  <2>5. ShOut'
    BY <1>1, <1>2, <1>6, <2>1, <2>2 DEF ShOut, ShArrived, ShSound
  <2>6. ShIn'
    BY <1>1, <2>1, <2>2 DEF ShIn, ShGiven
  <2> QED BY <2>3, <2>4, <2>5, <2>6
<1> QED BY <1>4, <1>5, <1>6 DEF ShPassOutput

\* What a write to the subprocess's stdin does: what fits goes into the pipe
\* and the rest stays; if it fails, stdout is given up as well.
ShStdinWritten(n) ==
  /\ shChild' = shChild /\ shFds' \subseteq shFds
  /\ shSvc' \in [pc : {"start", "select", "pass", "wait", "over"}, left : 0..ShPacket,
                 reads : BOOLEAN, lost : SUBSET ShOutputs, ready : SUBSET {"out", "err", "proto", "in"}]
  /\ shPipe' \in [{"out", "err", "in"} -> Nat]
  /\ \A o \in ShOutputs : shPipe'[o] = shPipe[o]
  /\ shSvc'.pc \in {"select", "pass"}
  /\ shPipe'["in"] <= ShRoom
  /\ shSvc'.reads = TRUE <=> shSvc'.left = 0
  /\ "proto" \in shSvc'.ready => shSvc'.left = 0
  /\ shSvc'.left + shPipe'["in"] <= n + shPipe["in"]
  /\ "out" \in shFds' => shSvc'.left + shPipe'["in"] = n + shPipe["in"]
  /\ shFds \ shFds' \subseteq {"out"}
  /\ "out" \in shFds \ shFds' => "out" \in shSvc'.lost
  /\ shSvc.lost \subseteq shSvc'.lost

\* An operation on stdin that fails loses what was to be written.
LEMMA ShStdinDies ==
  ASSUME ShInv, NEW n \in 0..ShPacket, ShStdinDead
  PROVE  ShStdinWritten(n)
<1>1. /\ shSvc \in [pc : {"start", "select", "pass", "wait", "over"}, left : 0..ShPacket,
                    reads : BOOLEAN, lost : SUBSET ShOutputs, ready : SUBSET {"out", "err", "proto", "in"}]
      /\ shPipe \in [{"out", "err", "in"} -> Nat] /\ ShOutputs = {"out", "err"}
  BY DEF ShInv, ShTypes, ShOutputs
<1>2. ShRoom \in Nat /\ ShPacket \in Nat /\ shPipe["in"] \in Nat /\ shPipe["in"] <= ShRoom
  BY ShellServiceAssumption DEF ShInv, ShTypes, ShIn
<1>3. /\ shSvc' = [shSvc EXCEPT !.pc = "select", !.ready = {}, !.left = 0, !.reads = TRUE,
                                !.lost = @ \cup {"out"}]
      /\ shFds' = shFds \ {"out"} /\ shChild' = shChild /\ shPipe' = shPipe
  BY DEF ShStdinDead
<1>4. PICK lost : lost = shSvc.lost \cup {"out"}
  OBVIOUS
<1>5. lost \in SUBSET ShOutputs
  BY <1>1, <1>4
<1>6. shSvc' = [shSvc EXCEPT !.pc = "select", !.ready = {}, !.left = 0, !.reads = TRUE, !.lost = lost]
  BY <1>3, <1>4
<1>7. /\ shSvc' \in [pc : {"start", "select", "pass", "wait", "over"}, left : 0..ShPacket,
                     reads : BOOLEAN, lost : SUBSET ShOutputs, ready : SUBSET {"out", "err", "proto", "in"}]
      /\ shSvc'.pc = "select" /\ shSvc'.ready = {} /\ shSvc'.left = 0 /\ shSvc'.reads = TRUE
      /\ shSvc'.lost = lost
  <2>1. 0 \in 0..ShPacket /\ {} \in SUBSET {"out", "err", "proto", "in"}
    BY <1>2
  <2> QED BY <1>1, <1>5, <1>6, <2>1
<1> QED BY <1>1, <1>2, <1>3, <1>4, <1>7 DEF ShStdinWritten

LEMMA ShStdinWrite ==
  ASSUME ShInv, NEW fd \in {"proto", "in"}, NEW n \in 0..ShPacket, ShWriteStdin(fd, n),
         "proto" \notin shSvc.ready \ {fd}
  PROVE  ShStdinWritten(n)
<1>1. /\ shSvc \in [pc : {"start", "select", "pass", "wait", "over"}, left : 0..ShPacket,
                    reads : BOOLEAN, lost : SUBSET ShOutputs, ready : SUBSET {"out", "err", "proto", "in"}]
      /\ shPipe \in [{"out", "err", "in"} -> Nat] /\ ShOutputs \subseteq {"out", "err"}
  BY DEF ShInv, ShTypes, ShOutputs
<1>2. ShRoom \in Nat /\ ShPacket \in Nat /\ shPipe["in"] \in Nat /\ shPipe["in"] <= ShRoom
  BY ShellServiceAssumption DEF ShInv, ShTypes, ShIn
<1>3. CASE "out" \notin shHeld
  BY <1>3, ShStdinDies DEF ShWriteStdin
<1>4. CASE "out" \in shHeld
  <2>1. PICK l : l = ShLeft(n)
    OBVIOUS
  <2>2. PICK m : m = IF shPipe["in"] + n < ShRoom THEN shPipe["in"] + n ELSE ShRoom
    OBVIOUS
  <2>3. /\ l \in 0..ShPacket /\ m \in 0..ShRoom /\ l + m = n + shPipe["in"]
    BY <1>2, <2>1, <2>2 DEF ShLeft
  <2>4. PICK b \in BOOLEAN : b = (l = 0)
    OBVIOUS
  <2>5. /\ shPipe' = [shPipe EXCEPT !["in"] = m]
        /\ ShHandled(fd, [shSvc EXCEPT !.left = l, !.reads = b])
    BY <1>4, <2>1, <2>2, <2>4 DEF ShWriteStdin
  <2>6. PICK svc : svc = [shSvc EXCEPT !.left = l, !.reads = b]
    OBVIOUS
  <2>7. /\ svc \in [pc : {"start", "select", "pass", "wait", "over"}, left : 0..ShPacket,
                    reads : BOOLEAN, lost : SUBSET ShOutputs, ready : SUBSET {"out", "err", "proto", "in"}]
        /\ svc.left = l /\ svc.reads = b /\ svc.lost = shSvc.lost /\ svc.ready = shSvc.ready
    BY <1>1, <2>3, <2>4, <2>6
  <2>8. /\ shFds' = shFds /\ shChild' = shChild
        /\ shSvc' = [svc EXCEPT !.ready = @ \ {fd},
                                !.pc = IF svc.ready = {fd} THEN "select" ELSE "pass"]
    BY <2>5, <2>6 DEF ShHandled
  <2>9. /\ shSvc' \in [pc : {"start", "select", "pass", "wait", "over"}, left : 0..ShPacket,
                       reads : BOOLEAN, lost : SUBSET ShOutputs, ready : SUBSET {"out", "err", "proto", "in"}]
        /\ shSvc'.pc \in {"select", "pass"} /\ shSvc'.ready = shSvc.ready \ {fd} /\ shSvc'.left = l
        /\ shSvc'.reads = b /\ shSvc'.lost = shSvc.lost
    BY <2>7, <2>8
  <2>10. shPipe' \in [{"out", "err", "in"} -> Nat] /\ shPipe'["in"] = m
         /\ \A o \in ShOutputs : shPipe'[o] = shPipe[o]
    BY <1>1, <1>2, <2>3, <2>5
  <2>11. shSvc'.reads = TRUE <=> shSvc'.left = 0
    BY <2>4, <2>9
  <2>12. "proto" \notin shSvc'.ready
    BY <2>9
  <2>13. shSvc'.left + shPipe'["in"] = n + shPipe["in"] /\ shPipe'["in"] <= ShRoom
         /\ n + shPipe["in"] \in Nat
    BY <1>2, <2>3, <2>9, <2>10
  <2>14. shSvc'.left + shPipe'["in"] <= n + shPipe["in"]
    BY <2>13
  <2>15. shSvc.lost \subseteq shSvc'.lost
    BY <2>9
  <2>16. shFds \ shFds' \subseteq {"out"} /\ shFds' \subseteq shFds /\ "out" \notin shFds \ shFds'
    BY <2>8
  <2> HIDE <2>4
  <2> QED BY <2>8, <2>9, <2>10, <2>11, <2>12, <2>13, <2>14, <2>15, <2>16 DEF ShStdinWritten
<1> QED BY <1>3, <1>4

\* Outputs after it: nothing has gone, and stdout is unsound if it is closed.
LEMMA ShOutAfterStdin ==
  ASSUME ShInv, shSvc.pc = "pass", NEW n, ShStdinWritten(n),
         UNCHANGED <<shMode, shHeld, shToHost, shUp, shCli>>
  PROVE  ShLife' /\ ShExit' /\ ShOut'
<1>1. shChild.st \in {"runs", "zombie"} /\ shCli.code = "none" /\ Count(shToHost, "exit") = 0
      /\ \A k \in 1..Len(shToHost) : shToHost[k] \notin {"exit", "exit126"}
  BY ShNoExit DEF ShInv, ShLife
<1>2. shSvc'.pc \in {"select", "pass"} /\ shChild' = shChild
  BY DEF ShStdinWritten, ShInv, ShTypes
<1>3. ShLife' /\ ShExit'
  BY <1>1, <1>2 DEF ShInv, ShLife, ShExit
<1>4. ShOut'
  <2> SUFFICES ASSUME NEW u \in ShOutputs
               PROVE  /\ (shChild.st # "none" => ShArrived(u) + shPipe[u] <= shChild.wrote[u])'
                      /\ (shUp = TRUE /\ shChild.st # "none" =>
                            ShArrived(u) + shPipe[u] = shChild.wrote[u])'
                      /\ ("proto" \in shFds /\ u \notin shFds /\ ShSound(u) => shPipe[u] = 0)'
    BY <1>1 DEF ShOut
  <2>1. shPipe'[u] = shPipe[u] /\ ShArrived(u)' = ShArrived(u)
    BY DEF ShStdinWritten, ShArrived
  <2>2. /\ shChild.st # "none" => ShArrived(u) + shPipe[u] <= shChild.wrote[u]
        /\ shUp = TRUE /\ shChild.st # "none" => ShArrived(u) + shPipe[u] = shChild.wrote[u]
        /\ "proto" \in shFds /\ u \notin shFds /\ ShSound(u) => shPipe[u] = 0
    BY DEF ShInv, ShOut
  <2>3. ("proto" \in shFds /\ u \notin shFds /\ ShSound(u) => shPipe[u] = 0)'
    BY <1>2, <2>1, <2>2 DEF ShStdinWritten, ShSound, ShOutputs
  <2> QED BY <1>2, <2>1, <2>2, <2>3
<1> QED BY <1>3, <1>4

LEMMA ShPassRestStep == ShInv /\ ShPassRest => ShInv'
<1> SUFFICES ASSUME ShInv, ShPassRest PROVE ShInv'
  OBVIOUS
<1>1. /\ shSvc.pc = "pass" /\ shSvc.ready = {"in"} /\ ShWriteStdin("in", shSvc.left)
      /\ UNCHANGED <<shMode, shHeld, shToDev, shToHost, shUp, shCli>>
  BY DEF ShPassRest
<1>2. shSvc.left \in 0..ShPacket
  BY DEF ShInv, ShTypes
<1>3. ShStdinWritten(shSvc.left)
  BY <1>1, <1>2, ShStdinWrite
<1>4. ShLife' /\ ShExit' /\ ShOut'
  BY <1>1, <1>3, ShOutAfterStdin
<1>5. ShTypes'
  BY <1>1, <1>3 DEF ShStdinWritten, ShInv, ShTypes
<1>6. ShIn'
  <2>1. /\ ShGiven' = Units(Count(shToDev, "stdin")) + shSvc'.left + shPipe'["in"] + shChild.took
        /\ shSvc'.left \in Nat /\ shPipe'["in"] \in Nat
    BY <1>1, <1>3, ShellServiceAssumption DEF ShStdinWritten, ShGiven
  <2>2. ShGiven' <= ShGiven /\ ("out" \in shFds' => ShGiven' = ShGiven)
    BY <1>3, <2>1, ShNumbers DEF ShStdinWritten, ShGiven
  <2>3. ShGiven' \in Nat /\ ShGiven \in Nat /\ Units(shCli.typed) \in Nat
    BY <2>1, ShNumbers DEF ShGiven
  <2>4. ShGiven <= Units(shCli.typed) /\ shCli.typed <= shCli.sent
        /\ (shUp = TRUE /\ "out" \in shFds => ShGiven = Units(shCli.typed))
    BY DEF ShInv, ShIn
  <2>5. /\ ShGiven' <= Units(shCli.typed)
        /\ shUp = TRUE /\ "out" \in shFds' => ShGiven' = Units(shCli.typed)
    BY <1>3, <2>2, <2>3, <2>4 DEF ShStdinWritten
  <2> QED BY <1>1, <1>3, <2>4, <2>5 DEF ShIn, ShStdinWritten
<1> QED BY <1>4, <1>5, <1>6 DEF ShInv

LEMMA ShPassInputStep == ShInv /\ ShPassInput => ShInv'
<1> SUFFICES ASSUME ShInv, ShPassInput PROVE ShInv'
  OBVIOUS
<1>1. /\ shSvc.pc = "pass" /\ "proto" \in shSvc.ready
      /\ UNCHANGED <<shMode, shHeld, shToHost, shUp, shCli>>
  BY DEF ShPassInput
<1>2. shChild.st \in {"runs", "zombie"} /\ shCli.code = "none" /\ Count(shToHost, "exit") = 0
      /\ \A n \in 1..Len(shToHost) : shToHost[n] \notin {"exit", "exit126"}
  BY <1>1, ShNoExit DEF ShInv, ShLife
<1>3. shToDev \in Seq(ShPackets) /\ shSvc.left = 0 /\ ShGiven <= Units(shCli.typed)
      /\ (shUp = TRUE /\ "out" \in shFds => ShGiven = Units(shCli.typed))
  BY <1>1 DEF ShInv, ShTypes, ShIn
<1>4. CASE shToDev = <<>>
  <2>1. /\ shFds' = {} /\ shPipe' = shPipe /\ shToDev' = shToDev
        /\ shSvc' = [shSvc EXCEPT !.pc = "select", !.ready = {}]
        /\ shChild' = [shChild EXCEPT !.hup = TRUE]
    BY <1>4 DEF ShPassInput, ShDead
  <2>2. /\ shSvc' \in [pc : {"start", "select", "pass", "wait", "over"}, left : 0..ShPacket,
                       reads : BOOLEAN, lost : SUBSET ShOutputs, ready : SUBSET {"out", "err", "proto", "in"}]
        /\ shChild' \in [st : {"none", "runs", "zombie", "reaped"},
                         hup : BOOLEAN, wrote : [ShOutputs -> 0..ShMaxOut], took : Nat]
        /\ shSvc'.pc = "select" /\ shSvc'.left = shSvc.left /\ shSvc'.reads = shSvc.reads
        /\ shSvc'.lost = shSvc.lost /\ shSvc'.ready = {}
        /\ shChild'.st = shChild.st /\ shChild'.wrote = shChild.wrote /\ shChild'.took = shChild.took
    BY <2>1 DEF ShInv, ShTypes
  <2>3. ShTypes'
    BY <1>1, <2>1, <2>2 DEF ShInv, ShTypes
  <2>4. ShLife' /\ ShExit'
    BY <1>1, <1>2, <2>1, <2>2 DEF ShInv, ShLife, ShExit
  <2>5. ShOut'
    BY <1>1, <1>2, <2>1, <2>2 DEF ShInv, ShOut, ShArrived
  <2>6. ShIn'
    BY <1>1, <2>1, <2>2 DEF ShInv, ShIn, ShGiven
  <2> QED BY <2>3, <2>4, <2>5, <2>6 DEF ShInv
<1>5. CASE shToDev # <<>>
  <2>1. /\ shToDev' = Tail(shToDev)
        /\ IF Head(shToDev) = "stdin" /\ "out" \in shFds
           THEN ShWriteStdin("proto", ShPacket)
           ELSE \/ ShHandled("proto", shSvc) /\ UNCHANGED shPipe
                \/ Head(shToDev) = "close" /\ ShStdinDead
    BY <1>5 DEF ShPassInput
  <2>2. /\ shToDev' \in Seq(ShPackets) /\ Count(shToDev', "stdin") \in Nat
        /\ Count(shToDev, "stdin") = Count(shToDev', "stdin") + (IF Head(shToDev) = "stdin" THEN 1 ELSE 0)
    <3>1. Tail(shToDev) \in Seq(ShPackets)
      BY <1>3, <1>5
    <3>2. Count(Tail(shToDev), "stdin") \in Nat
      BY <3>1, Counted
    <3> QED BY <1>3, <1>5, <2>1, <3>1, <3>2, CountTail
  <2>3. /\ Units(Count(shToDev', "stdin")) \in Nat
        /\ Units(Count(shToDev', "stdin")) <= Units(Count(shToDev, "stdin"))
        /\ Head(shToDev) = "stdin" =>
             Units(Count(shToDev, "stdin")) = Units(Count(shToDev', "stdin")) + ShPacket
        /\ Head(shToDev) # "stdin" => Units(Count(shToDev, "stdin")) = Units(Count(shToDev', "stdin"))
    <3>1. PICK a : a = Count(shToDev', "stdin")
      OBVIOUS
    <3>2. PICK b : b = Count(shToDev, "stdin")
      OBVIOUS
    <3>3. a \in Nat /\ (Head(shToDev) = "stdin" => b = a + 1) /\ (Head(shToDev) # "stdin" => b = a + 0)
      BY <2>2, <3>1, <3>2
    <3>4. Units(a) \in Nat /\ ShPacket \in Nat /\ Units(a + 1) = Units(a) + ShPacket /\ a + 0 = a
      <4>1. ShPacket \in Nat /\ a + 0 = a
        BY <3>3, ShellServiceAssumption
      <4>2. Units(a) \in Nat /\ Units(a + 1) = Units(a) + ShPacket
        BY <3>3, UnitsAdded
      <4> QED BY <4>1, <4>2
    <3>5. CASE Head(shToDev) = "stdin"
      <4>1. Units(b) = Units(a) + ShPacket
        BY <3>3, <3>4, <3>5
      <4> QED BY <3>1, <3>2, <3>4, <3>5, <4>1
    <3>6. CASE Head(shToDev) # "stdin"
      <4>1. Units(b) = Units(a)
        BY <3>3, <3>4, <3>6
      <4> QED BY <3>1, <3>2, <3>4, <3>6, <4>1
    <3> QED BY <3>5, <3>6
  <2>4. CASE Head(shToDev) = "stdin" /\ "out" \in shFds
    <3>1. ShWriteStdin("proto", ShPacket) /\ ShPacket \in 0..ShPacket
      BY <2>1, <2>4, ShNumbers
    <3>2. ShStdinWritten(ShPacket)
      BY <3>1, ShStdinWrite
    <3>3. ShLife' /\ ShExit' /\ ShOut'
      BY <1>1, <3>2, ShOutAfterStdin
    <3>4. ShTypes'
      BY <1>1, <2>2, <3>2 DEF ShStdinWritten, ShInv, ShTypes
    <3>5. /\ ShGiven' = Units(Count(shToDev', "stdin")) + shSvc'.left + shPipe'["in"] + shChild.took
          /\ shSvc'.left \in Nat /\ shPipe'["in"] \in Nat
      BY <3>2, ShellServiceAssumption DEF ShStdinWritten, ShGiven
    <3>6. ShGiven' <= ShGiven /\ ("out" \in shFds' => ShGiven' = ShGiven)
      <4>1. /\ shSvc'.left + shPipe'["in"] <= ShPacket + shPipe["in"]
            /\ "out" \in shFds' => shSvc'.left + shPipe'["in"] = ShPacket + shPipe["in"]
        BY <3>2 DEF ShStdinWritten
      <4>2. PICK c : c = Units(Count(shToDev', "stdin"))
        OBVIOUS
      <4>3. c \in Nat /\ Units(Count(shToDev, "stdin")) = c + ShPacket
        BY <2>3, <2>4, <4>2
      <4>4. ShGiven = (c + ShPacket) + 0 + shPipe["in"] + shChild.took
        BY <1>3, <4>3 DEF ShGiven
      <4>5. ShGiven' = c + shSvc'.left + shPipe'["in"] + shChild.took
        BY <3>5, <4>2
      <4> QED BY <3>5, <4>1, <4>3, <4>4, <4>5, ShNumbers
    <3>7. ShGiven' \in Nat /\ ShGiven \in Nat /\ Units(shCli.typed) \in Nat
      BY <2>3, <3>5, ShNumbers DEF ShGiven
    <3>8. /\ ShGiven' <= Units(shCli.typed)
          /\ shUp = TRUE /\ "out" \in shFds' => ShGiven' = Units(shCli.typed)
      BY <1>3, <3>2, <3>6, <3>7 DEF ShStdinWritten
    <3>9. ShIn'
      BY <1>1, <3>2, <3>8 DEF ShInv, ShIn, ShStdinWritten
    <3> QED BY <3>3, <3>4, <3>9 DEF ShInv
  <2>5. CASE ~(Head(shToDev) = "stdin" /\ "out" \in shFds) /\ ShHandled("proto", shSvc)
             /\ shPipe' = shPipe
    <3>1. ShHandled("proto", shSvc) /\ shPipe' = shPipe
      BY <2>5
    <3>2. /\ shFds' = shFds /\ shChild' = shChild
          /\ shSvc' \in [pc : {"start", "select", "pass", "wait", "over"}, left : 0..ShPacket,
                         reads : BOOLEAN, lost : SUBSET ShOutputs, ready : SUBSET {"out", "err", "proto", "in"}]
          /\ shSvc'.pc \in {"select", "pass"} /\ shSvc'.left = shSvc.left /\ shSvc'.reads = shSvc.reads
          /\ shSvc'.lost = shSvc.lost /\ shSvc'.ready \subseteq shSvc.ready
      BY <3>1 DEF ShHandled, ShInv, ShTypes
    <3>3. ShTypes'
      BY <1>1, <2>2, <3>1, <3>2 DEF ShInv, ShTypes
    <3>4. ShLife' /\ ShExit'
      BY <1>1, <1>2, <3>1, <3>2 DEF ShInv, ShLife, ShExit
    <3>5. ShOut'
      BY <1>1, <1>2, <3>1, <3>2 DEF ShInv, ShOut, ShArrived, ShSound
    <3>6. ShGiven' = Units(Count(shToDev', "stdin")) + shSvc.left + shPipe["in"] + shChild.took
      BY <3>1, <3>2 DEF ShGiven
    <3>7. ShGiven' <= ShGiven /\ ("out" \in shFds => ShGiven' = ShGiven)
      BY <2>3, <2>5, <3>6, ShNumbers DEF ShGiven
    <3>8. ShGiven' \in Nat /\ ShGiven \in Nat /\ Units(shCli.typed) \in Nat
      BY <2>3, <3>6, ShNumbers DEF ShGiven
    <3>9. /\ ShGiven' <= Units(shCli.typed)
          /\ shUp = TRUE /\ "out" \in shFds' => ShGiven' = Units(shCli.typed)
      BY <1>3, <3>2, <3>7, <3>8
    <3>10. ShIn'
      BY <1>1, <3>1, <3>2, <3>9 DEF ShInv, ShIn
    <3> QED BY <3>3, <3>4, <3>5, <3>10 DEF ShInv
  <2>6. CASE Head(shToDev) = "close" /\ ShStdinDead
    <3>1. ShStdinWritten(0)
      <4>1. 0 \in 0..ShPacket
        BY ShNumbers
      <4> QED BY <2>6, <4>1, ShStdinDies
    <3>2. ShLife' /\ ShExit' /\ ShOut'
      BY <1>1, <3>1, ShOutAfterStdin
    <3>3. ShTypes'
      BY <1>1, <2>2, <3>1 DEF ShStdinWritten, ShInv, ShTypes
    <3>4. "out" \notin shFds' /\ shSvc'.pc = "select"
      BY <2>6 DEF ShStdinDead, ShInv, ShTypes
    <3>5. ShGiven' <= ShGiven /\ ShGiven' \in Nat /\ ShGiven \in Nat
      <4>1. /\ ShGiven' = Units(Count(shToDev', "stdin")) + shSvc'.left + shPipe'["in"] + shChild.took
            /\ shSvc'.left \in Nat /\ shPipe'["in"] \in Nat
            /\ shSvc'.left + shPipe'["in"] <= 0 + shPipe["in"]
        BY <3>1, ShellServiceAssumption DEF ShStdinWritten, ShGiven
      <4>2. PICK c : c = Units(Count(shToDev', "stdin"))
        OBVIOUS
      <4>3. c \in Nat /\ Units(Count(shToDev, "stdin")) = c
        BY <2>3, <2>6, <4>2
      <4>4. ShGiven = c + 0 + shPipe["in"] + shChild.took
        BY <1>3, <4>3 DEF ShGiven
      <4>5. ShGiven' = c + shSvc'.left + shPipe'["in"] + shChild.took
        BY <4>1, <4>2
      <4> QED BY <4>1, <4>3, <4>4, <4>5, ShNumbers
    <3>6. ShGiven' <= Units(shCli.typed) /\ Units(shCli.typed) \in Nat
      BY <1>3, <3>5, ShNumbers
    <3>7. ShIn'
      BY <1>1, <3>1, <3>4, <3>6 DEF ShInv, ShIn, ShStdinWritten
    <3> QED BY <3>2, <3>3, <3>7 DEF ShInv
  <2> QED BY <2>1, <2>4, <2>5, <2>6
<1> QED BY <1>4, <1>5

LEMMA ShWaitForExitStep == ShInv /\ ShWaitForExit => ShInv'
<1> SUFFICES ASSUME ShInv, ShWaitForExit PROVE ShInv'
  OBVIOUS
<1>1. /\ shSvc.pc = "wait" /\ shChild.st = "zombie"
      /\ shChild' = [shChild EXCEPT !.st = "reaped"] /\ shSvc' = [shSvc EXCEPT !.pc = "over"]
      /\ shFds' = {} /\ UNCHANGED <<shMode, shPipe, shHeld, shToDev, shUp, shCli>>
  BY DEF ShWaitForExit
<1>2. shCli.code = "none" /\ Count(shToHost, "exit") = 0
      /\ \A n \in 1..Len(shToHost) : shToHost[n] \notin {"exit", "exit126"}
  BY <1>1, ShNoExit
<1>3. /\ shChild' \in [st : {"none", "runs", "zombie", "reaped"},
                       hup : BOOLEAN, wrote : [ShOutputs -> 0..ShMaxOut], took : Nat]
      /\ shSvc' \in [pc : {"start", "select", "pass", "wait", "over"}, left : 0..ShPacket,
                     reads : BOOLEAN, lost : SUBSET ShOutputs, ready : SUBSET {"out", "err", "proto", "in"}]
      /\ shChild'.st = "reaped" /\ shChild'.wrote = shChild.wrote /\ shChild'.took = shChild.took
      /\ shSvc'.pc = "over" /\ shSvc'.left = shSvc.left /\ shSvc'.reads = shSvc.reads
      /\ shSvc'.lost = shSvc.lost /\ shSvc'.ready = shSvc.ready
      /\ shToHost \in Seq(ShPackets)
  BY <1>1 DEF ShInv, ShTypes
<1>4. ShIn'
  BY <1>1, <1>3 DEF ShInv, ShIn, ShGiven
<1>5. CASE "proto" \in shFds /\ shUp
  <2>1. shToHost' = Append(shToHost, "exit") /\ "exit" \in ShPackets
    BY <1>5 DEF ShWaitForExit, ShPackets
  <2>2. shToHost' \in Seq(ShPackets) /\ Len(shToHost') = Len(shToHost) + 1 /\ Len(shToHost) \in Nat
        /\ \A n \in 1..Len(shToHost) : shToHost'[n] = shToHost[n]
    BY <1>3, <2>1
  <2>3. ShTypes'
    BY <1>1, <1>3, <2>2 DEF ShInv, ShTypes
  <2>4. ShLife'
    BY <1>1, <1>3 DEF ShLife
  <2>5. ShExit'
    <3>1. \A n \in 1..Len(shToHost') : shToHost'[n] \in ShOutputs \cup {"exit", "exit126"}
      BY <1>3, <2>1, <2>2 DEF ShInv, ShExit
    <3>2. shChild'.st = "reaped" /\ shSvc'.pc = "over" /\ shCli' = shCli
      BY <1>1, <1>3
    <3>3. \A n \in 1..Len(shToHost') : shToHost'[n] \in {"exit", "exit126"} => n = Len(shToHost')
      BY <1>2, <2>2
    <3> QED BY <1>2, <3>1, <3>2, <3>3 DEF ShExit
  <2>6. \A o \in ShOutputs : Count(shToHost', o) = Count(shToHost, o) + 0
    BY <1>3, <2>1, CountAppended DEF ShOutputs
  <2>7. \A o \in ShOutputs : ShArrived(o)' = ShArrived(o)
    BY <1>1, <2>6, ShNumbers DEF ShArrived
  <2>8. ASSUME NEW o \in ShOutputs
        PROVE  ShArrived(o) + shPipe[o] = shChild.wrote[o] /\ (ShSound(o) => shPipe[o] = 0)
    <3>1. o \notin shFds
      BY <1>1, <1>5 DEF ShInv, ShLife, ShGoesOn
    <3>2. shUp = TRUE
      BY <1>5 DEF ShInv, ShTypes
    <3> QED BY <1>1, <1>5, <3>1, <3>2 DEF ShInv, ShOut
  <2>9. ASSUME NEW o \in ShOutputs, ShSound(o)
        PROVE  ShArrived(o) = shChild.wrote[o]
    BY <2>8, <2>9, ShNumbers
  <2>10. \A o \in ShOutputs : ShSound(o)' => ShSound(o)
    BY <1>3 DEF ShSound
  <2>11. ASSUME NEW o \in ShOutputs
         PROVE  ShArrived(o) + shPipe[o] <= shChild.wrote[o]
    BY <2>8, ShNumbers
  <2>12. ShOut'
    BY <1>1, <1>3, <2>7, <2>8, <2>9, <2>10, <2>11 DEF ShOut
  <2> QED BY <1>4, <2>3, <2>4, <2>5, <2>12 DEF ShInv
<1>6. CASE ~("proto" \in shFds /\ shUp)
  <2>1. shToHost' = shToHost
    BY <1>6 DEF ShWaitForExit
  <2>2. ShTypes'
    BY <1>1, <1>3, <2>1 DEF ShInv, ShTypes
  <2>3. ShLife' /\ ShExit'
    BY <1>1, <1>2, <1>3, <2>1 DEF ShInv, ShLife, ShExit
  <2>4. ShOut'
    BY <1>1, <1>2, <1>3, <2>1 DEF ShInv, ShOut, ShArrived
  <2> QED BY <1>4, <2>2, <2>3, <2>4 DEF ShInv
<1> QED BY <1>5, <1>6

LEMMA ShSendsStep ==
  ASSUME ShInv, NEW p \in {"stdin", "close"}, ShSends(p)
  PROVE  ShInv'
<1>1. /\ shCli.pc = "runs" /\ shCli.sent < ShMaxIn /\ shToDev' = Append(shToDev, p)
      /\ shCli' = [shCli EXCEPT !.sent = @ + 1, !.open = p # "close",
                                !.typed = @ + (IF p = "stdin" THEN 1 ELSE 0)]
      /\ UNCHANGED <<shMode, shChild, shPipe, shHeld, shSvc, shFds, shToHost, shUp>>
  BY DEF ShSends
<1>2. PICK d : d = IF p = "stdin" THEN 1 ELSE 0
  OBVIOUS
<1>3. d \in 0..1 /\ ShMaxIn \in Nat /\ shCli.sent \in 0..ShMaxIn /\ shCli.typed \in 0..ShMaxIn
      /\ shCli.typed <= shCli.sent /\ shToDev \in Seq(ShPackets) /\ p \in ShPackets
  BY <1>2, ShellServiceAssumption DEF ShInv, ShTypes, ShIn, ShPackets
<1>4. shCli.sent + 1 \in 0..ShMaxIn /\ shCli.typed + d \in 0..ShMaxIn
      /\ shCli.typed + d <= shCli.sent + 1 /\ (p # "close") \in BOOLEAN
  BY <1>1, <1>3
<1>5. PICK b \in BOOLEAN : b = (p # "close")
  OBVIOUS
<1>6. shCli' = [shCli EXCEPT !.sent = shCli.sent + 1, !.open = b, !.typed = shCli.typed + d]
  BY <1>1, <1>2, <1>5
<1>7. /\ shCli' \in [pc : {"runs", "done", "killed"}, sent : 0..ShMaxIn, typed : 0..ShMaxIn, open : BOOLEAN,
                     got : [ShOutputs -> Nat], code : {"none", "exit", "exit126"}]
      /\ shCli'.got = shCli.got /\ shCli'.code = shCli.code
      /\ shCli'.sent = shCli.sent + 1 /\ shCli'.typed = shCli.typed + d
  BY <1>4, <1>6 DEF ShInv, ShTypes
<1>8. ShTypes'
  <2>1. shToDev' \in Seq(ShPackets)
    BY <1>1, <1>3
  <2> QED BY <1>1, <1>7, <2>1 DEF ShInv, ShTypes
<1>9. ShLife' /\ ShExit' /\ ShOut'
  BY <1>1, <1>7 DEF ShInv, ShLife, ShExit, ShOut, ShArrived, ShSound
<1>10. ShIn'
  <2>1. Count(shToDev', "stdin") = Count(shToDev, "stdin") + d
    BY <1>1, <1>2, <1>3, CountAppended
  <2>2. PICK c : c = Count(shToDev, "stdin")
    OBVIOUS
  <2>3. PICK t : t = shCli.typed
    OBVIOUS
  <2>4. c \in Nat /\ t \in Nat
    BY <1>3, <2>2, <2>3, ShNumbers
  <2>5. Units(c) \in Nat /\ Units(t) \in Nat /\ Units(c + d) - Units(c) = Units(t + d) - Units(t)
        /\ Units(c + d) \in Nat /\ Units(t + d) \in Nat
    <3>1. CASE d = 0
      <4>1. c + d = c /\ t + d = t
        BY <2>4, <3>1
      <4>2. Units(c) \in Nat /\ Units(t) \in Nat
        BY <2>4, UnitsAdded
      <4>3. Units(c) - Units(c) = Units(t) - Units(t)
        BY <4>2
      <4> QED BY <4>1, <4>2, <4>3
    <3>2. CASE d = 1
      <4>1. /\ Units(c) \in Nat /\ Units(c + 1) = Units(c) + ShPacket
            /\ Units(t) \in Nat /\ Units(t + 1) = Units(t) + ShPacket
        BY <2>4, UnitsAdded
      <4>2. ShPacket \in Nat
        BY ShellServiceAssumption
      <4>3. Units(c + 1) - Units(c) = Units(t + 1) - Units(t) /\ Units(c + 1) \in Nat /\ Units(t + 1) \in Nat
        BY <4>1, <4>2
      <4> QED BY <3>2, <4>1, <4>3
    <3> QED BY <1>3, <3>1, <3>2
  <2>6. ShGiven = Units(c) + shSvc.left + shPipe["in"] + shChild.took
    BY <2>2 DEF ShGiven
  <2>7. ShGiven' = Units(c + d) + shSvc.left + shPipe["in"] + shChild.took
    BY <1>1, <2>1, <2>2 DEF ShGiven
  <2>8. ShGiven <= Units(t) /\ (shUp = TRUE /\ (shSvc.pc = "start" \/ "out" \in shFds) => ShGiven = Units(t))
    BY <2>3 DEF ShInv, ShIn
  <2>9. ShGiven' <= Units(t + d)
        /\ (shUp = TRUE /\ (shSvc.pc = "start" \/ "out" \in shFds) => ShGiven' = Units(t + d))
    BY <2>5, <2>6, <2>7, <2>8, ShNumbers
  <2>10. shCli'.typed = t + d /\ shCli'.typed <= shCli'.sent
    BY <1>4, <1>7, <2>3
  <2> QED BY <1>1, <2>9, <2>10 DEF ShInv, ShIn
<1> QED BY <1>8, <1>9, <1>10 DEF ShInv

LEMMA ShDumpsStep == ShInv /\ ShDumps => ShInv'
<1> SUFFICES ASSUME ShInv, ShDumps PROVE ShInv'
  OBVIOUS
<1>1. /\ shToHost # <<>> /\ shToHost' = Tail(shToHost)
      /\ UNCHANGED <<shMode, shChild, shPipe, shHeld, shSvc, shFds, shToDev, shUp>>
      /\ shCli' = IF Head(shToHost) \in ShOutputs
                  THEN [shCli EXCEPT !.got[Head(shToHost)] = @ + 1]
                  ELSE [shCli EXCEPT !.code = Head(shToHost)]
  BY DEF ShDumps
<1>2. PICK h : h = Head(shToHost)
  OBVIOUS
<1>3. shToHost \in Seq(ShPackets)
  BY DEF ShInv, ShTypes
<1>4. /\ h \in ShPackets /\ shToHost' \in Seq(ShPackets) /\ Len(shToHost) \in Nat \ {0}
      /\ Len(shToHost') = Len(shToHost) - 1 /\ h = shToHost[1]
      /\ \A n \in 1..Len(shToHost') : shToHost'[n] = shToHost[n + 1] /\ n + 1 \in 1..Len(shToHost)
  BY <1>1, <1>2, <1>3
<1>5. \A p : Count(shToHost, p) = Count(shToHost', p) + (IF h = p THEN 1 ELSE 0)
  BY <1>1, <1>2, <1>3, CountTail
<1>6. \A p : Count(shToHost', p) \in Nat
  BY <1>4, Counted
<1>7. shSvc.pc # "start" /\ shCli.code = "none"
  BY <1>1 DEF ShInv, ShLife, ShExit
<1>8. shCli \in [pc : {"runs", "done", "killed"}, sent : 0..ShMaxIn, typed : 0..ShMaxIn, open : BOOLEAN,
                 got : [ShOutputs -> Nat], code : {"none", "exit", "exit126"}]
  BY DEF ShInv, ShTypes
<1>9. CASE h \in ShOutputs
  <2>1. PICK g : g = [shCli.got EXCEPT ![h] = @ + 1]
    OBVIOUS
  <2>2. g \in [ShOutputs -> Nat] /\ g[h] = shCli.got[h] + 1
        /\ \A o \in ShOutputs : o # h => g[o] = shCli.got[o]
    BY <1>8, <1>9, <2>1
  <2>3. shCli' = [shCli EXCEPT !.got = g]
    BY <1>1, <1>2, <1>8, <1>9, <2>1
  <2>4. /\ shCli' \in [pc : {"runs", "done", "killed"}, sent : 0..ShMaxIn, typed : 0..ShMaxIn, open : BOOLEAN,
                       got : [ShOutputs -> Nat], code : {"none", "exit", "exit126"}]
        /\ shCli'.got = g /\ shCli'.code = shCli.code
        /\ shCli'.sent = shCli.sent /\ shCli'.typed = shCli.typed
    BY <1>8, <2>2, <2>3
  <2>5. ASSUME NEW o \in ShOutputs
        PROVE  ShArrived(o)' = ShArrived(o) /\ g[o] + Count(shToHost', o) = shCli.got[o] + Count(shToHost, o)
    <3>1. shCli.got[o] \in Nat /\ Count(shToHost', o) \in Nat
      BY <1>6, <1>8
    <3>2. g[o] + Count(shToHost', o) = shCli.got[o] + Count(shToHost, o)
      <4>1. CASE o = h
        BY <1>5, <2>2, <3>1, <4>1
      <4>2. CASE o # h
        <5>1. Count(shToHost, o) = Count(shToHost', o) + 0
          BY <1>5, <4>2
        <5> QED BY <2>2, <3>1, <4>2, <5>1
      <4> QED BY <4>1, <4>2
    <3> QED BY <2>4, <3>2 DEF ShArrived
  <2>6. ShTypes'
    BY <1>1, <1>4, <2>4 DEF ShInv, ShTypes
  <2>7. ShLife'
    <3>1. "out" \in ShOutputs /\ "err" \in ShOutputs
      BY DEF ShOutputs
    <3>2. g["out"] + Count(shToHost', "out") = shCli.got["out"] + Count(shToHost, "out")
          /\ g["err"] + Count(shToHost', "err") = shCli.got["err"] + Count(shToHost, "err")
      BY <2>5, <3>1
    <3> QED BY <1>1, <1>7, <2>4, <3>2 DEF ShInv, ShLife
  <2>8. ShExit'
    BY <1>1, <1>4, <1>7, <2>4 DEF ShInv, ShExit
  <2>9. Count(shToHost', "exit") # 0 => Count(shToHost, "exit") # 0
    BY <1>5, <1>6
  <2>10. ShOut'
    BY <1>1, <1>7, <2>4, <2>5, <2>9 DEF ShInv, ShOut, ShSound
  <2>11. ShIn'
    BY <1>1, <2>4 DEF ShInv, ShIn, ShGiven
  <2> QED BY <2>6, <2>7, <2>8, <2>10, <2>11 DEF ShInv
<1>10. CASE h \notin ShOutputs
  <2>1. shCli' = [shCli EXCEPT !.code = h]
    BY <1>1, <1>2, <1>10
  <2>2. h \in {"exit", "exit126"}
    <3>1. 1 \in 1..Len(shToHost)
      BY <1>4
    <3> QED BY <1>4, <1>10, <3>1 DEF ShInv, ShExit
  <2>3. shToHost' = <<>> /\ shSvc.pc = "over" /\ (h = "exit" => shChild.st = "reaped")
    <3>1. 1 \in 1..Len(shToHost) /\ shToHost[1] \in {"exit", "exit126"}
      BY <1>4, <2>2
    <3>2. 1 = Len(shToHost) /\ shSvc.pc = "over" /\ (h = "exit" => shChild.st = "reaped")
      BY <1>4, <3>1 DEF ShInv, ShExit
    <3>3. Len(shToHost') = 0
      <4>1. Len(shToHost) = 1 /\ Len(shToHost') = Len(shToHost) - 1
        BY <1>4, <3>2
      <4> QED BY <4>1
    <3>4. shToHost' = <<>>
      BY <1>4, <3>3
    <3> QED BY <3>2, <3>4
  <2>4. /\ shCli' \in [pc : {"runs", "done", "killed"}, sent : 0..ShMaxIn, typed : 0..ShMaxIn, open : BOOLEAN,
                       got : [ShOutputs -> Nat], code : {"none", "exit", "exit126"}]
        /\ shCli'.got = shCli.got /\ shCli'.code = h
        /\ shCli'.sent = shCli.sent /\ shCli'.typed = shCli.typed
    BY <1>8, <2>1, <2>2
  <2>5. \A p : Count(shToHost', p) = 0
    BY <2>3, CountEmpty
  <2>6. \A o \in ShOutputs : Count(shToHost, o) = 0 + 0
    BY <1>5, <1>10, <2>5
  <2>7. \A o \in ShOutputs : ShArrived(o)' = ShArrived(o)
    BY <2>4, <2>5, <2>6 DEF ShArrived
  <2>8. ShTypes'
    BY <1>1, <1>4, <2>4 DEF ShInv, ShTypes
  <2>9. ShLife'
    BY <1>1, <2>3, <2>4, <2>5, <2>6 DEF ShInv, ShLife, ShOutputs
  <2>10. ShExit'
    BY <1>1, <2>3, <2>4 DEF ShInv, ShExit
  <2>11. h = "exit" => Count(shToHost, "exit") # 0
    BY <1>5, <1>6
  <2>12. ShOut'
    BY <1>1, <2>4, <2>5, <2>7, <2>11 DEF ShInv, ShOut, ShSound
  <2>13. ShIn'
    BY <1>1, <2>4 DEF ShInv, ShIn, ShGiven
  <2> QED BY <2>8, <2>9, <2>10, <2>12, <2>13 DEF ShInv
<1> QED BY <1>9, <1>10

LEMMA ShReturnsStep == ShInv /\ ShReturns => ShInv'
<1> SUFFICES ASSUME ShInv, ShReturns PROVE ShInv'
  OBVIOUS
<1> USE DEF ShInv, ShReturns
<1>1. ShTypes'
  BY DEF ShTypes
<1>2. shCli'.got = shCli.got /\ shCli'.code = shCli.code
      /\ shCli'.sent = shCli.sent /\ shCli'.typed = shCli.typed
  BY DEF ShTypes
<1>3. ShLife' /\ ShExit' /\ ShOut' /\ ShIn'
  BY <1>2 DEF ShLife, ShExit, ShOut, ShArrived, ShSound, ShIn, ShGiven
<1> QED BY <1>1, <1>3

\* What is lost with the stream: the queue to the client is cut, and an exit
\* packet that is left is left with all that was before it.
ShCut(q, r) == \E k \in 0..Len(q) : r = SubSeq(q, 1, k)

LEMMA CountCut ==
  ASSUME NEW q \in Seq(ShPackets), NEW r, ShCut(q, r)
  PROVE  /\ r \in Seq(ShPackets) /\ Len(r) \in Nat /\ Len(r) <= Len(q)
         /\ \A n \in 1..Len(r) : n \in 1..Len(q) /\ r[n] = q[n]
         /\ Len(r) = Len(q) => r = q
         /\ \A p : Count(r, p) \in Nat /\ Count(q, p) \in Nat /\ Count(r, p) <= Count(q, p)
<1>1. PICK k \in 0..Len(q) : r = SubSeq(q, 1, k)
  BY DEF ShCut
<1>2. /\ r \in Seq(ShPackets) /\ Len(r) = k
      /\ \A n \in 1..k : r[n] = q[n]
      /\ k = Len(q) => r = q
      /\ \A p : Count(r, p) <= Count(q, p)
  BY <1>1, CountPrefix
<1>3. \A p : Count(r, p) \in Nat /\ Count(q, p) \in Nat
  BY <1>2, Counted
<1> QED BY <1>2, <1>3

LEMMA ShHostQueueCut ==
  ASSUME ShInv, ShCut(shToHost, shToHost'), shUp' = FALSE,
         shCli'.got = shCli.got, shCli'.code = shCli.code,
         UNCHANGED <<shChild, shPipe, shSvc, shFds>>
  PROVE  shToHost' \in Seq(ShPackets) /\ ShLife' /\ ShExit' /\ ShOut'
<1>1. shToHost \in Seq(ShPackets)
  BY DEF ShInv, ShTypes
<1>2. /\ shToHost' \in Seq(ShPackets) /\ Len(shToHost') \in Nat /\ Len(shToHost') <= Len(shToHost)
      /\ \A n \in 1..Len(shToHost') : n \in 1..Len(shToHost) /\ shToHost'[n] = shToHost[n]
      /\ Len(shToHost') = Len(shToHost) => shToHost' = shToHost
  BY <1>1, CountCut
<1>3. \A p : /\ Count(shToHost', p) \in Nat /\ Count(shToHost, p) \in Nat
             /\ Count(shToHost', p) <= Count(shToHost, p)
  BY <1>1, CountCut
<1>4. Len(shToHost) \in Nat
  BY <1>1
<1>5. shToHost = <<>> => shToHost' = <<>>
  <2> SUFFICES ASSUME shToHost = <<>> PROVE shToHost' = <<>>
    OBVIOUS
  <2>1. Len(shToHost) = 0
    OBVIOUS
  <2>2. Len(shToHost') = 0
    BY <1>2, <2>1
  <2> QED BY <1>2, <2>1, <2>2
<1>6. ASSUME NEW o \in ShOutputs
      PROVE  /\ ShArrived(o)' = shCli.got[o] + Count(shToHost', o) /\ ShArrived(o)' <= ShArrived(o)
             /\ ShArrived(o)' \in Nat
  <2>1. shCli.got[o] \in Nat
    BY ShNumbers
  <2>2. ShArrived(o)' = shCli.got[o] + Count(shToHost', o) /\ ShArrived(o) = shCli.got[o] + Count(shToHost, o)
    BY DEF ShArrived
  <2> QED BY <1>3, <2>1, <2>2
<1>7. ShLife'
  <2>1. "out" \in ShOutputs /\ "err" \in ShOutputs
    BY DEF ShOutputs
  <2>2. /\ shCli.got["out"] + Count(shToHost', "out") <= shCli.got["out"] + Count(shToHost, "out")
        /\ shCli.got["err"] + Count(shToHost', "err") <= shCli.got["err"] + Count(shToHost, "err")
        /\ shCli.got["out"] + Count(shToHost', "out") \in Nat
        /\ shCli.got["err"] + Count(shToHost', "err") \in Nat
        /\ shCli.got["out"] + Count(shToHost, "out") \in Nat
        /\ shCli.got["err"] + Count(shToHost, "err") \in Nat
    <3>1. shCli.got["out"] \in Nat /\ shCli.got["err"] \in Nat
      BY <2>1, ShNumbers
    <3> QED BY <1>3, <3>1
  <2> QED BY <1>5, <2>2 DEF ShInv, ShLife
<1>8. ShExit'
  BY <1>2, <1>4, <1>5 DEF ShInv, ShExit
<1>9. Count(shToHost', "exit") # 0 => shToHost' = shToHost
  <2> SUFFICES ASSUME Count(shToHost', "exit") # 0 PROVE shToHost' = shToHost
    OBVIOUS
  <2>1. PICK n \in 1..Len(shToHost') : shToHost'[n] = "exit"
    BY <1>2, CountFinds
  <2>2. n = Len(shToHost)
    BY <1>2, <1>4, <2>1 DEF ShInv, ShExit
  <2> QED BY <1>2, <1>4, <2>1, <2>2
<1>10. ShOut'
  <2> SUFFICES ASSUME NEW o \in ShOutputs
               PROVE  /\ (shChild.st # "none" => ShArrived(o) + shPipe[o] <= shChild.wrote[o])'
                      /\ ("proto" \in shFds /\ o \notin shFds /\ ShSound(o) => shPipe[o] = 0)'
                      /\ ((Count(shToHost, "exit") # 0 \/ shCli.code = "exit") /\ ShSound(o) =>
                            ShArrived(o) = shChild.wrote[o])'
    BY DEF ShOut
  <2>1. (shChild.st # "none" => ShArrived(o) + shPipe[o] <= shChild.wrote[o])'
    <3>1. shChild.st # "none" => ShArrived(o) + shPipe[o] <= shChild.wrote[o]
      BY DEF ShInv, ShOut
    <3> QED BY <1>6, <3>1, ShNumbers
  <2>2. ("proto" \in shFds /\ o \notin shFds /\ ShSound(o) => shPipe[o] = 0)'
    BY DEF ShInv, ShOut, ShSound
  <2>3. ASSUME (Count(shToHost, "exit") # 0 \/ shCli.code = "exit")'
        PROVE  shToHost' = shToHost /\ (Count(shToHost, "exit") # 0 \/ shCli.code = "exit")
    <3>1. CASE Count(shToHost', "exit") # 0
      BY <1>9, <3>1
    <3>2. CASE shCli.code = "exit"
      BY <1>5, <3>2 DEF ShInv, ShExit
    <3> QED BY <2>3, <3>1, <3>2
  <2>4. ((Count(shToHost, "exit") # 0 \/ shCli.code = "exit") /\ ShSound(o) =>
           ShArrived(o) = shChild.wrote[o])'
    <3> SUFFICES ASSUME (Count(shToHost, "exit") # 0 \/ shCli.code = "exit")', ShSound(o)'
                 PROVE  ShArrived(o)' = shChild.wrote[o]
      OBVIOUS
    <3>1. ShSound(o)
      BY DEF ShSound
    <3>2. ShArrived(o) = shChild.wrote[o]
      BY <2>3, <3>1 DEF ShInv, ShOut
    <3>3. ShArrived(o)' = ShArrived(o)
      BY <2>3 DEF ShArrived
    <3> QED BY <3>2, <3>3
  <2> QED BY <2>1, <2>2, <2>4
<1> QED BY <1>2, <1>7, <1>8, <1>10

LEMMA ShKilledStep == ShInv /\ ShKilled => ShInv'
<1> SUFFICES ASSUME ShInv, ShKilled PROVE ShInv'
  OBVIOUS
<1>1. /\ shCli' = [shCli EXCEPT !.pc = "killed"] /\ shUp' = FALSE /\ shToHost' = <<>>
      /\ UNCHANGED <<shMode, shChild, shPipe, shHeld, shSvc, shFds, shToDev>>
  BY DEF ShKilled
<1>2. /\ shCli' \in [pc : {"runs", "done", "killed"}, sent : 0..ShMaxIn, typed : 0..ShMaxIn, open : BOOLEAN,
                     got : [ShOutputs -> Nat], code : {"none", "exit", "exit126"}]
      /\ shCli'.got = shCli.got /\ shCli'.code = shCli.code
      /\ shCli'.sent = shCli.sent /\ shCli'.typed = shCli.typed
  BY <1>1 DEF ShInv, ShTypes
<1>3. ShCut(shToHost, shToHost')
  <2>1. shToHost' = SubSeq(shToHost, 1, 0) /\ 0 \in 0..Len(shToHost)
    BY <1>1 DEF ShInv, ShTypes
  <2> QED BY <2>1 DEF ShCut
<1>4. shToHost' \in Seq(ShPackets) /\ ShLife' /\ ShExit' /\ ShOut'
  BY <1>1, <1>2, <1>3, ShHostQueueCut
<1>5. ShTypes'
  BY <1>1, <1>2, <1>4 DEF ShInv, ShTypes
<1>6. ShIn'
  BY <1>1, <1>2 DEF ShInv, ShIn, ShGiven
<1> QED BY <1>4, <1>5, <1>6 DEF ShInv

LEMMA ShBreaksStep == ShInv /\ ShBreaks => ShInv'
<1> SUFFICES ASSUME ShInv, ShBreaks PROVE ShInv'
  OBVIOUS
<1>1. shUp' = FALSE /\ UNCHANGED <<shMode, shChild, shPipe, shHeld, shSvc, shFds, shCli>>
  BY DEF ShBreaks
<1>2. ShCut(shToHost, shToHost')
  BY DEF ShBreaks, ShCut
<1>3. ShCut(shToDev, shToDev')
  BY DEF ShBreaks, ShCut
<1>4. shToHost' \in Seq(ShPackets) /\ ShLife' /\ ShExit' /\ ShOut'
  BY <1>1, <1>2, ShHostQueueCut
<1>5. shToDev' \in Seq(ShPackets) /\ Count(shToDev', "stdin") <= Count(shToDev, "stdin")
  <2>1. shToDev \in Seq(ShPackets)
    BY DEF ShInv, ShTypes
  <2> QED BY <1>3, <2>1, CountCut
<1>6. ShTypes'
  <2>1. shUp' \in BOOLEAN
    BY <1>1
  <2>2. shToDev' \in Seq(ShPackets)
    BY <1>5
  <2> QED BY <1>1, <1>4, <2>1, <2>2 DEF ShInv, ShTypes
<1>7. ShIn'
  <2>1. Count(shToDev', "stdin") \in Nat /\ Count(shToDev, "stdin") \in Nat
    BY <1>5, Counted, ShNumbers
  <2>2. /\ Units(Count(shToDev', "stdin")) <= Units(Count(shToDev, "stdin"))
        /\ Units(Count(shToDev', "stdin")) \in Nat
    BY <1>5, <2>1, UnitsAdded
  <2>3. ShGiven' = Units(Count(shToDev', "stdin")) + shSvc.left + shPipe["in"] + shChild.took
    BY <1>1 DEF ShGiven
  <2>4. ShGiven' <= ShGiven /\ ShGiven' \in Nat /\ ShGiven \in Nat
    BY <2>2, <2>3, ShNumbers DEF ShGiven
  <2>5. ShGiven <= Units(shCli.typed) /\ Units(shCli.typed) \in Nat
    BY ShNumbers DEF ShInv, ShIn
  <2>6. ShGiven' <= Units(shCli.typed)
    BY <2>4, <2>5
  <2> QED BY <1>1, <2>6 DEF ShInv, ShIn
<1> QED BY <1>4, <1>6, <1>7 DEF ShInv

-----------------------------------------------------------------------------
(* ShellService: the theorems *)

LEMMA ShInvInvariant == ShellServiceSpec => []ShInv
<1>1. ShellServiceInit => ShInv
  BY ShInvInit
<1>2. ShInv /\ [ShellServiceNext]_shVars => ShInv'
  <2> SUFFICES ASSUME ShInv, [ShellServiceNext]_shVars PROVE ShInv'
    OBVIOUS
  <2>1. CASE UNCHANGED shVars
    BY <2>1 DEF shVars, ShInv, ShTypes, ShLife, ShExit, ShOut, ShArrived, ShSound, ShIn, ShGiven,
                ShGoesOn
  <2>2. CASE ShellServiceNext
    BY <2>2, ShStartStep, ShStartFailsStep, ShSelectStep, ShSelectFailsStep, ShPassInputStep,
       ShPassRestStep, ShLoopEndsStep, ShWaitForExitStep, ShPassOutputStep, ShExitsStep, ShReadsStep,
       ShWritesStep, ShReleasesStep, ShSendsStep, ShDumpsStep, ShReturnsStep, ShKilledStep,
       ShBreaksStep
       DEF ShellServiceNext, ShThread, ShSubprocess
  <2> QED BY <2>1, <2>2
<1> QED BY <1>1, <1>2, PTL DEF ShellServiceSpec

\* The state of a shell, its thread, its subprocess and its client keeps its
\* type (shell_service.cpp, commandline.cpp); no count passes its bound.
THEOREM ShellServiceTypeCorrect == ShellServiceSpec => []ShellServiceTypeOK
BY ShInvInvariant, ShInvTyped, PTL

\* A client that has the exit code has all of the output, and no unit of stdin
\* is lost or doubled (Subprocess::PassDataStreams and WaitForExit, with
\* read_and_dump), whatever the sizes and whenever the stream breaks.
THEOREM ShellIsComplete == ShellServiceSpec => []ShellComplete
BY ShInvInvariant, ShInvComplete, PTL

-----------------------------------------------------------------------------
(* Jdwp: the list and what is told of it *)

JdEntry == [vm : JdVms, pid : BOOLEAN, fds : Seq(JdDebuggers), write : BOOLEAN]

\* A finite set of positions has as many in order as it has.
LEMMA JdNthInside ==
  ASSUME NEW S, S \subseteq Nat, IsFiniteSet(S), NEW n \in 1..Cardinality(S)
  PROVE  JdNth(S, n) \in S
<1> DEFINE Below(i) == {j \in S : j <= i}
           rank == [i \in S |-> Cardinality(Below(i))]
           N == Cardinality(S)
<1>1. N \in Nat
  BY FS_CardinalityType
<1>2. ASSUME NEW i \in S
      PROVE  IsFiniteSet(Below(i)) /\ Cardinality(Below(i)) \in 1..N
  <2>1. IsFiniteSet(Below(i)) /\ Cardinality(Below(i)) <= N
    BY FS_Subset
  <2>2. Cardinality(Below(i)) \in Nat
    BY <2>1, FS_CardinalityType
  <2>3. i \in Nat /\ i \in Below(i)
    OBVIOUS
  <2>4. Cardinality(Below(i)) # 0
    BY <2>1, <2>3, FS_EmptySet
  <2> QED BY <1>1, <2>1, <2>2, <2>4
<1>3. ASSUME NEW i \in S, NEW j \in S, i < j
      PROVE  Cardinality(Below(i)) # Cardinality(Below(j))
  <2>1. Below(i) \subseteq Below(j) /\ j \in Below(j) /\ j \notin Below(i)
    <3>1. i \in Nat /\ j \in Nat /\ i <= j /\ ~(j <= i) /\ j <= j
      BY <1>3
    <3>2. \A k \in S : k <= i => k <= j
      BY <3>1
    <3> QED BY <3>1, <3>2, Zenon
  <2>2. Below(i) # Below(j)
    BY <2>1
  <2> QED BY <1>2, <2>1, <2>2, FS_Subset
<1>4. rank \in Injection(S, 1..N)
  <2>1. rank \in [S -> 1..N]
    BY <1>2
  <2>2. ASSUME NEW i \in S, NEW j \in S, rank[i] = rank[j]
        PROVE  i = j
    <3>1. i \in Nat /\ j \in Nat
      OBVIOUS
    <3> QED BY <1>3, <2>2, <3>1
  <2> HIDE DEF rank
  <2> QED BY <2>1, <2>2 DEF Injection, IsInjective
<1>5. IsFiniteSet(1..N) /\ Cardinality(1..N) = N
  BY <1>1, FS_Interval
<1>6. rank \in Surjection(S, 1..N)
  BY <1>4, <1>5, FS_Injection
<1>7. PICK i \in S : rank[i] = n
  BY <1>6 DEF Surjection
<1>8. \E k \in S : Cardinality({j \in S : j <= k}) = n
  BY <1>7
<1> QED BY <1>8 DEF JdNth

LEMMA JdPidsInside ==
  ASSUME NEW list \in Seq(JdEntry), NEW max \in Nat
  PROVE  LET top == IF Cardinality(JdKnown(list)) < max THEN Cardinality(JdKnown(list)) ELSE max
         IN  /\ top \in Nat
             /\ \A k \in 1..top : JdNth(JdKnown(list), k) \in JdKnown(list)
             /\ JdPids(list, max) = [k \in 1..top |-> list[JdNth(JdKnown(list), k)].vm]
             /\ JdPids(list, max) \in Seq(JdVms)
<1> DEFINE known == JdKnown(list)
           N == Cardinality(known)
           top == IF N < max THEN N ELSE max
<1>1. known \subseteq Nat /\ IsFiniteSet(known) /\ known \subseteq 1..Len(list)
  <2>1. known \subseteq 1..Len(list)
    BY DEF JdKnown
  <2>2. IsFiniteSet(1..Len(list)) /\ 1..Len(list) \subseteq Nat
    BY FS_Interval
  <2> HIDE DEF known
  <2> QED BY <2>1, <2>2, FS_Subset
<1>2. N \in Nat
  BY <1>1, FS_CardinalityType
<1>3. top \in Nat /\ \A k \in 1..top : k \in 1..N
  BY <1>2
<1>4. \A k \in 1..top : JdNth(known, k) \in known
  <2> HIDE DEF known
  <2> QED BY <1>1, <1>3, JdNthInside
<1>5. JdPids(list, max) = [k \in 1..top |-> list[JdNth(known, k)].vm]
  BY DEF JdPids
<1>6. \A i \in 1..Len(list) : list[i].vm \in JdVms
  <2>1. \A i \in 1..Len(list) : list[i] \in JdEntry
    OBVIOUS
  <2>2. \A e \in JdEntry : e.vm \in JdVms
    BY DEF JdEntry
  <2> QED BY <2>1, <2>2
<1>7. JdPids(list, max) \in Seq(JdVms)
  <2> HIDE DEF known, top
  <2>1. \A k \in 1..top : list[JdNth(known, k)].vm \in JdVms
    BY <1>1, <1>4, <1>6
  <2>2. [k \in 1..top |-> list[JdNth(known, k)].vm] \in Seq(JdVms)
    BY <1>3, <2>1
  <2> QED BY <1>5, <2>2
<1> QED BY <1>3, <1>4, <1>5, <1>7

\* What is told depends on the processes with a pid only.
LEMMA JdPidsSame ==
  ASSUME NEW list \in Seq(JdEntry), NEW other \in Seq(JdEntry), NEW max \in Nat,
         JdKnown(other) = JdKnown(list),
         \A i \in JdKnown(list) : other[i].vm = list[i].vm
  PROVE  JdPids(other, max) = JdPids(list, max)
<1> DEFINE known == JdKnown(list)
           top == IF Cardinality(known) < max THEN Cardinality(known) ELSE max
<1>1. \A k \in 1..top : JdNth(known, k) \in known
  BY JdPidsInside
<1>2. JdPids(list, max) = [k \in 1..top |-> list[JdNth(known, k)].vm]
  BY JdPidsInside
<1>3. JdPids(other, max) = [k \in 1..top |-> other[JdNth(known, k)].vm]
  BY DEF JdPids
<1> HIDE DEF known, top
<1>4. \A k \in 1..top : other[JdNth(known, k)].vm = list[JdNth(known, k)].vm
  BY <1>1 DEF known
<1> QED BY <1>2, <1>3, <1>4

\* An entry is replaced by one with the same process and pid.
LEMMA JdEntryReplaced ==
  ASSUME NEW list \in Seq(JdEntry), NEW i \in 1..Len(list), NEW e \in JdEntry, NEW max \in Nat,
         e.vm = list[i].vm, e.pid = list[i].pid
  PROVE  /\ [list EXCEPT ![i] = e] \in Seq(JdEntry)
         /\ JdPids([list EXCEPT ![i] = e], max) = JdPids(list, max)
<1>1. PICK other : other = [list EXCEPT ![i] = e]
  OBVIOUS
<1>2. other \in Seq(JdEntry) /\ Len(other) = Len(list)
      /\ \A k \in 1..Len(list) : other[k] = IF k = i THEN e ELSE list[k]
  BY <1>1
<1>3. \A k \in 1..Len(list) : other[k].vm = list[k].vm /\ other[k].pid = list[k].pid
  BY <1>2
<1>4. DOMAIN other = 1..Len(list) /\ DOMAIN list = 1..Len(list)
  BY <1>2
<1>5. JdKnown(other) = JdKnown(list)
  BY <1>3, <1>4 DEF JdKnown
<1>6. \A k \in JdKnown(list) : other[k].vm = list[k].vm
  BY <1>3, <1>4 DEF JdKnown
<1> QED BY <1>1, <1>2, <1>5, <1>6, JdPidsSame

\* A connection without a pid is added.
LEMMA JdEntryAdded ==
  ASSUME NEW list \in Seq(JdEntry), NEW e \in JdEntry, NEW max \in Nat, e.pid = FALSE
  PROVE  /\ Append(list, e) \in Seq(JdEntry)
         /\ JdPids(Append(list, e), max) = JdPids(list, max)
<1>1. PICK other : other = Append(list, e)
  OBVIOUS
<1>2. other \in Seq(JdEntry) /\ Len(other) = Len(list) + 1 /\ other[Len(list) + 1] = e
      /\ Len(list) \in Nat /\ \A k \in 1..Len(list) : other[k] = list[k]
  BY <1>1
<1>3. DOMAIN other = 1..(Len(list) + 1) /\ DOMAIN list = 1..Len(list)
  BY <1>2
<1>4. JdKnown(other) = JdKnown(list)
  BY <1>2, <1>3 DEF JdKnown
<1>5. \A k \in JdKnown(list) : other[k].vm = list[k].vm
  BY <1>2, <1>3 DEF JdKnown
<1> QED BY <1>1, <1>2, <1>4, <1>5, JdPidsSame

LEMMA JdEntryRemoved ==
  ASSUME NEW list \in Seq(JdEntry), NEW i \in 1..Len(list)
  PROVE  RemoveAt(list, i) \in Seq(JdEntry)
<1>1. SubSeq(list, 1, i - 1) \in Seq(JdEntry) /\ SubSeq(list, i + 1, Len(list)) \in Seq(JdEntry)
  OBVIOUS
<1> QED BY <1>1 DEF RemoveAt

-----------------------------------------------------------------------------
(* Jdwp: the invariant, and one lemma per kind of step *)

JdInv == JdwpTypeOK /\ TrackersKnowProcesses

JdProcess == [st : {"off", "up", "ended"}, said : {"nothing", "pid", "junk"}]
JdTracker == [st : {"none", "open", "once", "gone"}, told : Seq(JdVms)]
JdStream == [st : {"none", "queued", "attached", "closed"}, num : JdNumbers \cup {0}, own : BOOLEAN]

\* What a tracker may have been told of a list
JdTellings(list) == {JdPids(list, JdFits), JdPids(list, JdPacketFits)}

\* The trackers are told of the new list; or the list shows them nothing new.
LEMMA JdTold ==
  ASSUME JdInv, jdList' \in Seq(JdEntry), JdUpdated(jdList')
  PROVE  jdTrk' \in [JdTrackers -> JdTracker] /\ TrackersKnowProcesses'
<1>1. JdFits \in Nat /\ jdTrk \in [JdTrackers -> JdTracker]
  BY JdwpAssumption DEF JdInv, JdwpTypeOK, JdTracker
<1>2. PICK told : told = JdPids(jdList', JdFits)
  OBVIOUS
<1>3. told \in Seq(JdVms)
  BY <1>1, <1>2, JdPidsInside
<1>4. jdTrk' = [t \in JdTrackers |-> IF jdTrk[t].st = "open"
                                     THEN [jdTrk[t] EXCEPT !.told = told] ELSE jdTrk[t]]
  BY <1>2 DEF JdUpdated
<1>5. \A t \in JdTrackers : /\ jdTrk'[t] \in JdTracker
                            /\ jdTrk'[t].st = "open" => jdTrk'[t].told = told
  BY <1>1, <1>3, <1>4 DEF JdTracker
<1>6. jdTrk' \in [JdTrackers -> JdTracker]
  BY <1>4, <1>5
<1>7. TrackersKnowProcesses'
  BY <1>2, <1>5 DEF TrackersKnowProcesses
<1> QED BY <1>6, <1>7

LEMMA JdUntold ==
  ASSUME JdInv, JdTellings(jdList') = JdTellings(jdList), jdTrk' = jdTrk
  PROVE  jdTrk' \in [JdTrackers -> JdTracker] /\ TrackersKnowProcesses'
BY DEF JdInv, JdwpTypeOK, JdTracker, JdTellings, TrackersKnowProcesses

\* The types by their names
LEMMA JdTypes ==
  JdwpTypeOK <=>
    /\ jdVm \in [JdVms -> JdProcess]
    /\ jdBacklog \in Seq(JdVms)
    /\ jdList \in Seq(JdEntry)
    /\ jdTrk \in [JdTrackers -> JdTracker]
    /\ jdDbg \in [JdDebuggers -> JdStream]
    /\ jdTable \in [JdNumbers -> {"free", "other"} \cup JdDebuggers]
    /\ jdOther \subseteq JdNumbers
    /\ jdPopping \in JdVms \cup {"none"}
BY DEF JdwpTypeOK, JdProcess, JdEntry, JdTracker, JdStream

LEMMA JdInvInit == JdwpInit => JdInv
<1> SUFFICES ASSUME JdwpInit PROVE JdInv
  OBVIOUS
<1>1. JdwpTypeOK
  BY DEF JdwpInit, JdwpTypeOK
<1>2. TrackersKnowProcesses
  BY DEF JdwpInit, TrackersKnowProcesses
<1> QED BY <1>1, <1>2 DEF JdInv

\* The Java processes and the other threads
LEMMA JdOutsideStep ==
  ASSUME JdInv,
         \/ \E v \in JdVms : JdDials(v) \/ JdEnds(v) \/ \E w \in {"pid", "junk"} : JdSays(v, w)
         \/ \E n \in JdNumbers : JdOtherOpens(n) \/ JdOtherCloses(n)
  PROVE  JdInv'
<1>1. jdList' = jdList /\ jdTrk' = jdTrk /\ UNCHANGED <<jdDbg, jdPopping>>
  BY DEF JdDials, JdEnds, JdSays, JdOtherOpens, JdOtherCloses
<1>2. TrackersKnowProcesses'
  BY <1>1 DEF JdInv, TrackersKnowProcesses
<1> USE DEF JdInv
<1>3. ASSUME NEW v \in JdVms, JdDials(v)
      PROVE  JdwpTypeOK'
  <2>1. jdBacklog' \in Seq(JdVms)
    BY <1>3 DEF JdwpTypeOK, JdDials
  <2>2. jdVm' \in [JdVms -> JdProcess]
    BY <1>3, JdTypes DEF JdProcess, JdDials
  <2> QED BY <1>3, <2>1, <2>2 DEF JdwpTypeOK, JdDials, JdProcess
<1>4. ASSUME NEW v \in JdVms, JdEnds(v)
      PROVE  JdwpTypeOK'
  BY <1>4 DEF JdwpTypeOK, JdEnds
<1>5. ASSUME NEW v \in JdVms, NEW w \in {"pid", "junk"}, JdSays(v, w)
      PROVE  JdwpTypeOK'
  BY <1>5 DEF JdwpTypeOK, JdSays
<1>6. ASSUME NEW n \in JdNumbers, JdOtherOpens(n)
      PROVE  JdwpTypeOK'
  BY <1>6 DEF JdwpTypeOK, JdOtherOpens
<1>7. ASSUME NEW n \in JdNumbers, JdOtherCloses(n)
      PROVE  JdwpTypeOK'
  BY <1>7 DEF JdwpTypeOK, JdOtherCloses
<1> QED BY <1>2, <1>3, <1>4, <1>5, <1>6, <1>7

\* The trackers' streams
LEMMA JdTrackerStep ==
  ASSUME JdInv, NEW t \in JdTrackers,
         JdTrack(t) \/ JdTrackerClosed(t) \/ JdListOnce(t) \/ JdListEnds(t)
  PROVE  JdInv'
<1>1. UNCHANGED <<jdVm, jdBacklog, jdList, jdDbg, jdTable, jdOther, jdPopping>>
  BY DEF JdTrack, JdTrackerClosed, JdListOnce, JdListEnds
<1>2. jdTrk \in [JdTrackers -> JdTracker] /\ jdList \in Seq(JdEntry) /\ JdPacketFits \in Nat
  BY JdTypes, JdwpAssumption DEF JdInv
<1>3. JdPids(jdList, JdPacketFits) \in Seq(JdVms) /\ <<>> \in Seq(JdVms)
  BY <1>2, JdPidsInside
<1>4. PICK e : /\ jdTrk' = [jdTrk EXCEPT ![t] = e]
               /\ \/ e = [st |-> "open", told |-> JdPids(jdList, JdPacketFits)]
                  \/ e = [st |-> "gone", told |-> <<>>]
                  \/ e = [st |-> "once", told |-> JdPids(jdList, JdPacketFits)]
  BY DEF JdTrack, JdTrackerClosed, JdListOnce, JdListEnds
<1>5. e \in JdTracker /\ (e.st = "open" => e.told = JdPids(jdList, JdPacketFits))
  <2>1. PICK p : p = JdPids(jdList, JdPacketFits)
    OBVIOUS
  <2>2. p \in Seq(JdVms) /\ <<>> \in Seq(JdVms)
    BY <1>3, <2>1
  <2>3. \/ e = [st |-> "open", told |-> p] \/ e = [st |-> "gone", told |-> <<>>]
        \/ e = [st |-> "once", told |-> p]
    BY <1>4, <2>1
  <2>4. e \in JdTracker /\ (e.st = "open" => e.told = p)
    <3>1. CASE e = [st |-> "open", told |-> p]
      BY <2>2, <3>1 DEF JdTracker
    <3>2. CASE e = [st |-> "once", told |-> p]
      BY <2>2, <3>2 DEF JdTracker
    <3>3. CASE e = [st |-> "gone", told |-> <<>>]
      <4>1. PICK z : z = <<>>
        OBVIOUS
      <4>2. e = [st |-> "gone", told |-> z] /\ z \in Seq(JdVms)
        BY <2>2, <3>3, <4>1
      <4> QED BY <4>2 DEF JdTracker
    <3> QED BY <2>3, <3>1, <3>2, <3>3
  <2> QED BY <2>1, <2>4
<1>6. jdTrk' \in [JdTrackers -> JdTracker]
  BY <1>2, <1>4, <1>5
<1>7. TrackersKnowProcesses'
  <2> SUFFICES ASSUME NEW s \in JdTrackers, jdTrk'[s].st = "open"
               PROVE  jdTrk'[s].told \in JdTellings(jdList)
    BY <1>1 DEF TrackersKnowProcesses, JdTellings
  <2>1. CASE s = t
    BY <1>2, <1>4, <1>5, <2>1 DEF JdTellings
  <2>2. CASE s # t
    BY <1>2, <1>4, <2>2 DEF JdInv, TrackersKnowProcesses, JdTellings
  <2> QED BY <2>1, <2>2
<1>8. JdwpTypeOK'
  BY <1>1, <1>6 DEF JdInv, JdwpTypeOK, JdTracker
<1> QED BY <1>7, <1>8 DEF JdInv

LEMMA JdControlEventStep == JdInv /\ JdControlEvent => JdInv'
<1> SUFFICES ASSUME JdInv, JdControlEvent PROVE JdInv'
  OBVIOUS
<1>1. /\ jdBacklog # <<>> /\ jdBacklog' = Tail(jdBacklog)
      /\ UNCHANGED <<jdVm, jdTrk, jdDbg, jdTable, jdOther, jdPopping>>
  BY DEF JdControlEvent
<1>2. jdBacklog \in Seq(JdVms) /\ jdList \in Seq(JdEntry) /\ JdFits \in Nat /\ JdPacketFits \in Nat
  BY JdTypes, JdwpAssumption DEF JdInv
<1>3. jdBacklog' \in Seq(JdVms) /\ Head(jdBacklog) \in JdVms
  BY <1>1, <1>2
<1>4. PICK e : e = [vm |-> Head(jdBacklog), pid |-> FALSE, fds |-> <<>>, write |-> FALSE]
  OBVIOUS
<1>5. e \in JdEntry /\ e.pid = FALSE
  <2>1. <<>> \in Seq(JdDebuggers)
    OBVIOUS
  <2> QED BY <1>3, <1>4, <2>1 DEF JdEntry
<1>6. jdList' = Append(jdList, e) \/ jdList' = jdList
  BY <1>4 DEF JdControlEvent
<1>7. jdList' \in Seq(JdEntry) /\ JdTellings(jdList') = JdTellings(jdList)
  BY <1>2, <1>5, <1>6, JdEntryAdded DEF JdTellings
<1>8. TrackersKnowProcesses'
  BY <1>1, <1>7, JdUntold
<1>9. JdwpTypeOK'
  BY <1>1, <1>3, <1>7 DEF JdInv, JdwpTypeOK, JdEntry
<1> QED BY <1>8, <1>9 DEF JdInv

\* A process leaves a list of which the trackers are told.
LEMMA JdRemoved ==
  ASSUME JdInv, NEW list \in Seq(JdEntry), NEW i \in 1..Len(list),
         NEW dbg \in [JdDebuggers -> JdStream],
         NEW table \in [JdNumbers -> {"free", "other"} \cup JdDebuggers],
         JdRemove(list, i, dbg, table)
  PROVE  /\ jdList' \in Seq(JdEntry)
         /\ jdTrk' \in [JdTrackers -> JdTracker] /\ TrackersKnowProcesses'
         /\ jdDbg' \in [JdDebuggers -> JdStream]
         /\ jdTable' \in [JdNumbers -> {"free", "other"} \cup JdDebuggers]
<1>1. jdList' = RemoveAt(list, i) /\ JdUpdated(jdList')
  BY DEF JdRemove
<1>2. jdList' \in Seq(JdEntry)
  BY <1>1, JdEntryRemoved
<1>3. jdTrk' \in [JdTrackers -> JdTracker] /\ TrackersKnowProcesses'
  BY <1>1, <1>2, JdTold
<1>4. \A e \in JdStream : [e EXCEPT !.st = "closed", !.num = 0] \in JdStream
  BY DEF JdStream
<1>5. jdDbg' \in [JdDebuggers -> JdStream]
  BY <1>4 DEF JdRemove
<1>6. jdTable' \in [JdNumbers -> {"free", "other"} \cup JdDebuggers]
  BY DEF JdRemove
<1> QED BY <1>2, <1>3, <1>5, <1>6

LEMMA JdClosed ==
  ASSUME JdInv, NEW i \in DOMAIN jdList, JdCloseProcess(i)
  PROVE  /\ jdList' \in Seq(JdEntry)
         /\ jdTrk' \in [JdTrackers -> JdTracker] /\ TrackersKnowProcesses'
         /\ jdDbg' \in [JdDebuggers -> JdStream]
         /\ jdTable' \in [JdNumbers -> {"free", "other"} \cup JdDebuggers]
<1>1. jdList \in Seq(JdEntry) /\ jdDbg \in [JdDebuggers -> JdStream]
      /\ jdTable \in [JdNumbers -> {"free", "other"} \cup JdDebuggers]
  BY JdTypes DEF JdInv
<1>2. i \in 1..Len(jdList) /\ JdRemove(jdList, i, jdDbg, jdTable)
  BY <1>1 DEF JdCloseProcess
<1> QED BY <1>1, <1>2, JdRemoved

\* FDE_READ
LEMMA JdReadStep ==
  ASSUME JdInv, NEW i \in DOMAIN jdList, JdReadPid(i) \/ JdReadEnd(i)
  PROVE  JdInv'
<1>1. jdList \in Seq(JdEntry) /\ jdVm \in [JdVms -> JdProcess] /\ jdDbg \in [JdDebuggers -> JdStream]
      /\ jdTable \in [JdNumbers -> {"free", "other"} \cup JdDebuggers]
  BY JdTypes DEF JdInv
<1>2. i \in 1..Len(jdList) /\ jdList[i] \in JdEntry
  BY <1>1
<1>3. /\ UNCHANGED <<jdBacklog, jdOther, jdPopping>>
      /\ jdVm' = jdVm \/ \E v \in JdVms : jdVm' = [jdVm EXCEPT ![v].said = "nothing"]
      /\ \/ JdCloseProcess(i)
         \/ /\ jdList' = [jdList EXCEPT ![i].pid = TRUE] /\ JdUpdated([jdList EXCEPT ![i].pid = TRUE])
            /\ UNCHANGED <<jdDbg, jdTable>>
  <2>1. jdList[i].vm \in JdVms
    BY <1>2 DEF JdEntry
  <2>2. CASE JdReadPid(i)
    BY <2>1, <2>2 DEF JdReadPid
  <2>3. CASE JdReadEnd(i)
    BY <2>3 DEF JdReadEnd
  <2> QED BY <2>2, <2>3
<1>4. jdVm' \in [JdVms -> JdProcess]
  BY <1>1, <1>3 DEF JdProcess
<1>5. /\ jdList' \in Seq(JdEntry)
      /\ jdTrk' \in [JdTrackers -> JdTracker] /\ TrackersKnowProcesses'
      /\ jdDbg' \in [JdDebuggers -> JdStream]
      /\ jdTable' \in [JdNumbers -> {"free", "other"} \cup JdDebuggers]
  <2>1. CASE JdCloseProcess(i)
    BY <2>1, JdClosed
  <2>2. CASE /\ jdList' = [jdList EXCEPT ![i].pid = TRUE] /\ JdUpdated([jdList EXCEPT ![i].pid = TRUE])
             /\ UNCHANGED <<jdDbg, jdTable>>
    <3>1. [jdList[i] EXCEPT !.pid = TRUE] \in JdEntry
      BY <1>2 DEF JdEntry
    <3>2. jdList' = [jdList EXCEPT ![i] = [jdList[i] EXCEPT !.pid = TRUE]]
      BY <1>1, <1>2, <2>2
    <3>3. jdList' \in Seq(JdEntry)
      BY <1>1, <1>2, <3>1, <3>2
    <3>4. JdUpdated(jdList')
      BY <2>2
    <3> QED BY <1>1, <2>2, <3>3, <3>4, JdTold
  <2> QED BY <1>3, <2>1, <2>2
<1>6. JdwpTypeOK'
  BY <1>3, <1>4, <1>5 DEF JdInv, JdwpTypeOK, JdProcess, JdEntry, JdTracker, JdStream
<1> QED BY <1>5, <1>6 DEF JdInv

\* FDE_WRITE
LEMMA JdSendFdStep ==
  ASSUME JdInv, NEW i \in DOMAIN jdList, JdSendFd(i)
  PROVE  JdInv'
<1>1. jdList \in Seq(JdEntry) /\ jdDbg \in [JdDebuggers -> JdStream]
      /\ jdTable \in [JdNumbers -> {"free", "other"} \cup JdDebuggers]
      /\ jdTrk \in [JdTrackers -> JdTracker] /\ TrackersKnowProcesses
  BY JdTypes DEF JdInv
<1>2. i \in 1..Len(jdList) /\ jdList[i] \in JdEntry
  BY <1>1
<1>3. jdList[i].vm \in JdVms
  BY <1>2 DEF JdEntry
<1>4. UNCHANGED <<jdVm, jdBacklog, jdOther>> /\ jdPopping' \in JdVms \cup {"none"}
  <2>1. jdPopping \in JdVms \cup {"none"}
    BY JdTypes DEF JdInv
  <2> QED BY <1>3, <2>1 DEF JdSendFd
<1>5. /\ jdList' \in Seq(JdEntry)
      /\ jdTrk' \in [JdTrackers -> JdTracker] /\ TrackersKnowProcesses'
      /\ jdDbg' \in [JdDebuggers -> JdStream]
      /\ jdTable' \in [JdNumbers -> {"free", "other"} \cup JdDebuggers]
  <2>1. CASE JdCloseProcess(i)
    BY <2>1, JdClosed
  <2>2. CASE \E d, n : /\ jdDbg' = [jdDbg EXCEPT ![d].st = "attached", ![d].own = jdTable[n] = d]
                       /\ jdTable' = [jdTable EXCEPT ![n] = "free"]
                       /\ UNCHANGED <<jdList, jdTrk>>
    <3>1. PICK d, n : /\ jdDbg' = [jdDbg EXCEPT ![d].st = "attached", ![d].own = jdTable[n] = d]
                      /\ jdTable' = [jdTable EXCEPT ![n] = "free"]
                      /\ UNCHANGED <<jdList, jdTrk>>
      BY <2>2
    <3>2. PICK b \in BOOLEAN : b = (jdTable[n] = d)
      OBVIOUS
    <3>3. jdDbg' = [jdDbg EXCEPT ![d].st = "attached", ![d].own = b]
      BY <3>1, <3>2
    <3>4. jdDbg' \in [JdDebuggers -> JdStream]
      BY <1>1, <3>3 DEF JdStream
    <3>5. jdTable' \in [JdNumbers -> {"free", "other"} \cup JdDebuggers]
      BY <1>1, <3>1
    <3> QED BY <1>1, <3>1, <3>4, <3>5 DEF TrackersKnowProcesses
  <2> QED BY <2>1, <2>2 DEF JdSendFd
<1>6. JdwpTypeOK'
  BY <1>4, <1>5 DEF JdInv, JdwpTypeOK, JdEntry, JdTracker, JdStream
<1> QED BY <1>5, <1>6 DEF JdInv

LEMMA JdPopStep ==
  ASSUME JdInv, NEW i \in DOMAIN jdList, JdPop(i)
  PROVE  JdInv'
<1>1. jdList \in Seq(JdEntry) /\ jdDbg \in [JdDebuggers -> JdStream]
      /\ JdFits \in Nat /\ JdPacketFits \in Nat
      /\ jdTable \in [JdNumbers -> {"free", "other"} \cup JdDebuggers]
  BY JdTypes, JdwpAssumption DEF JdInv
<1>2. i \in 1..Len(jdList) /\ jdList[i] \in JdEntry
  BY <1>1
<1>3. jdList[i].fds \in Seq(JdDebuggers)
  BY <1>2 DEF JdEntry
<1>4. PICK fds : fds = Front(jdList[i].fds)
  OBVIOUS
<1>5. fds \in Seq(JdDebuggers)
  BY <1>3, <1>4 DEF Front
<1>6. PICK b \in BOOLEAN : b = JdStillWrites(fds)
  BY DEF JdStillWrites
<1>7. PICK e : e = [jdList[i] EXCEPT !.fds = fds, !.write = b]
  OBVIOUS
<1>8. e \in JdEntry /\ e.vm = jdList[i].vm /\ e.pid = jdList[i].pid
  BY <1>2, <1>5, <1>7 DEF JdEntry
<1>9. PICK list : list = [jdList EXCEPT ![i].fds = fds, ![i].write = b]
  OBVIOUS
<1>10. list = [jdList EXCEPT ![i] = e] /\ Len(list) = Len(jdList)
  <2>1. list = [jdList EXCEPT ![i] = e]
    BY <1>1, <1>2, <1>7, <1>9
  <2> QED BY <1>1, <2>1
<1>11. list \in Seq(JdEntry) /\ JdTellings(list) = JdTellings(jdList)
  BY <1>1, <1>2, <1>8, <1>10, JdEntryReplaced DEF JdTellings
<1>12. PICK d : d = Last(jdList[i].fds)
  OBVIOUS
<1>13. PICK dbg : dbg = [jdDbg EXCEPT ![d].num = 0]
  OBVIOUS
<1>14. PICK table : table = [jdTable EXCEPT ![jdDbg[d].num] = "free"]
  OBVIOUS
<1>15. dbg \in [JdDebuggers -> JdStream] /\ table \in [JdNumbers -> {"free", "other"} \cup JdDebuggers]
  BY <1>1, <1>13, <1>14 DEF JdStream
<1>16. /\ jdPopping' = "none" /\ UNCHANGED <<jdVm, jdBacklog, jdOther>>
       /\ \/ jdList' = list /\ jdDbg' = dbg /\ jdTable' = table /\ jdTrk' = jdTrk
          \/ JdRemove(list, i, dbg, table)
  BY <1>4, <1>6, <1>9, <1>12, <1>13, <1>14 DEF JdPop
<1>17. /\ jdList' \in Seq(JdEntry)
       /\ jdTrk' \in [JdTrackers -> JdTracker] /\ TrackersKnowProcesses'
       /\ jdDbg' \in [JdDebuggers -> JdStream]
       /\ jdTable' \in [JdNumbers -> {"free", "other"} \cup JdDebuggers]
  <2>1. CASE jdList' = list /\ jdDbg' = dbg /\ jdTable' = table /\ jdTrk' = jdTrk
    BY <1>11, <1>15, <2>1, JdUntold
  <2>2. CASE JdRemove(list, i, dbg, table)
    BY <1>2, <1>10, <1>11, <1>15, <2>2, JdRemoved
  <2> QED BY <1>16, <2>1, <2>2
<1>18. JdwpTypeOK'
  BY <1>16, <1>17 DEF JdInv, JdwpTypeOK, JdEntry, JdTracker, JdStream
<1> QED BY <1>17, <1>18 DEF JdInv

LEMMA JdOpenStep ==
  ASSUME JdInv, NEW d \in JdDebuggers, NEW v \in JdVms, JdOpen(d, v)
  PROVE  JdInv'
<1>1. jdList \in Seq(JdEntry) /\ jdDbg \in [JdDebuggers -> JdStream]
      /\ JdFits \in Nat /\ JdPacketFits \in Nat
      /\ jdTable \in [JdNumbers -> {"free", "other"} \cup JdDebuggers]
  BY JdTypes, JdwpAssumption DEF JdInv
<1>2. UNCHANGED <<jdVm, jdBacklog, jdTrk, jdOther, jdPopping>>
  BY DEF JdOpen
<1>3. CASE jdDbg' = [jdDbg EXCEPT ![d].st = "closed"] /\ UNCHANGED <<jdList, jdTable>>
  <2>1. jdDbg' \in [JdDebuggers -> JdStream]
    BY <1>1, <1>3 DEF JdStream
  <2>2. TrackersKnowProcesses'
    BY <1>2, <1>3 DEF JdInv, TrackersKnowProcesses
  <2>3. JdwpTypeOK'
    BY <1>2, <1>3, <2>1 DEF JdInv, JdwpTypeOK, JdStream
  <2> QED BY <2>2, <2>3 DEF JdInv
<1>4. ASSUME NEW i \in DOMAIN jdList, NEW n \in JdNumbers,
             jdDbg' = [jdDbg EXCEPT ![d].st = "queued", ![d].num = n],
             jdTable' = [jdTable EXCEPT ![n] = d],
             jdList' = [jdList EXCEPT ![i].fds = Append(@, d),
                                      ![i].write = @ \/ Len(jdList[i].fds) = 0]
      PROVE  JdInv'
  <2>1. i \in 1..Len(jdList) /\ jdList[i] \in JdEntry
    BY <1>1
  <2>2. jdList[i].fds \in Seq(JdDebuggers) /\ jdList[i].write \in BOOLEAN
    BY <2>1 DEF JdEntry
  <2>3. PICK fds : fds = Append(jdList[i].fds, d)
    OBVIOUS
  <2>4. fds \in Seq(JdDebuggers)
    BY <2>2, <2>3
  <2>5. PICK b \in BOOLEAN : b = (jdList[i].write \/ Len(jdList[i].fds) = 0)
    BY <2>2
  <2>6. PICK e : e = [jdList[i] EXCEPT !.fds = fds, !.write = b]
    OBVIOUS
  <2>7. e \in JdEntry /\ e.vm = jdList[i].vm /\ e.pid = jdList[i].pid
    BY <2>1, <2>4, <2>6 DEF JdEntry
  <2>8. jdList' = [jdList EXCEPT ![i] = e]
    <3>1. jdList' = [jdList EXCEPT ![i].fds = fds, ![i].write = b]
      BY <1>4, <2>3, <2>5
    <3> QED BY <1>1, <2>1, <2>6, <3>1
  <2>9. jdList' \in Seq(JdEntry) /\ JdTellings(jdList') = JdTellings(jdList)
    BY <1>1, <2>1, <2>7, <2>8, JdEntryReplaced DEF JdTellings
  <2>10. TrackersKnowProcesses'
    BY <1>2, <2>9, JdUntold
  <2>11. jdDbg' \in [JdDebuggers -> JdStream]
    BY <1>1, <1>4 DEF JdStream
  <2>12. jdTable' \in [JdNumbers -> {"free", "other"} \cup JdDebuggers]
    BY <1>1, <1>4
  <2>13. JdwpTypeOK'
    BY <1>2, <2>9, <2>11, <2>12 DEF JdInv, JdwpTypeOK, JdEntry, JdStream
  <2> QED BY <2>10, <2>13 DEF JdInv
<1> QED BY <1>3, <1>4 DEF JdOpen

-----------------------------------------------------------------------------
(* Jdwp: the theorems *)

LEMMA JdInvInvariant == JdwpSpec => []JdInv
<1>1. JdwpInit => JdInv
  BY JdInvInit
<1>2. JdInv /\ [JdwpNext]_jdVars => JdInv'
  <2> SUFFICES ASSUME JdInv, [JdwpNext]_jdVars PROVE JdInv'
    OBVIOUS
  <2>1. CASE UNCHANGED jdVars
    BY <2>1 DEF jdVars, JdInv, JdwpTypeOK, TrackersKnowProcesses
  <2>2. CASE JdwpNext
    BY <2>2, JdOutsideStep, JdTrackerStep, JdControlEventStep, JdReadStep, JdSendFdStep,
       JdPopStep, JdOpenStep
       DEF JdwpNext, JdMain
  <2> QED BY <2>1, <2>2
<1> QED BY <1>1, <1>2, PTL DEF JdwpSpec

\* The state of the JDWP service keeps its type (jdwp_service.cpp), whatever
\* numbers the kernel gives to other threads.
THEOREM JdwpTypeCorrect == JdwpSpec => []JdwpTypeOK
BY JdInvInvariant, PTL DEF JdInv

\* A tracker knows the processes: jdwp_process_list_updated is called on every
\* change of _jdwp_list that jdwp_process_list shows, for any processes.  What
\* it knows is the list as far as it fits, in a packet at first and in the
\* buffer of jdwp_process_list_updated from the first change on.
THEOREM TrackersAreUpToDate == JdwpSpec => []TrackersKnowProcesses
BY JdInvInvariant, PTL DEF JdInv

-----------------------------------------------------------------------------
(* The services together *)

\* A step of the composition is a step of one service and a stuttering step
\* of the two others: it implements file_sync_service.cpp with its client,
\* shell_service.cpp and jdwp_service.cpp, each as specified alone.
THEOREM ServicesImplementParts ==
  ServicesSpec => FileSyncSpec /\ ShellServiceSpec /\ JdwpSpec
<1>1. ServicesInit => FileSyncInit /\ ShellServiceInit /\ JdwpInit
  BY DEF ServicesInit
<1>2. [ServicesNext]_servicesVars => [FileSyncNext]_fileSyncVars
  BY DEF ServicesNext, servicesVars
<1>3. [ServicesNext]_servicesVars => [ShellServiceNext]_shVars
  BY DEF ServicesNext, servicesVars
<1>4. [ServicesNext]_servicesVars => [JdwpNext]_jdVars
  BY DEF ServicesNext, servicesVars
<1> QED BY <1>1, <1>2, <1>3, <1>4, PTL
        DEF ServicesSpec, FileSyncSpec, ShellServiceSpec, JdwpSpec

\* The state of file sync, of shells and of JDWP keeps its type (the messages
\* that file_sync_service.cpp, shell_service.cpp and jdwp_service.cpp exchange
\* with their clients included).
THEOREM ServicesTypeCorrect == ServicesSpec => []ServicesTypeOK
BY ServicesImplementParts, FileSyncTypeCorrect, ShellServiceTypeCorrect, JdwpTypeCorrect, PTL
   DEF ServicesTypeOK

\* Shells deliver all output and the status (shell_service.cpp), trackers are
\* told of every change of the list (jdwp_service.cpp), failed transfers of
\* regular files are explained and, when no file is named twice, files that were
\* listed are complete on success, but for the tail of an old one that could not
\* be removed (file_sync_client.cpp, file_sync_service.cpp), in the composition
\* too.
THEOREM ServicesAreSafe ==
  ServicesSpec => /\ [](FailuresExplained /\ ShellComplete /\ TrackersKnowProcesses)
                  /\ NoneNamedTwice => []FilesComplete
BY ServicesImplementParts, ShellIsComplete, TrackersAreUpToDate, FailuresAreExplained, CopiedFilesAreComplete, PTL
=============================================================================
