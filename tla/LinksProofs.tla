---------------------------- MODULE LinksProofs ----------------------------
(***************************************************************************)
(* Theorems about what lies below the transports: the pending events of    *)
(* fdevent.cpp and the functions other threads have the main thread run;   *)
(* the USB transports of adbd and of the server, for any number of         *)
(* connections, handles, plugs and kicks;                                  *)
(* the clients that start a server and the emulators' transports, for any  *)
(* set of clients, server processes and emulators and any number of slots, *)
(* retries and requests.  The composition is last: a step of it is a step  *)
(* of one component and a stuttering step of every other, so it implements *)
(* each, and what is proved of a component alone holds of it there.        *)
(***************************************************************************)
EXTENDS MCLinks, FiniteSetTheorems, SequenceTheorems, TLAPS

-----------------------------------------------------------------------------
(* DaemonUsb: the inductive invariant *)

\* The transports are registered one after another.
DuInOrder ==
  /\ DuOpened \in 0..DuMaxT
  /\ \A t \in DuTs : duT[t].st # "none" <=> t <= DuOpened

\* When the open thread is at work, or asked to be, all transports so far
\* are closed; there is room for the one it will register.
DuAlone ==
  /\ duOpener # "wait" \/ duWanted = TRUE => \A t \in 1..DuOpened : duT[t].closed = TRUE
  /\ duOpener # "wait" => duWanted = FALSE /\ DuOpened < DuMaxT

\* A reference for each thread that has not ended.
DuHolds(pc) == IF pc \in {"none", "over"} THEN 0 ELSE 1

\* What the state of a transport says of its threads: the references, that
\* no thread gets past kick_transport before the transport is kicked, and
\* that usb_ffs_close comes after both.
DuLife ==
  \A t \in DuTs :
    /\ duT[t].st \in {"none", "pending"} =>
         duT[t].rd = "none" /\ duT[t].wr = "none" /\ duT[t].kicked = FALSE
    /\ duT[t].st \in {"listed", "gone"} => duT[t].rd # "none" /\ duT[t].wr # "none"
    /\ duT[t].refs = DuHolds(duT[t].rd) + DuHolds(duT[t].wr)
    /\ duT[t].closed = TRUE <=> duT[t].rd = "over" /\ duT[t].wr = "over"
    /\ duT[t].st = "gone" => duT[t].closed = TRUE
    /\ duT[t].rd \in {"unref", "over"} \/ duT[t].wr \in {"unref", "over"} =>
         duT[t].kicked = TRUE

\* While another thread is inside usb_ffs_kick, with transport_lock, the
\* transport's own threads have not passed kick_transport.
DuInside ==
  duOther.pc # "idle" =>
    /\ duOther.t \in DuTs
    /\ duT[duOther.t].st = "listed"
    /\ duT[duOther.t].rd \notin {"unref", "over"}
    /\ duT[duOther.t].wr \notin {"unref", "over"}

\* Two transports never use the handle at the same time.
DuOneAtATime == \A t, u \in DuTs : t < u /\ duT[u].st # "none" => duT[t].closed = TRUE

DuInductive ==
  DaemonUsbTypeOK /\ DuInOrder /\ DuAlone /\ DuLife /\ DuInside /\ DuOneAtATime

\* DuOpened counts the transports that have been registered.
LEMMA OpenedIs ==
  ASSUME NEW k \in 0..DuMaxT, \A t \in DuTs : duT[t].st # "none" <=> t <= k
  PROVE  DuOpened = k
<1>1. {t \in DuTs : duT[t].st # "none"} = 1..k
  BY DaemonUsbAssumption DEF DuTs
<1>2. Cardinality(1..k) = k
  BY FS_Interval
<1> QED BY <1>1, <1>2 DEF DuOpened

\* The invariant says what KickHitsOwnEndpoints does.
LEMMA DuInductiveIsEnough == DuInductive => KickHitsOwnEndpoints
<1> SUFFICES ASSUME DuInductive PROVE KickHitsOwnEndpoints
  OBVIOUS
<1>1. ASSUME duOther.pc # "idle"
      PROVE  duT[duOther.t].closed = FALSE /\ \A t \in DuTs : t > duOther.t => duT[t].st = "none"
  <2>1. duT[duOther.t].closed = FALSE
    BY <1>1 DEF DuInductive, DuInside, DuLife, DaemonUsbTypeOK, DuTransport
  <2> QED BY <1>1, <2>1 DEF DuInductive, DuInside, DuOneAtATime, DuTs
<1>2. \A t, u \in DuTs : t < u /\ duT[u].st # "none" => duT[t].closed
  BY DEF DuInductive, DuOneAtATime
<1> QED BY <1>1, <1>2 DEF KickHitsOwnEndpoints

\* The state usb_ffs_init leaves.
LEMMA DuInitially == DaemonUsbInit => DuInductive
<1> SUFFICES ASSUME DaemonUsbInit PROVE DuInductive
  OBVIOUS
<1> USE DaemonUsbAssumption DEF DaemonUsbInit
<1>1. DuOpened = 0
  <2>1. \A t \in DuTs : duT[t].st # "none" <=> t <= 0
    BY DEF DuTs
  <2>2. 0 \in 0..DuMaxT
    OBVIOUS
  <2> QED BY <2>1, <2>2, OpenedIs
<1>2. DaemonUsbTypeOK
  <2>1. duT \in [DuTs -> DuTransport]
    BY DEF DuTransport
  <2>2. duOther \in [pc : {"idle", "out", "in"}, t : 0..DuMaxT]
    OBVIOUS
  <2>3. duEp \in [DuEps -> {"none", "open", "null", "stale"}] /\ duKicks \in 0..DuMaxKicks
    OBVIOUS
  <2> QED BY <2>1, <2>2, <2>3 DEF DaemonUsbTypeOK
<1> QED BY <1>1, <1>2 DEF DuInductive, DuInOrder, DuAlone, DuLife, DuInside, DuOneAtATime,
                          DuHolds, DuTs

\* The open thread.
LEMMA DuOpenerKeeps ==
  ASSUME DuInductive, DuOpenerStep
  PROVE  DuInductive'
<1> USE DaemonUsbAssumption
<1>1. CASE DuWait
  <2>1. DuOpened' = DuOpened
    BY <1>1 DEF DuWait, DuOpened
  <2> QED BY <1>1, <2>1 DEF DuWait, DuInductive, DaemonUsbTypeOK, DuInOrder, DuAlone, DuLife,
             DuInside, DuOneAtATime
<1>2. CASE DuInit
  <2>1. DuOpened' = DuOpened
    BY <1>2 DEF DuInit, DuOpened
  <2>2. DaemonUsbTypeOK'
    BY <1>2 DEF DuInit, DuInductive, DaemonUsbTypeOK
  <2> QED BY <1>2, <2>1, <2>2 DEF DuInit, DuInductive, DuInOrder, DuAlone, DuLife, DuInside,
             DuOneAtATime
<1>3. CASE DuRegister
  <2> DEFINE n == DuOpened + 1
  <2>1. n \in DuTs /\ duT[n].st = "none"
    BY <1>3 DEF DuRegister, DuInductive, DuInOrder, DuAlone, DuTs
  <2> HIDE DEF n
  <2>2. /\ duT' = [duT EXCEPT ![n].st = "pending"] /\ duOpener' = "wait"
        /\ UNCHANGED <<duCable, duWanted, duControl, duEp, duOther, duKicks>>
    BY <1>3 DEF DuRegister, n
  <2>3. DaemonUsbTypeOK'
    BY <2>1, <2>2 DEF DuInductive, DaemonUsbTypeOK, DuTransport
  <2>4. /\ duT'[n].st = "pending" /\ duT'[n].closed = duT[n].closed /\ duT'[n].rd = duT[n].rd
        /\ duT'[n].wr = duT[n].wr /\ duT'[n].kicked = duT[n].kicked
        /\ duT'[n].refs = duT[n].refs
        /\ \A t \in DuTs \ {n} : duT'[t] = duT[t]
    BY <2>1, <2>2 DEF DuInductive, DaemonUsbTypeOK, DuTransport
  <2>5. \A t \in DuTs : duT'[t].st # "none" <=> t <= n
    BY <2>1, <2>4 DEF DuInductive, DuInOrder, DuTs, n
  <2>6. DuOpened' = n
    <3>1. n \in 0..DuMaxT
      BY <2>1 DEF DuTs
    <3>2. {t \in DuTs : duT'[t].st # "none"} = 1..n
      BY <2>5, <3>1 DEF DuTs
    <3>3. Cardinality(1..n) = n
      BY <3>1, FS_Interval
    <3> QED BY <3>2, <3>3 DEF DuOpened
  <2>7. DuInOrder'
    BY <2>1, <2>5, <2>6 DEF DuInOrder, DuTs
  <2>8. DuAlone'
    BY <1>3, <2>2 DEF DuRegister, DuAlone, DuInductive
  <2>9. DuLife'
    BY <2>1, <2>4 DEF DuInductive, DuLife
  <2>10. DuInside'
    BY <2>1, <2>2, <2>4 DEF DuInductive, DuInside
  <2>11. \A t \in DuTs : t < n => duT[t].closed = TRUE
    BY <1>3 DEF DuRegister, DuInductive, DuAlone, DuInOrder, DuTs, n
  <2>12. DuOneAtATime'
    BY <2>1, <2>4, <2>5, <2>11 DEF DuInductive, DuOneAtATime, DuTs
  <2> QED BY <2>3, <2>7, <2>8, <2>9, <2>10, <2>12 DEF DuInductive
<1> QED BY <1>1, <1>2, <1>3 DEF DuOpenerStep

\* Steps that register nothing leave DuOpened alone.
LEMMA OpenedStays ==
  ASSUME \A t \in DuTs : duT'[t].st # "none" <=> duT[t].st # "none"
  PROVE  DuOpened' = DuOpened
BY DEF DuOpened

\* The part of the invariant that is about one transport.
DuLifeOf(r) ==
  /\ r.st \in {"none", "pending"} => r.rd = "none" /\ r.wr = "none" /\ r.kicked = FALSE
  /\ r.st \in {"listed", "gone"} => r.rd # "none" /\ r.wr # "none"
  /\ r.refs = DuHolds(r.rd) + DuHolds(r.wr)
  /\ r.closed = TRUE <=> r.rd = "over" /\ r.wr = "over"
  /\ r.st = "gone" => r.closed = TRUE
  /\ r.rd \in {"unref", "over"} \/ r.wr \in {"unref", "over"} => r.kicked = TRUE

\* A step of the transport t that neither closes it nor lets a thread leave
\* while another thread is inside usb_ffs_kick keeps the invariant.
LEMMA DuOneKeeps ==
  ASSUME DuInductive, NEW t \in DuTs, NEW r \in DuTransport,
         duT' = [duT EXCEPT ![t] = r],
         duEp' \in [DuEps -> {"none", "open", "null", "stale"}],
         UNCHANGED <<duCable, duWanted, duOpener, duControl, duOther, duKicks>>,
         duT[t].st # "none", r.st # "none", r.closed = duT[t].closed, DuLifeOf(r),
         duOther.pc # "idle" /\ duOther.t = t =>
           r.st = "listed" /\ r.rd \notin {"unref", "over"} /\ r.wr \notin {"unref", "over"}
  PROVE  DuInductive'
<1> USE DaemonUsbAssumption
<1>1. duT'[t] = r /\ \A u \in DuTs \ {t} : duT'[u] = duT[u]
  BY DEF DuInductive, DaemonUsbTypeOK
<1>2. DaemonUsbTypeOK'
  BY DEF DuInductive, DaemonUsbTypeOK
<1>3. DuOpened' = DuOpened
  BY <1>1, OpenedStays
<1>4. DuInOrder'
  BY <1>1, <1>3 DEF DuInductive, DuInOrder
<1>5. DuAlone'
  BY <1>1, <1>3 DEF DuInductive, DuAlone, DuInOrder, DuTs
<1>6. DuLife'
  BY <1>1 DEF DuInductive, DuLife, DuLifeOf
<1>7. DuInside'
  BY <1>1 DEF DuInductive, DuInside
<1>8. DuOneAtATime'
  BY <1>1 DEF DuInductive, DuOneAtATime
<1> QED BY <1>2, <1>4, <1>5, <1>6, <1>7, <1>8 DEF DuInductive

\* The steps of a transport's threads before kick_transport.
LEMMA DuRuns ==
  ASSUME DuInductive, NEW t \in DuTs,
         DuStart(t) \/ DuRead(t) \/ DuArrive(t) \/ DuReadError(t) \/ DuWriterEnds(t) \/ DuRemove(t)
  PROVE  DuInductive'
<1> USE DaemonUsbAssumption
<1>0. /\ duT[t] \in DuTransport /\ DuLifeOf(duT[t])
      /\ duEp \in [DuEps -> {"none", "open", "null", "stale"}]
      /\ duOther.pc # "idle" /\ duOther.t = t =>
           /\ duT[t].st = "listed"
           /\ duT[t].rd \notin {"unref", "over"} /\ duT[t].wr \notin {"unref", "over"}
  BY DEF DuInductive, DaemonUsbTypeOK, DuLife, DuLifeOf, DuInside
<1>1. CASE DuStart(t)
  <2> DEFINE r == [duT[t] EXCEPT !.st = "listed", !.rd = "read", !.wr = "write", !.refs = 2]
  <2>0. 2 \in 0..2
    OBVIOUS
  <2>6. r \in DuTransport
    BY <1>0, <2>0, Zenon DEF DuTransport
  <2>1. /\ r.closed = duT[t].closed /\ r.refs = 2
        /\ r.st = "listed" /\ r.rd = "read" /\ r.wr = "write" /\ r.kicked = duT[t].kicked
    BY <1>0 DEF DuTransport
  <2>2. duT' = [duT EXCEPT ![t] = r]
    BY <1>1 DEF DuStart, DuInductive, DaemonUsbTypeOK, DuTransport
  <2> HIDE DEF r
  <2>3. duT[t].st = "pending"
    BY <1>1 DEF DuStart
  <2>4. duT[t].closed = FALSE
    BY <1>0, <2>3 DEF DuLifeOf, DuTransport
  <2>5. DuLifeOf(r)
    BY <1>0, <2>1, <2>3, <2>4 DEF DuLifeOf, DuHolds
  <2> QED BY <1>0, <1>1, <2>1, <2>6, <2>5, <2>2, <2>3, DuOneKeeps DEF DuStart
<1>2. ASSUME NEW pc \in {"read", "blocked", "kick"}, duT[t].rd \in {"read", "blocked"},
             duT' = [duT EXCEPT ![t].rd = pc],
             UNCHANGED <<duCable, duWanted, duOpener, duControl, duEp, duOther, duKicks>>
      PROVE  DuInductive'
  <2> DEFINE r == [duT[t] EXCEPT !.rd = pc]
  <2>1. /\ r \in DuTransport /\ DuLifeOf(r) /\ r.closed = duT[t].closed
        /\ r.st = duT[t].st /\ r.rd = pc /\ r.wr = duT[t].wr
    BY <1>0, <1>2 DEF DuTransport, DuLifeOf, DuHolds
  <2>2. duT' = [duT EXCEPT ![t] = r]
    BY <1>2 DEF DuInductive, DaemonUsbTypeOK, DuTransport
  <2>3. duT[t].st # "none"
    BY <1>0, <1>2 DEF DuLifeOf
  <2> HIDE DEF r
  <2> QED BY <1>0, <1>2, <2>1, <2>2, <2>3, DuOneKeeps
<1>3. CASE DuRead(t) \/ DuArrive(t) \/ DuReadError(t)
  BY <1>2, <1>3 DEF DuRead, DuArrive, DuReadError
<1>4. CASE DuWriterEnds(t)
  <2> DEFINE r == [duT[t] EXCEPT !.wr = "kick"]
  <2>1. /\ r \in DuTransport /\ DuLifeOf(r) /\ r.closed = duT[t].closed
        /\ r.st = duT[t].st /\ r.wr = "kick" /\ r.rd = duT[t].rd
    BY <1>0, <1>4 DEF DuWriterEnds, DuTransport, DuLifeOf, DuHolds
  <2>2. duT' = [duT EXCEPT ![t] = r]
    BY <1>4 DEF DuWriterEnds, DuInductive, DaemonUsbTypeOK, DuTransport
  <2>3. duT[t].st # "none"
    BY <1>0, <1>4 DEF DuLifeOf, DuWriterEnds
  <2> HIDE DEF r
  <2> QED BY <1>0, <1>4, <2>1, <2>2, <2>3, DuOneKeeps DEF DuWriterEnds
<1>5. CASE DuRemove(t)
  <2> DEFINE r == [duT[t] EXCEPT !.st = "gone"]
  <2>1. /\ r \in DuTransport /\ r.closed = duT[t].closed /\ r.st = "gone"
        /\ r.rd = duT[t].rd /\ r.wr = duT[t].wr /\ r.refs = duT[t].refs
        /\ r.kicked = duT[t].kicked /\ duT[t].st = "listed" /\ duT[t].closed = TRUE
    BY <1>0, <1>5 DEF DuRemove, DuTransport
  <2>2. duT' = [duT EXCEPT ![t] = r]
    BY <1>5 DEF DuRemove, DuInductive, DaemonUsbTypeOK
  <2> HIDE DEF r
  <2>3. DuLifeOf(r)
    BY <1>0, <2>1 DEF DuLifeOf
  <2> QED BY <1>0, <1>5, <2>1, <2>2, <2>3, DuOneKeeps DEF DuRemove
<1> QED BY <1>1, <1>3, <1>4, <1>5

\* kick_transport at the end of a thread: it waits for transport_lock, so
\* no other thread is inside usb_ffs_kick.
LEMMA DuKickKeeps ==
  ASSUME DuInductive, NEW t \in DuTs, NEW who \in {"rd", "wr"}, DuThreadKick(t, who)
  PROVE  DuInductive'
<1> USE DaemonUsbAssumption
<1>0. /\ duT[t] \in DuTransport /\ DuLifeOf(duT[t]) /\ duOther.pc = "idle"
      /\ duEp \in [DuEps -> {"none", "open", "null", "stale"}]
  BY DEF DuInductive, DaemonUsbTypeOK, DuLife, DuLifeOf, DuThreadKick
<1>1. duEp' \in [DuEps -> {"none", "open", "null", "stale"}]
  BY <1>0 DEF DuThreadKick, DuNull
<1>2. duT[t].st # "none" /\ (duT[t].st = "listed" \/ duT[t].kicked = TRUE)
  <2>1. duT[t].rd = "kick" \/ duT[t].wr = "kick"
    BY DEF DuThreadKick
  <2> QED BY <1>0, <2>1 DEF DuLifeOf, DuTransport
<1> DEFINE r == [duT[t] EXCEPT ![who] = "unref", !.kicked = duT[t].kicked \/ DuKicks(t)]
<1>3. duT' = [duT EXCEPT ![t] = r]
  BY DEF DuThreadKick, DuInductive, DaemonUsbTypeOK
<1>4. /\ r \in DuTransport /\ r.closed = duT[t].closed /\ r.st = duT[t].st
      /\ r.refs = duT[t].refs /\ r.kicked = TRUE
  BY <1>0, <1>2 DEF DuKicks, DuTransport
<1>5. \/ r.rd = "unref" /\ r.wr = duT[t].wr /\ duT[t].rd = "kick"
      \/ r.wr = "unref" /\ r.rd = duT[t].rd /\ duT[t].wr = "kick"
  BY <1>0 DEF DuThreadKick, DuTransport
<1> HIDE DEF r
<1>6. DuLifeOf(r)
  BY <1>0, <1>4, <1>5 DEF DuLifeOf, DuHolds
<1> QED BY <1>0, <1>1, <1>2, <1>3, <1>4, <1>6, DuOneKeeps DEF DuThreadKick

\* transport_unref: the last thread closes the handle and asks for the next
\* connection, when every other transport is closed already.
LEMMA DuUnrefKeeps ==
  ASSUME DuInductive, NEW t \in DuTs, NEW who \in {"rd", "wr"}, DuUnref(t, who)
  PROVE  DuInductive'
<1> USE DaemonUsbAssumption
<1>0. /\ duT[t] \in DuTransport /\ DuLifeOf(duT[t])
      /\ duEp \in [DuEps -> {"none", "open", "null", "stale"}]
  BY DEF DuInductive, DaemonUsbTypeOK, DuLife, DuLifeOf
<1> DEFINE r == [duT[t] EXCEPT ![who] = "over", !.refs = duT[t].refs - 1, !.closed = (duT[t].refs = 1)]
<1>1. duT' = [duT EXCEPT ![t] = r]
  BY DEF DuUnref, DuInductive, DaemonUsbTypeOK
<1>2. duT[t].rd = "unref" \/ duT[t].wr = "unref"
  BY DEF DuUnref
<1>3. duT[t].refs \in {1, 2} /\ duT[t].closed = FALSE /\ duT[t].st = "listed"
      /\ duT[t].kicked = TRUE
  BY <1>0, <1>2 DEF DuLifeOf, DuHolds, DuTransport
<1>10. r \in DuTransport
  <2>1. duT[t].refs - 1 \in 0..2 /\ (duT[t].refs = 1) \in BOOLEAN
    BY <1>3
  <2> QED BY <1>0, <2>1, Zenon DEF DuTransport
<1>4. /\ r.st = "listed" /\ r.refs = duT[t].refs - 1 /\ r.kicked = TRUE
      /\ duT[t].refs = 1 => r.closed = TRUE
      /\ duT[t].refs = 2 => r.closed = FALSE
  BY <1>0, <1>3 DEF DuTransport
<1>5. \/ r.rd = "over" /\ r.wr = duT[t].wr /\ duT[t].rd = "unref"
      \/ r.wr = "over" /\ r.rd = duT[t].rd /\ duT[t].wr = "unref"
  BY <1>0 DEF DuUnref, DuTransport
<1> HIDE DEF r
<1>6. DuLifeOf(r)
  BY <1>0, <1>3, <1>4, <1>5 DEF DuLifeOf, DuHolds
<1>7. ~(duOther.pc # "idle" /\ duOther.t = t)
  BY <1>2 DEF DuInductive, DuInside
<1>8. CASE duT[t].refs = 2
  <2>1. r.closed = duT[t].closed
    BY <1>3, <1>4, <1>8
  <2>2. duEp' = duEp /\ duWanted' = duWanted
    <3>1. ~(duT[t].refs = 1)
      BY <1>8
    <3>2. duWanted' = (duWanted \/ duT[t].refs = 1) /\ duWanted \in BOOLEAN
      BY DEF DuUnref, DuAsks, DuInductive, DaemonUsbTypeOK
    <3>3. duWanted' = duWanted
      BY <3>1, <3>2, Zenon
    <3> QED BY <3>1, <3>3 DEF DuUnref
  <2> QED BY <1>0, <1>1, <1>3, <1>10, <1>4, <1>6, <1>7, <2>1, <2>2, DuOneKeeps DEF DuUnref
<1>9. CASE duT[t].refs = 1
  <2>1. duT'[t] = r /\ r.closed = TRUE /\ \A u \in DuTs \ {t} : duT'[u] = duT[u]
    BY <1>1, <1>4, <1>9 DEF DuInductive, DaemonUsbTypeOK
  <2>2. DuOpened' = DuOpened
    BY <1>3, <1>4, <2>1, OpenedStays
  <2>3. \A u \in 1..DuOpened : duT'[u].closed = TRUE
    <3>1. \A u \in 1..DuOpened : u \in DuTs /\ duT[u].st # "none"
      BY DEF DuInductive, DuInOrder, DuTs
    <3>2. \A u \in 1..DuOpened : u # t => duT[u].closed = TRUE
      BY <1>3, <3>1 DEF DuInductive, DuOneAtATime, DuTs
    <3> QED BY <2>1, <3>1, <3>2
  <2>4. duOpener = "wait"
    BY <1>3 DEF DuInductive, DuAlone, DuInOrder, DuTs
  <2>5. DaemonUsbTypeOK'
    BY <1>0, <1>1, <1>10, <1>4, <1>9, ZenonT(40) DEF DuUnref, DuAsks, DuInductive, DaemonUsbTypeOK
  <2>6. DuInOrder'
    BY <1>3, <1>4, <2>1, <2>2 DEF DuInductive, DuInOrder
  <2>7. DuAlone'
    BY <2>2, <2>3, <2>4 DEF DuAlone, DuUnref
  <2>8. DuLife'
    BY <1>6, <2>1 DEF DuInductive, DuLife, DuLifeOf
  <2>9. DuInside'
    BY <1>7, <2>1 DEF DuInductive, DuInside, DuUnref
  <2>10. DuOneAtATime'
    BY <1>3, <2>1 DEF DuInductive, DuOneAtATime
  <2> QED BY <2>5, <2>6, <2>7, <2>8, <2>9, <2>10 DEF DuInductive
<1> QED BY <1>3, <1>8, <1>9

\* Another thread starts to kick a transport that is listed and not kicked,
\* whose own threads are therefore still before kick_transport.
LEMMA DuOtherKickKeeps ==
  ASSUME DuInductive, NEW t \in DuTs, DuOtherKick(t)
  PROVE  DuInductive'
<1> USE DaemonUsbAssumption
<1>0. /\ duT[t] \in DuTransport /\ DuLifeOf(duT[t])
      /\ duT[t].st = "listed" /\ duT[t].kicked = FALSE
  BY DEF DuInductive, DaemonUsbTypeOK, DuLife, DuLifeOf, DuOtherKick, DuKicks, DuTransport
<1> DEFINE r == [duT[t] EXCEPT !.kicked = TRUE]
<1>1. duT' = [duT EXCEPT ![t] = r]
  BY DEF DuOtherKick, DuInductive, DaemonUsbTypeOK
<1>2. /\ r \in DuTransport /\ r.st = "listed" /\ r.kicked = TRUE /\ r.closed = duT[t].closed
      /\ r.rd = duT[t].rd /\ r.wr = duT[t].wr /\ r.refs = duT[t].refs
  BY <1>0 DEF DuTransport
<1> HIDE DEF r
<1>3. DuLifeOf(r) /\ r.rd \notin {"unref", "over"} /\ r.wr \notin {"unref", "over"}
  BY <1>0, <1>2 DEF DuLifeOf
<1>4. duT'[t] = r /\ \A u \in DuTs \ {t} : duT'[u] = duT[u]
  BY <1>1 DEF DuInductive, DaemonUsbTypeOK
<1>5. DuOpened' = DuOpened
  BY <1>0, <1>2, <1>4, OpenedStays
<1>6. DaemonUsbTypeOK'
  <2>1. duOther' \in [pc : {"idle", "out", "in"}, t : 0..DuMaxT]
    BY DEF DuOtherKick, DuTs
  <2>2. duKicks' \in 0..DuMaxKicks
    BY DEF DuOtherKick, DuInductive, DaemonUsbTypeOK
  <2>3. duT' \in [DuTs -> DuTransport]
    BY <1>1, <1>2 DEF DuInductive, DaemonUsbTypeOK
  <2> QED BY <2>1, <2>2, <2>3 DEF DuOtherKick, DuInductive, DaemonUsbTypeOK
<1>7. DuInOrder' /\ DuAlone'
  BY <1>0, <1>2, <1>4, <1>5 DEF DuOtherKick, DuInductive, DuInOrder, DuAlone, DuTs
<1>8. DuLife' /\ DuInside' /\ DuOneAtATime'
  BY <1>0, <1>2, <1>3, <1>4
     DEF DuOtherKick, DuInductive, DuLife, DuLifeOf, DuInside, DuOneAtATime
<1> QED BY <1>6, <1>7, <1>8 DEF DuInductive

\* Every step of the device's side keeps the invariant.
LEMMA DuNextKeeps == DuInductive /\ [DaemonUsbNext]_duVars => DuInductive'
<1> SUFFICES ASSUME DuInductive, [DaemonUsbNext]_duVars PROVE DuInductive'
  OBVIOUS
<1> USE DaemonUsbAssumption
<1>1. ASSUME duT' = duT, duOpener' = duOpener, duWanted' = duWanted, DaemonUsbTypeOK',
             duOther'.pc # "idle" => duOther'.t = duOther.t /\ duOther.pc # "idle"
      PROVE  DuInductive'
  <2>1. DuOpened' = DuOpened
    BY <1>1 DEF DuOpened
  <2> QED BY <1>1, <2>1 DEF DuInductive, DuInOrder, DuAlone, DuLife, DuInside, DuOneAtATime
<1>2. CASE UNCHANGED duVars
  BY <1>1, <1>2 DEF duVars, DuInductive, DaemonUsbTypeOK
<1>3. CASE DuOtherDup
  <2>1. duEp' \in [DuEps -> {"none", "open", "null", "stale"}]
    BY <1>3 DEF DuOtherDup, DuNull, DuInductive, DaemonUsbTypeOK
  <2>2. /\ duOther' \in [pc : {"idle", "out", "in"}, t : 0..DuMaxT]
        /\ duOther'.pc # "idle" => duOther'.t = duOther.t
    BY <1>3 DEF DuOtherDup, DuInductive, DaemonUsbTypeOK
  <2>3. DaemonUsbTypeOK'
    BY <1>3, <2>1, <2>2 DEF DuOtherDup, DuInductive, DaemonUsbTypeOK
  <2> QED BY <1>1, <1>3, <2>2, <2>3 DEF DuOtherDup
<1>4. CASE DuPlug
  <2>1. DaemonUsbTypeOK'
    BY <1>4 DEF DuPlug, DuInductive, DaemonUsbTypeOK
  <2> QED BY <1>1, <1>4, <2>1 DEF DuPlug
<1>5. CASE DuOpenerStep
  BY <1>5, DuOpenerKeeps
<1>6. CASE DuThreads
  BY <1>6, DuRuns, DuKickKeeps, DuUnrefKeeps DEF DuThreads
<1>7. CASE \E t \in DuTs : DuArrive(t) \/ DuOtherKick(t)
  BY <1>7, DuRuns, DuOtherKickKeeps
<1> QED BY <1>2, <1>3, <1>4, <1>5, <1>6, <1>7 DEF DaemonUsbNext

\* The invariant holds for ever.
LEMMA DuAlways == DaemonUsbSpec => []DuInductive
BY DuInitially, DuNextKeeps, PTL DEF DaemonUsbSpec

\* The state of adbd's USB handle and of the transports over it keeps its
\* type; in particular ref_count stays between 0 and 2.
THEOREM DaemonUsbTypeCorrect == DaemonUsbSpec => []DaemonUsbTypeOK
<1>1. DuInductive => DaemonUsbTypeOK
  BY DEF DuInductive
<1> QED BY <1>1, DuAlways, PTL

\* usb_ffs_kick works on the endpoints of its own transport, for any number
\* of connections one after another and of kicks by other threads, and the
\* threads of two transports never use the handle at the same time
\* (daemon/usb.cpp).
THEOREM KicksHitOwnEndpoints == DaemonUsbSpec => []KickHitsOwnEndpoints
BY DuAlways, DuInductiveIsEnough, PTL

-----------------------------------------------------------------------------
(* UsbLinux: the inductive invariant *)

\* A reference for each thread that has not ended.
UbHolds(pc) == IF pc \in {"none", "over"} THEN 0 ELSE 1

\* One of the transport's threads runs.
UbAlive(h) == UbHolds(ubRd[h]) + UbHolds(ubWr[h]) > 0

\* A thread past kick_transport, or inside it.
UbEnding == {"kicking", "unref", "over"}

\* What the state of a handle and of its transport say of its threads.
UbLifeOf(h) ==
  /\ UbAlive(h) =>
       ubH[h].place = "listed" /\ ubH[h].tr = "listed" /\ ubH[h].writeable = TRUE
  /\ ubH[h].refs = UbHolds(ubRd[h]) + UbHolds(ubWr[h])
  /\ ubH[h].place = "none" => ubH[h].tr = "none"
  /\ ubH[h].place = "deleted" => ubH[h].kicked = TRUE
  /\ ubH[h].tr \in {"none", "pending"} => ubRd[h] = "none" /\ ubWr[h] = "none"
  /\ ubH[h].tr = "pending" => ubH[h].place = "listed"
  /\ ubH[h].tr = "listed" /\ ubH[h].writeable = TRUE =>
       ubRd[h] # "none" /\ ubWr[h] # "none"
  /\ ubRd[h] \in UbEnding \/ ubWr[h] \in UbEnding => ubH[h].kicked = TRUE

UbLife == \A h \in UbHandles : UbLifeOf(h)

\* The poll thread holds g_usb_handles_mutex while it has handles to look
\* at; the one it unregisters has no threads.
UbPollInv ==
  /\ IF ubPoll.pc \in {"each", "unregister"} THEN ubG = TRUE ELSE ubPoll.todo = {}
  /\ \A h \in ubPoll.todo : ubH[h].place = "listed"
  /\ ubPoll.pc = "pending" =>
       ubPoll.h \in UbHandles /\ ubH[ubPoll.h].place = "listed" /\ ubH[ubPoll.h].tr = "none"
  /\ ubPoll.pc = "unregister" => ubPoll.h \in UbHandles /\ ubH[ubPoll.h].writeable = FALSE

\* While the main thread kicks for adb reconnect, the transport's threads
\* run and are not past kick_transport.
UbMainInv ==
  /\ ubMain.pc = "kicking" =>
       /\ ubMain.h \in UbHandles
       /\ ubRd[ubMain.h] \notin UbEnding \cup {"none"}
       /\ ubWr[ubMain.h] \notin UbEnding \cup {"none"}
  /\ \A h \in ubMain.todo : ubH[h].place # "none"

\* transport_lock has one holder.
UbLockInv ==
  /\ ubMain.pc \in {"kicking", "each", "unregister"} =>
       ubTL = TRUE /\ \A h \in UbHandles : ubRd[h] # "kicking" /\ ubWr[h] # "kicking"
  /\ \A h \in UbHandles : ubRd[h] = "kicking" \/ ubWr[h] = "kicking" => ubTL = TRUE
  /\ \A g, h \in UbHandles :
       /\ ubRd[g] = "kicking" => ubWr[h] # "kicking"
       /\ g # h => ~(ubRd[g] = "kicking" /\ ubRd[h] = "kicking")
       /\ g # h => ~(ubWr[g] = "kicking" /\ ubWr[h] = "kicking")

UbInductive == UsbLinuxTypeOK /\ UbLife /\ UbPollInv /\ UbMainInv /\ UbLockInv

LEMMA UbNewOK == UbNew \in UbHandle
BY UsbLinuxAssumption DEF UbNew, UbHandle

LEMMA UbInitOK == UsbLinuxInit => UbInductive
<1> SUFFICES ASSUME UsbLinuxInit PROVE UbInductive
  OBVIOUS
<1>1. UsbLinuxTypeOK
  <2>1. 0 \in 0..UbMaxPlugs /\ 0 \in 0..UbMaxKicks
    BY UsbLinuxAssumption
  <2>2. /\ ubPort \in [dev : 0..UbMaxPlugs, access : {"none", "rw", "ro"}]
        /\ ubPoll \in UbJob({"scan", "pending", "gc", "each", "unregister"})
        /\ ubMain \in UbJob({"loop", "kicking", "each", "unregister", "exited"})
    BY <2>1 DEF UsbLinuxInit, UbJob
  <2>3. /\ ubH \in [UbHandles -> UbHandle]
        /\ ubRd \in [UbHandles -> UbReaderPc] /\ ubWr \in [UbHandles -> UbWriterPc]
    BY UbNewOK DEF UsbLinuxInit, UbReaderPc, UbWriterPc
  <2> QED
    BY <2>1, <2>2, <2>3 DEF UsbLinuxInit, UsbLinuxTypeOK
<1>2. \A h \in UbHandles : ubH[h] = UbNew /\ ubRd[h] = "none" /\ ubWr[h] = "none"
  BY DEF UsbLinuxInit
<1>3. /\ UbNew.place = "none" /\ UbNew.tr = "none" /\ UbNew.refs = 0
  BY DEF UbNew
<1>4. UbLife
  BY <1>2, <1>3 DEF UbLife, UbLifeOf, UbAlive, UbHolds, UbEnding
<1>5. UbPollInv /\ UbMainInv /\ UbLockInv
  BY <1>2 DEF UsbLinuxInit, UbPollInv, UbMainInv, UbLockInv
<1> QED
  BY <1>1, <1>4, <1>5 DEF UbInductive

\* A handle keeps its place, its transport's list, its threads' references
\* and its mode; it may be kicked.
UbKeeps(h) ==
  /\ ubH'[h].place = ubH[h].place /\ ubH'[h].tr = ubH[h].tr
  /\ ubH'[h].refs = ubH[h].refs /\ ubH'[h].writeable = ubH[h].writeable
  /\ ubH[h].kicked = TRUE => ubH'[h].kicked = TRUE

\* A thread that moves stays inside its loop.
UbStays(old, new) == old = new \/ {old, new} \cap (UbEnding \cup {"none"}) = {}

\* A step that leaves the life of all handles alone and no thread ends.
LEMMA UbCalmLife ==
  ASSUME UbInductive, NEW h \in UbHandles, UbKeeps(h),
         UbStays(ubRd[h], ubRd'[h]), UbStays(ubWr[h], ubWr'[h])
  PROVE  UbLifeOf(h)'
<1>1. UbLifeOf(h)
  BY DEF UbInductive, UbLife
<1>2. UbHolds(ubRd'[h]) = UbHolds(ubRd[h]) /\ UbHolds(ubWr'[h]) = UbHolds(ubWr[h])
  BY DEF UbStays, UbHolds, UbEnding
<1>3. UbAlive(h)' <=> UbAlive(h)
  BY <1>2 DEF UbAlive
<1> QED
  BY <1>1, <1>2, <1>3 DEF UbLifeOf, UbKeeps, UbStays, UbEnding

LEMMA UbCalmOK ==
  ASSUME UbInductive, UsbLinuxTypeOK',
         \A h \in UbHandles :
           UbKeeps(h) /\ UbStays(ubRd[h], ubRd'[h]) /\ UbStays(ubWr[h], ubWr'[h]),
         UNCHANGED <<ubPoll, ubMain, ubG, ubTL>>
  PROVE  UbInductive'
<1>1. UbLife'
  BY UbCalmLife DEF UbLife
<1>2. UbPollInv'
  BY DEF UbInductive, UsbLinuxTypeOK, UbJob, UbPollInv, UbKeeps
<1>3. UbMainInv'
  BY ZenonT(40) DEF UbInductive, UsbLinuxTypeOK, UbJob, UbMainInv, UbKeeps, UbStays, UbEnding
<1>4. UbLockInv'
  BY DEF UbInductive, UbLockInv, UbStays, UbEnding
<1> QED
  BY <1>1, <1>2, <1>3, <1>4 DEF UbInductive

\* A handle whose flags and transfers change, and its threads in their loops.
LEMMA UbStepOK ==
  ASSUME UbInductive, NEW h \in UbHandles, NEW r \in UbHandle,
         r.place = ubH[h].place, r.tr = ubH[h].tr, r.refs = ubH[h].refs,
         r.writeable = ubH[h].writeable, r.kicked = ubH[h].kicked,
         NEW p \in UbReaderPc, UbStays(ubRd[h], p),
         NEW q \in UbWriterPc, UbStays(ubWr[h], q),
         ubH' = [ubH EXCEPT ![h] = r],
         ubRd' = [ubRd EXCEPT ![h] = p], ubWr' = [ubWr EXCEPT ![h] = q],
         UNCHANGED <<ubPort, ubPoll, ubMain, ubG, ubTL, ubKicks>>
  PROVE  UbInductive'
<1>1. /\ ubH \in [UbHandles -> UbHandle]
      /\ ubRd \in [UbHandles -> UbReaderPc] /\ ubWr \in [UbHandles -> UbWriterPc]
  BY DEF UbInductive, UsbLinuxTypeOK
<1>2. /\ ubH' \in [UbHandles -> UbHandle]
      /\ ubRd' \in [UbHandles -> UbReaderPc] /\ ubWr' \in [UbHandles -> UbWriterPc]
  BY <1>1
<1>3. UsbLinuxTypeOK'
  BY <1>2 DEF UbInductive, UsbLinuxTypeOK
<1>4. ASSUME NEW g \in UbHandles
      PROVE  UbKeeps(g) /\ UbStays(ubRd[g], ubRd'[g]) /\ UbStays(ubWr[g], ubWr'[g])
  <2>1. CASE g = h
    BY <1>1, <2>1 DEF UbKeeps
  <2>2. CASE g # h
    BY <1>1, <2>2 DEF UbKeeps, UbStays
  <2> QED
    BY <2>1, <2>2
<1> QED
  BY <1>3, <1>4, UbCalmOK

LEMMA UbReaderOK ==
  ASSUME UbInductive, NEW h \in UbHandles, UbRead(h) \/ UbReap(h) \/ UbReaped(h)
  PROVE  UbInductive'
<1> DEFINE H == ubH[h]
<1>1. /\ H \in UbHandle /\ ubH \in [UbHandles -> UbHandle]
      /\ ubRd[h] \in UbReaderPc /\ ubWr[h] \in UbWriterPc
      /\ ubWr \in [UbHandles -> UbWriterPc]
  BY DEF UbInductive, UsbLinuxTypeOK
<1>2. /\ ubWr' = [ubWr EXCEPT ![h] = ubWr[h]] /\ UbStays(ubWr[h], ubWr[h])
      /\ UNCHANGED <<ubPort, ubPoll, ubMain, ubG, ubTL, ubKicks>>
  BY <1>1 DEF UbRead, UbReap, UbReaped, UbStays
<1>3. \E r \in UbHandle, p \in UbReaderPc :
        /\ r.place = H.place /\ r.tr = H.tr /\ r.refs = H.refs
        /\ r.writeable = H.writeable /\ r.kicked = H.kicked
        /\ UbStays(ubRd[h], p)
        /\ ubH' = [ubH EXCEPT ![h] = r] /\ ubRd' = [ubRd EXCEPT ![h] = p]
  <2>1. CASE UbRead(h)
    <3>1. CASE ubRd' = [ubRd EXCEPT ![h] = "kick"] /\ ubH' = ubH
      BY <1>1, <2>1, <3>1 DEF UbRead, UbReaderPc, UbStays, UbEnding
    <3>2. CASE ~(ubRd' = [ubRd EXCEPT ![h] = "kick"] /\ ubH' = ubH)
      <4> DEFINE r == [H EXCEPT !.in = "submitted", !.inOk = FALSE, !.reaper = TRUE]
      <4>1. ubH' = [ubH EXCEPT ![h] = r] /\ ubRd' = [ubRd EXCEPT ![h] = "reap"]
        BY <2>1, <3>2 DEF UbRead
      <4>2. /\ r \in UbHandle
            /\ r.place = H.place /\ r.tr = H.tr /\ r.refs = H.refs
            /\ r.writeable = H.writeable /\ r.kicked = H.kicked
        BY <1>1 DEF UbHandle
      <4>3. "reap" \in UbReaderPc /\ UbStays(ubRd[h], "reap")
        BY <2>1 DEF UbRead, UbReaderPc, UbStays, UbEnding
      <4> HIDE DEF r, H
      <4> QED
        BY <4>1, <4>2, <4>3
    <3> QED
      BY <3>1, <3>2
  <2>2. CASE UbReap(h)
    <3>1. PICK p \in {"in", "out", "intr", "error"} : ubRd' = [ubRd EXCEPT ![h] = p]
      BY <2>2 DEF UbReap
    <3>2. p \in UbReaderPc /\ UbStays(ubRd[h], p)
      BY <2>2, <3>1 DEF UbReap, UbReaderPc, UbStays, UbEnding
    <3>3. PICK r \in {H, [H EXCEPT !.in = "idle"], [H EXCEPT !.out = "idle"],
                      [H EXCEPT !.signal = FALSE]} : ubH' = [ubH EXCEPT ![h] = r]
      BY <1>1, <2>2 DEF UbReap
    <3>4. /\ r \in UbHandle
          /\ r.place = H.place /\ r.tr = H.tr /\ r.refs = H.refs
          /\ r.writeable = H.writeable /\ r.kicked = H.kicked
      BY <1>1, <3>3, ZenonT(40) DEF UbHandle
    <3> HIDE DEF H
    <3> QED
      BY <3>1, <3>2, <3>3, <3>4
  <2>3. CASE UbReaped(h)
    <3> DEFINE next == IF H.dead \/ ubRd[h] = "error" THEN "kick"
                       ELSE IF ubRd[h] = "in" THEN IF H.inOk THEN "read" ELSE "kick"
                       ELSE "reap"
               reaper == next = "reap"
               busy == H.outBusy /\ ~(ubRd[h] = "out" /\ next = "reap")
               r == [H EXCEPT !.reaper = reaper, !.signal = FALSE, !.inOk = FALSE,
                              !.outBusy = busy]
    <3>1. ubRd' = [ubRd EXCEPT ![h] = next] /\ ubH' = [ubH EXCEPT ![h] = r]
      BY <2>3 DEF UbReaped
    <3>2. next \in UbReaderPc /\ UbStays(ubRd[h], next)
      BY <2>3 DEF UbReaped, UbReaderPc, UbStays, UbEnding
    <3>3. reaper \in BOOLEAN /\ busy \in BOOLEAN
      OBVIOUS
    <3> HIDE DEF next, reaper, busy
    <3>4. /\ r \in UbHandle
          /\ r.place = H.place /\ r.tr = H.tr /\ r.refs = H.refs
          /\ r.writeable = H.writeable /\ r.kicked = H.kicked
      BY <1>1, <3>3, ZenonT(40) DEF UbHandle
    <3> HIDE DEF r, H
    <3> QED
      BY <3>1, <3>2, <3>4
  <2> QED
    BY <2>1, <2>2, <2>3
<1> QED
  BY <1>1, <1>2, <1>3, UbStepOK

LEMMA UbWriterOK ==
  ASSUME UbInductive, NEW h \in UbHandles,
         UbWrite(h) \/ UbWoken(h) \/ UbTimeout(h) \/ UbWriterEof(h)
  PROVE  UbInductive'
<1> DEFINE H == ubH[h]
<1>1. /\ H \in UbHandle /\ ubH \in [UbHandles -> UbHandle]
      /\ ubRd[h] \in UbReaderPc /\ ubWr[h] \in UbWriterPc
      /\ ubRd \in [UbHandles -> UbReaderPc]
  BY DEF UbInductive, UsbLinuxTypeOK
<1>2. /\ ubRd' = [ubRd EXCEPT ![h] = ubRd[h]] /\ UbStays(ubRd[h], ubRd[h])
      /\ UNCHANGED <<ubPort, ubPoll, ubMain, ubG, ubTL, ubKicks>>
  BY <1>1 DEF UbWrite, UbWoken, UbTimeout, UbWriterEof, UbStays
<1>3. PICK q \in {"idle", "wait", "kick"} : ubWr' = [ubWr EXCEPT ![h] = q]
  BY DEF UbWrite, UbWoken, UbTimeout, UbWriterEof
<1>4. q \in UbWriterPc /\ UbStays(ubWr[h], q)
  BY <1>3 DEF UbWrite, UbWoken, UbTimeout, UbWriterEof, UbWriterPc, UbStays, UbEnding
<1>5. PICK r \in {H, [H EXCEPT !.out = "submitted", !.outOk = FALSE, !.outBusy = TRUE],
                  [H EXCEPT !.outOk = FALSE]} : ubH' = [ubH EXCEPT ![h] = r]
  BY <1>1 DEF UbWrite, UbWoken, UbTimeout, UbWriterEof
<1>6. /\ r \in UbHandle
      /\ r.place = H.place /\ r.tr = H.tr /\ r.refs = H.refs
      /\ r.writeable = H.writeable /\ r.kicked = H.kicked
  BY <1>1, <1>5, ZenonT(40) DEF UbHandle
<1> HIDE DEF H
<1> QED
  BY <1>1, <1>2, <1>3, <1>4, <1>5, <1>6, UbStepOK DEF H

\* The bus and the kernel.
LEMMA UbKernelOK ==
  ASSUME UbInductive,
         (\E a \in {"rw", "ro"} : UbPlug(a)) \/ UbUnplug \/ (\E h \in UbHandles : UbTransfer(h))
  PROVE  UbInductive'
<1>1. ubH \in [UbHandles -> UbHandle]
  BY DEF UbInductive, UsbLinuxTypeOK
<1>2. UNCHANGED <<ubRd, ubWr, ubPoll, ubMain, ubG, ubTL, ubKicks>>
  BY DEF UbPlug, UbUnplug, UbTransfer
<1>3. ubPort' \in [dev : 0..UbMaxPlugs, access : {"none", "rw", "ro"}]
  <2>1. ubPort \in [dev : 0..UbMaxPlugs, access : {"none", "rw", "ro"}]
    BY DEF UbInductive, UsbLinuxTypeOK
  <2>2. CASE \E a \in {"rw", "ro"} : UbPlug(a)
    <3>1. ubPort.dev + 1 \in 0..UbMaxPlugs
      BY <2>1, <2>2, UsbLinuxAssumption DEF UbPlug
    <3> QED
      BY <2>2, <3>1 DEF UbPlug
  <2>3. CASE ~\E a \in {"rw", "ro"} : UbPlug(a)
    BY <2>1, <2>3 DEF UbUnplug, UbTransfer
  <2> QED
    BY <2>2, <2>3
<1>4. ubH' \in [UbHandles -> UbHandle] /\ \A h \in UbHandles : UbKeeps(h)
  <2>1. CASE \E a \in {"rw", "ro"} : UbPlug(a)
    BY <1>1, <2>1 DEF UbPlug, UbKeeps
  <2>2. CASE UbUnplug
    <3> DEFINE f(h) == IF ~UbPresent(h) THEN ubH[h]
                       ELSE [ubH[h] EXCEPT !.in = IF @ = "submitted" THEN "done" ELSE @,
                                           !.out = IF @ = "submitted" THEN "done" ELSE @]
    <3>1. ubH' = [h \in UbHandles |-> f(h)]
      BY <2>2 DEF UbUnplug
    <3>2. ASSUME NEW h \in UbHandles
          PROVE  /\ f(h) \in UbHandle
                 /\ f(h).place = ubH[h].place /\ f(h).tr = ubH[h].tr
                 /\ f(h).refs = ubH[h].refs /\ f(h).writeable = ubH[h].writeable
                 /\ f(h).kicked = ubH[h].kicked
      <4> DEFINE H == ubH[h]
                 in == IF H.in = "submitted" THEN "done" ELSE H.in
                 out == IF H.out = "submitted" THEN "done" ELSE H.out
                 r == [H EXCEPT !.in = in, !.out = out]
      <4>1. H \in UbHandle
        BY <1>1
      <4>2. f(h) = H \/ f(h) = r
        OBVIOUS
      <4>3. in \in {"idle", "submitted", "done"} /\ out \in {"idle", "submitted", "done"}
        BY <4>1 DEF UbHandle
      <4> HIDE DEF f, H, in, out
      <4>4. /\ r \in UbHandle /\ r.place = H.place /\ r.tr = H.tr
            /\ r.refs = H.refs /\ r.writeable = H.writeable /\ r.kicked = H.kicked
        BY <4>1, <4>3 DEF UbHandle
      <4> HIDE DEF r
      <4> QED
        BY <4>1, <4>2, <4>4 DEF H
    <3> HIDE DEF f
    <3> QED
      BY <3>1, <3>2 DEF UbKeeps
  <2>3. CASE \E h \in UbHandles : UbTransfer(h)
    <3>1. PICK h \in UbHandles : UbTransfer(h)
      BY <2>3
    <3>2. PICK r \in {[ubH[h] EXCEPT !.in = "done", !.inOk = TRUE],
                      [ubH[h] EXCEPT !.out = "done", !.outOk = TRUE]} :
            ubH' = [ubH EXCEPT ![h] = r]
      BY <3>1 DEF UbTransfer
    <3>3. /\ r \in UbHandle
          /\ r.place = ubH[h].place /\ r.tr = ubH[h].tr /\ r.refs = ubH[h].refs
          /\ r.writeable = ubH[h].writeable /\ r.kicked = ubH[h].kicked
      <4> DEFINE H == ubH[h]
      <4>1. H \in UbHandle
        BY <1>1
      <4>2. r = [H EXCEPT !.in = "done", !.inOk = TRUE] \/ r = [H EXCEPT !.out = "done", !.outOk = TRUE]
        BY <3>2
      <4> HIDE DEF H
      <4>3. /\ r \in UbHandle /\ r.place = H.place /\ r.tr = H.tr
            /\ r.refs = H.refs /\ r.writeable = H.writeable /\ r.kicked = H.kicked
        <5>1. CASE r = [H EXCEPT !.in = "done", !.inOk = TRUE]
          BY <4>1, <5>1 DEF UbHandle
        <5>2. CASE r = [H EXCEPT !.out = "done", !.outOk = TRUE]
          BY <4>1, <5>2 DEF UbHandle
        <5> QED
          BY <4>2, <5>1, <5>2
      <4> QED
        BY <4>3 DEF H
    <3> QED
      BY <1>1, <3>2, <3>3 DEF UbKeeps
  <2> QED
    BY <2>1, <2>2, <2>3
<1>5. UsbLinuxTypeOK'
  BY <1>2, <1>3, <1>4 DEF UbInductive, UsbLinuxTypeOK
<1> QED
  BY <1>2, <1>4, <1>5, UbCalmOK DEF UbStays

\* usb_kick changes flags and transfers only.
LEMMA UbKickedRecord ==
  ASSUME NEW r \in UbHandle, NEW lost \in BOOLEAN
  PROVE  /\ UbKicked(r, lost) \in UbHandle
         /\ UbKicked(r, lost).place = r.place /\ UbKicked(r, lost).tr = r.tr
         /\ UbKicked(r, lost).refs = r.refs /\ UbKicked(r, lost).writeable = r.writeable
         /\ UbKicked(r, lost).kicked = r.kicked
<1> DEFINE signal == r.reaper /\ ~lost
           in == IF r.in = "submitted" THEN "done" ELSE r.in
           out == IF r.out = "submitted" THEN "done" ELSE r.out
           k == [r EXCEPT !.dead = TRUE, !.signal = signal, !.in = in, !.inOk = FALSE,
                          !.out = out, !.outOk = FALSE, !.outBusy = FALSE]
<1>1. UbKicked(r, lost) = k
  BY DEF UbKicked
<1>2. /\ signal \in BOOLEAN
      /\ in \in {"idle", "submitted", "done"} /\ out \in {"idle", "submitted", "done"}
  BY DEF UbHandle
<1> HIDE DEF signal, in, out
<1>3. /\ k \in UbHandle /\ k.place = r.place /\ k.tr = r.tr /\ k.refs = r.refs
      /\ k.writeable = r.writeable /\ k.kicked = r.kicked
  BY <1>2, ZenonT(40) DEF UbHandle
<1> HIDE DEF k
<1> QED
  BY <1>1, <1>3

LEMMA UsbKickKeeps ==
  ASSUME UbInductive, NEW h \in UbHandles, UsbKick(h)
  PROVE  ubH' \in [UbHandles -> UbHandle] /\ \A g \in UbHandles : UbKeeps(g)
<1>1. ubH \in [UbHandles -> UbHandle]
  BY DEF UbInductive, UsbLinuxTypeOK
<1>2. PICK lost \in BOOLEAN :
        ubH' = [ubH EXCEPT ![h] = IF ubH[h].dead THEN ubH[h] ELSE UbKicked(ubH[h], lost)]
  BY DEF UsbKick
<1>3. PICK r \in {ubH[h], UbKicked(ubH[h], lost)} : ubH' = [ubH EXCEPT ![h] = r]
  BY <1>2
<1>4. /\ r \in UbHandle
      /\ r.place = ubH[h].place /\ r.tr = ubH[h].tr /\ r.refs = ubH[h].refs
      /\ r.writeable = ubH[h].writeable /\ r.kicked = ubH[h].kicked
  BY <1>1, <1>3, UbKickedRecord
<1> QED
  BY <1>1, <1>3, <1>4 DEF UbKeeps

\* One of the threads of h goes from one step to another.
UbMoves(h, from, to) ==
  \/ ubRd[h] = from /\ ubRd' = [ubRd EXCEPT ![h] = to] /\ ubWr' = ubWr
  \/ ubWr[h] = from /\ ubWr' = [ubWr EXCEPT ![h] = to] /\ ubRd' = ubRd

LEMMA UbMovesType ==
  ASSUME UbInductive, NEW h \in UbHandles, NEW from, NEW to,
         to \in {"kicking", "unref", "over"}, UbMoves(h, from, to)
  PROVE  /\ ubRd' \in [UbHandles -> UbReaderPc] /\ ubWr' \in [UbHandles -> UbWriterPc]
         /\ \A g \in UbHandles \ {h} : ubRd'[g] = ubRd[g] /\ ubWr'[g] = ubWr[g]
         /\ \/ ubRd[h] = from /\ ubRd'[h] = to /\ ubWr'[h] = ubWr[h]
            \/ ubWr[h] = from /\ ubWr'[h] = to /\ ubRd'[h] = ubRd[h]
BY DEF UbInductive, UsbLinuxTypeOK, UbMoves, UbReaderPc, UbWriterPc

\* kick_transport by one of the transport's threads: taking transport_lock.
LEMMA UbThreadKickOK ==
  ASSUME UbInductive, NEW h \in UbHandles, NEW who \in {"r", "w"}, UbThreadKick(h, who)
  PROVE  UbInductive'
<1> DEFINE kicks == UbKicks(h)
           k == ubH[h].kicked \/ kicks
           r == [ubH[h] EXCEPT !.kicked = k]
           to == IF kicks THEN "kicking" ELSE "unref"
<1>1. /\ ~ubTL /\ UbMoves(h, "kick", to)
      /\ ubTL' = kicks /\ ubH' = [ubH EXCEPT ![h] = r]
      /\ UNCHANGED <<ubPort, ubPoll, ubMain, ubG, ubKicks>>
  BY DEF UbThreadKick, UbThread, UbMoves
<1>2. /\ ubH \in [UbHandles -> UbHandle] /\ ubH[h] \in UbHandle /\ UbLifeOf(h)
      /\ ubTL \in BOOLEAN
  BY DEF UbInductive, UsbLinuxTypeOK, UbLife
<1>3. k \in BOOLEAN /\ kicks \in BOOLEAN /\ to \in {"kicking", "unref"}
  BY DEF UbKicks
<1>4. to \in {"kicking", "unref", "over"}
  OBVIOUS
<1>5. ubTL = FALSE
  BY <1>1, <1>2, Zenon
<1>6. ubH[h].tr = "listed"
  BY <1>1, <1>2 DEF UbMoves, UbLifeOf, UbAlive, UbHolds
<1>7. k = TRUE
  <2>1. ubH[h].kicked \in BOOLEAN
    BY <1>2 DEF UbHandle
  <2> QED
    BY <1>6, <2>1, Zenon DEF UbKicks
<1> HIDE DEF k, to
<1>8. /\ r \in UbHandle /\ r.kicked = TRUE
      /\ r.place = ubH[h].place /\ r.tr = ubH[h].tr /\ r.refs = ubH[h].refs
      /\ r.writeable = ubH[h].writeable
  BY <1>2, <1>3, <1>7 DEF UbHandle
<1> HIDE DEF r
<1>9. /\ ubH' \in [UbHandles -> UbHandle]
      /\ ubH'[h] = r /\ \A g \in UbHandles \ {h} : ubH'[g] = ubH[g]
  BY <1>1, <1>2, <1>8
<1>10. /\ ubRd' \in [UbHandles -> UbReaderPc] /\ ubWr' \in [UbHandles -> UbWriterPc]
       /\ \A g \in UbHandles \ {h} : ubRd'[g] = ubRd[g] /\ ubWr'[g] = ubWr[g]
       /\ \/ ubRd[h] = "kick" /\ ubRd'[h] = to /\ ubWr'[h] = ubWr[h]
          \/ ubWr[h] = "kick" /\ ubWr'[h] = to /\ ubRd'[h] = ubRd[h]
  BY <1>1, <1>4, UbMovesType
<1>11. UbLife'
  <2>1. ASSUME NEW g \in UbHandles \ {h} PROVE UbLifeOf(g)'
    BY <1>9, <1>10, UbCalmLife DEF UbKeeps, UbStays
  <2>2. UbLifeOf(h)'
    BY <1>2, <1>3, <1>8, <1>9, <1>10 DEF UbLifeOf, UbAlive, UbHolds, UbEnding
  <2> QED
    BY <2>1, <2>2 DEF UbLife
<1>12. UbPollInv'
  BY <1>1, <1>8, <1>9 DEF UbInductive, UsbLinuxTypeOK, UbJob, UbPollInv
<1>13. ubMain.pc \notin {"kicking", "each", "unregister"}
  BY <1>5 DEF UbInductive, UbLockInv
<1>14. UbMainInv'
  BY <1>1, <1>8, <1>9, <1>13 DEF UbInductive, UsbLinuxTypeOK, UbJob, UbMainInv
<1>15. UbLockInv'
  <2>1. \A g \in UbHandles : ubRd[g] # "kicking" /\ ubWr[g] # "kicking"
    BY <1>5 DEF UbInductive, UbLockInv
  <2>2. to = "kicking" => ubTL' = TRUE
    BY <1>1, Zenon DEF to, kicks
  <2> QED
    BY <1>1, <1>3, <1>10, <1>13, <2>1, <2>2 DEF UbLockInv
<1>16. UsbLinuxTypeOK'
  BY <1>1, <1>3, <1>9, <1>10 DEF UbInductive, UsbLinuxTypeOK
<1> QED
  BY <1>11, <1>12, <1>14, <1>15, <1>16 DEF UbInductive

\* The same, inside usb_kick: transport_lock is released.
LEMMA UbThreadKickingOK ==
  ASSUME UbInductive, NEW h \in UbHandles, NEW who \in {"r", "w"}, UbThreadKicking(h, who)
  PROVE  UbInductive'
<1>1. /\ UbMoves(h, "kicking", "unref") /\ UsbKick(h) /\ ubTL' = FALSE
      /\ UNCHANGED <<ubPort, ubPoll, ubMain, ubG, ubKicks>>
  BY DEF UbThreadKicking, UbThread, UbMoves
<1>2. ubH' \in [UbHandles -> UbHandle] /\ \A g \in UbHandles : UbKeeps(g)
  BY <1>1, UsbKickKeeps
<1>3. /\ ubRd' \in [UbHandles -> UbReaderPc] /\ ubWr' \in [UbHandles -> UbWriterPc]
      /\ \A g \in UbHandles \ {h} : ubRd'[g] = ubRd[g] /\ ubWr'[g] = ubWr[g]
      /\ \/ ubRd[h] = "kicking" /\ ubRd'[h] = "unref" /\ ubWr'[h] = ubWr[h]
         \/ ubWr[h] = "kicking" /\ ubWr'[h] = "unref" /\ ubRd'[h] = ubRd[h]
  BY <1>1, UbMovesType
<1>4. UbLife'
  <2>1. ASSUME NEW g \in UbHandles \ {h} PROVE UbLifeOf(g)'
    BY <1>2, <1>3, UbCalmLife DEF UbStays
  <2>2. UbLifeOf(h) /\ UbKeeps(h)
    BY <1>2 DEF UbInductive, UbLife
  <2>3. UbLifeOf(h)'
    BY <1>3, <2>2 DEF UbLifeOf, UbKeeps, UbAlive, UbHolds, UbEnding
  <2> QED
    BY <2>1, <2>3 DEF UbLife
<1>5. UbPollInv'
  BY <1>1, <1>2 DEF UbInductive, UsbLinuxTypeOK, UbJob, UbPollInv, UbKeeps
<1>6. ubMain.pc \notin {"kicking", "each", "unregister"}
  BY <1>3 DEF UbInductive, UbLockInv
<1>7. UbMainInv'
  BY <1>1, <1>2, <1>6 DEF UbInductive, UsbLinuxTypeOK, UbJob, UbMainInv, UbKeeps
<1>8. UbLockInv'
  <2>1. \A g \in UbHandles : ubRd'[g] # "kicking" /\ ubWr'[g] # "kicking"
    BY <1>3 DEF UbInductive, UbLockInv
  <2> QED
    BY <1>1, <1>6, <2>1 DEF UbLockInv
<1>9. UsbLinuxTypeOK'
  BY <1>1, <1>2, <1>3 DEF UbInductive, UsbLinuxTypeOK
<1> QED
  BY <1>4, <1>5, <1>7, <1>8, <1>9 DEF UbInductive

\* transport_unref: the last thread closes the handle, when the poll thread
\* does not hold g_usb_handles_mutex.
LEMMA UbUnrefOK ==
  ASSUME UbInductive, NEW h \in UbHandles, NEW who \in {"r", "w"}, UbUnref(h, who)
  PROVE  UbInductive'
<1> DEFINE H == ubH[h]
           n == H.refs - 1
           r == IF H.refs = 1 THEN UbClosed(H) ELSE [H EXCEPT !.refs = n]
<1>1. /\ UbMoves(h, "unref", "over") /\ ubH' = [ubH EXCEPT ![h] = r]
      /\ H.refs = 1 => ~ubG
      /\ UNCHANGED <<ubPort, ubPoll, ubMain, ubG, ubTL, ubKicks>>
  BY DEF UbUnref, UbThread, UbMoves
<1>2. ubH \in [UbHandles -> UbHandle] /\ H \in UbHandle /\ UbLifeOf(h) /\ ubG \in BOOLEAN
  BY DEF UbInductive, UsbLinuxTypeOK, UbLife
<1>3. /\ ubRd' \in [UbHandles -> UbReaderPc] /\ ubWr' \in [UbHandles -> UbWriterPc]
      /\ \A g \in UbHandles \ {h} : ubRd'[g] = ubRd[g] /\ ubWr'[g] = ubWr[g]
      /\ \/ ubRd[h] = "unref" /\ ubRd'[h] = "over" /\ ubWr'[h] = ubWr[h]
         \/ ubWr[h] = "unref" /\ ubWr'[h] = "over" /\ ubRd'[h] = ubRd[h]
  BY <1>1, UbMovesType
<1>4. /\ H.place = "listed" /\ H.tr = "listed" /\ H.writeable = TRUE /\ H.kicked = TRUE
      /\ H.refs = UbHolds(ubRd[h]) + UbHolds(ubWr[h]) /\ H.refs \in {1, 2}
  BY <1>2, <1>3 DEF UbLifeOf, UbAlive, UbHolds, UbEnding
<1>5. /\ r \in UbHandle /\ r.tr = "listed" /\ r.kicked = TRUE /\ r.refs = H.refs - 1
      /\ IF H.refs = 1 THEN r.place = "deleted" /\ r.writeable = FALSE
                        ELSE r.place = "listed" /\ r.writeable = TRUE
  <2>1. CASE H.refs = 1
    <3> DEFINE c == [UbNew EXCEPT !.place = "deleted", !.tr = H.tr, !.kicked = H.kicked]
    <3>1. r = c
      BY <2>1 DEF UbClosed
    <3>2. /\ c \in UbHandle /\ c.tr = H.tr /\ c.kicked = H.kicked /\ c.refs = 0
          /\ c.place = "deleted" /\ c.writeable = FALSE
      <4>1. UbNew \in UbHandle /\ UbNew.refs = 0 /\ UbNew.writeable = FALSE
        BY UbNewOK DEF UbNew
      <4> HIDE DEF H
      <4> QED
        BY <1>2, <4>1 DEF UbHandle
    <3> HIDE DEF c, r, H
    <3> QED
      BY <1>4, <2>1, <3>1, <3>2
  <2>2. CASE H.refs = 2
    <3>1. n \in 0..2 /\ n = 1
      BY <2>2
    <3> HIDE DEF n, H
    <3>2. r = [H EXCEPT !.refs = n]
      BY <2>2
    <3> QED
      BY <1>2, <1>4, <2>2, <3>1, <3>2 DEF UbHandle
  <2> QED
    BY <1>4, <2>1, <2>2
<1> HIDE DEF r, H
<1>6. /\ ubH' \in [UbHandles -> UbHandle]
      /\ ubH'[h] = r /\ \A g \in UbHandles \ {h} : ubH'[g] = ubH[g]
  BY <1>1, <1>2, <1>5
<1>7. UbLife'
  <2>1. ASSUME NEW g \in UbHandles \ {h} PROVE UbLifeOf(g)'
    BY <1>3, <1>6, UbCalmLife DEF UbKeeps, UbStays
  <2>2. /\ UbHolds(ubRd'[h]) + UbHolds(ubWr'[h]) = H.refs - 1
        /\ ubRd[h] # "none" /\ ubWr[h] # "none" /\ ubRd'[h] # "none" /\ ubWr'[h] # "none"
    BY <1>2, <1>3, <1>4 DEF UbHolds, UbLifeOf, H
  <2>3. UbLifeOf(h)'
    BY <1>4, <1>5, <1>6, <2>2 DEF UbLifeOf, UbAlive
  <2> QED
    BY <2>1, <2>3 DEF UbLife
<1>8. UbPollInv'
  <2>1. ubPoll.todo # {} => ubG = TRUE
    BY DEF UbInductive, UbPollInv
  <2>2. H.refs = 1 => ubPoll.todo = {}
    BY <1>1, <1>2, <2>1, Zenon
  <2>3. ubPoll.pc = "pending" => ubPoll.h # h
    BY <1>4 DEF UbInductive, UbPollInv, H
  <2> QED
    BY <1>1, <1>4, <1>5, <1>6, <2>2, <2>3
       DEF UbInductive, UsbLinuxTypeOK, UbJob, UbPollInv, H
<1>9. UbMainInv'
  <2>1. ubMain.pc = "kicking" => ubMain.h # h
    BY <1>3 DEF UbInductive, UbMainInv, UbEnding
  <2>2. r.place # "none"
    BY <1>5
  <2> QED
    BY <1>1, <1>3, <1>6, <2>1, <2>2 DEF UbInductive, UsbLinuxTypeOK, UbJob, UbMainInv
<1>10. UbLockInv'
  BY <1>1, <1>3 DEF UbInductive, UbLockInv
<1>11. UsbLinuxTypeOK'
  BY <1>1, <1>3, <1>6 DEF UbInductive, UsbLinuxTypeOK
<1> QED
  BY <1>7, <1>8, <1>9, <1>10, <1>11 DEF UbInductive

\* device_poll_thread, while the handles' lives and the other threads rest.
LEMMA UbPollOK ==
  ASSUME UbInductive, ubH' \in [UbHandles -> UbHandle], \A h \in UbHandles : UbKeeps(h),
         ubPoll' \in UbJob({"scan", "pending", "gc", "each", "unregister"}),
         ubG' \in BOOLEAN, UbPollInv',
         UNCHANGED <<ubPort, ubRd, ubWr, ubMain, ubTL, ubKicks>>
  PROVE  UbInductive'
<1>1. UsbLinuxTypeOK'
  BY DEF UbInductive, UsbLinuxTypeOK
<1>2. UbLife'
  BY UbCalmLife DEF UbLife, UbStays
<1>3. UbMainInv' /\ UbLockInv'
  BY DEF UbInductive, UsbLinuxTypeOK, UbJob, UbMainInv, UbLockInv, UbKeeps
<1> QED
  BY <1>1, <1>2, <1>3 DEF UbInductive

LEMMA UbScanOK == ASSUME UbInductive, UbScan PROVE UbInductive'
<1> DEFINE f(h) == IF ubH[h].place = "listed" /\ UbPresent(h)
                   THEN [ubH[h] EXCEPT !.mark = TRUE] ELSE ubH[h]
<1>1. /\ ubPoll.pc = "scan" /\ ubH' = [h \in UbHandles |-> f(h)]
      /\ ubPoll' = [ubPoll EXCEPT !.pc = "gc"]
      /\ UNCHANGED <<ubPort, ubRd, ubWr, ubMain, ubG, ubTL, ubKicks>>
  BY DEF UbScan, UbGoto
<1>2. ubPoll \in UbJob({"scan", "pending", "gc", "each", "unregister"}) /\ ubG \in BOOLEAN
  BY DEF UbInductive, UsbLinuxTypeOK
<1>3. /\ ubPoll' \in UbJob({"scan", "pending", "gc", "each", "unregister"})
      /\ ubPoll'.pc = "gc" /\ ubPoll'.todo = ubPoll.todo
  BY <1>1, <1>2 DEF UbJob
<1>4. ASSUME NEW h \in UbHandles
      PROVE  /\ f(h) \in UbHandle
             /\ f(h).place = ubH[h].place /\ f(h).tr = ubH[h].tr
             /\ f(h).refs = ubH[h].refs /\ f(h).writeable = ubH[h].writeable
             /\ f(h).kicked = ubH[h].kicked
  <2> DEFINE H == ubH[h]
             r == [H EXCEPT !.mark = TRUE]
  <2>1. H \in UbHandle /\ (f(h) = H \/ f(h) = r)
    BY DEF UbInductive, UsbLinuxTypeOK
  <2> HIDE DEF f, H
  <2>2. /\ r \in UbHandle /\ r.place = H.place /\ r.tr = H.tr
        /\ r.refs = H.refs /\ r.writeable = H.writeable /\ r.kicked = H.kicked
    BY <2>1 DEF UbHandle
  <2> HIDE DEF r
  <2> QED
    BY <2>1, <2>2 DEF H
<1> HIDE DEF f
<1>5. ubH' \in [UbHandles -> UbHandle] /\ \A h \in UbHandles : UbKeeps(h)
  BY <1>1, <1>4 DEF UbKeeps
<1>6. UbPollInv'
  BY <1>1, <1>3 DEF UbInductive, UbPollInv
<1> QED
  BY <1>1, <1>2, <1>3, <1>5, <1>6, UbPollOK

\* register_device.
LEMMA UbScanNewOK == ASSUME UbInductive, NEW h \in UbHandles, UbScanNew(h) PROVE UbInductive'
<1> DEFINE w == ubPort.access = "rw"
           r == [UbNew EXCEPT !.place = "listed", !.dev = ubPort.dev, !.mark = TRUE,
                              !.writeable = w]
<1>1. /\ ubH[h].place = "none" /\ ubH' = [ubH EXCEPT ![h] = r]
      /\ ubPoll' = [pc |-> "pending", todo |-> {}, h |-> h]
      /\ UNCHANGED <<ubPort, ubRd, ubWr, ubMain, ubG, ubTL, ubKicks>>
  BY DEF UbScanNew
<1>2. /\ ubH \in [UbHandles -> UbHandle] /\ UbLifeOf(h) /\ ubPort.dev \in 0..UbMaxPlugs
      /\ w \in BOOLEAN
  BY DEF UbInductive, UsbLinuxTypeOK, UbLife
<1>3. UbNew \in UbHandle /\ UbNew.refs = 0 /\ UbNew.tr = "none"
  BY UbNewOK DEF UbNew
<1> HIDE DEF w
<1>4. r \in UbHandle /\ r.place = "listed" /\ r.tr = "none" /\ r.refs = 0
  BY <1>2, <1>3 DEF UbHandle
<1> HIDE DEF r
<1>5. /\ ubH' \in [UbHandles -> UbHandle]
      /\ ubH'[h] = r /\ \A g \in UbHandles \ {h} : ubH'[g] = ubH[g]
  BY <1>1, <1>2, <1>4
<1>6. ubRd[h] = "none" /\ ubWr[h] = "none"
  BY <1>1, <1>2 DEF UbLifeOf
<1>7. UbLife'
  <2>1. ASSUME NEW g \in UbHandles \ {h} PROVE UbLifeOf(g)'
    BY <1>1, <1>5, UbCalmLife DEF UbKeeps, UbStays
  <2>2. UbLifeOf(h)'
    BY <1>1, <1>4, <1>5, <1>6 DEF UbLifeOf, UbAlive, UbHolds, UbEnding
  <2> QED
    BY <2>1, <2>2 DEF UbLife
<1>8. UbPollInv'
  BY <1>1, <1>4, <1>5 DEF UbPollInv
<1>9. UbMainInv' /\ UbLockInv'
  BY <1>1, <1>4, <1>5 DEF UbInductive, UsbLinuxTypeOK, UbJob, UbMainInv, UbLockInv
<1>10. UsbLinuxTypeOK'
  BY <1>1, <1>5 DEF UbInductive, UsbLinuxTypeOK, UbJob
<1> QED
  BY <1>7, <1>8, <1>9, <1>10 DEF UbInductive

\* register_usb_transport, transport_registration_func and
\* unregister_usb_transport: a handle whose transport changes its list, and
\* the threads that start.
LEMMA UbListOK ==
  ASSUME UbInductive, NEW h \in UbHandles, NEW r \in UbHandle,
         r.place = ubH[h].place, r.writeable = ubH[h].writeable, r.kicked = ubH[h].kicked,
         r.refs \in {0, 1, 2}, r.place # "none",
         ubH' = [ubH EXCEPT ![h] = r],
         NEW p \in UbReaderPc, NEW q \in UbWriterPc,
         UbStays(ubRd[h], p) \/ p = "read", UbStays(ubWr[h], q) \/ q = "idle",
         ubRd' = [ubRd EXCEPT ![h] = p], ubWr' = [ubWr EXCEPT ![h] = q],
         UbLifeOf(h)', UbPollInv',
         ubPoll' \in UbJob({"scan", "pending", "gc", "each", "unregister"}),
         UNCHANGED <<ubPort, ubMain, ubG, ubTL, ubKicks>>
  PROVE  UbInductive'
<1>1. /\ ubH \in [UbHandles -> UbHandle]
      /\ ubRd \in [UbHandles -> UbReaderPc] /\ ubWr \in [UbHandles -> UbWriterPc]
  BY DEF UbInductive, UsbLinuxTypeOK
<1>2. /\ ubH' \in [UbHandles -> UbHandle]
      /\ ubH'[h] = r /\ \A g \in UbHandles \ {h} : ubH'[g] = ubH[g]
      /\ ubRd' \in [UbHandles -> UbReaderPc] /\ ubWr' \in [UbHandles -> UbWriterPc]
      /\ ubRd'[h] = p /\ ubWr'[h] = q
      /\ \A g \in UbHandles \ {h} : ubRd'[g] = ubRd[g] /\ ubWr'[g] = ubWr[g]
  BY <1>1
<1>3. UsbLinuxTypeOK'
  BY <1>2 DEF UbInductive, UsbLinuxTypeOK
<1>4. UbLife'
  <2>1. ASSUME NEW g \in UbHandles \ {h} PROVE UbLifeOf(g)'
    BY <1>2, UbCalmLife DEF UbKeeps, UbStays
  <2> QED
    BY <2>1 DEF UbLife
<1>5. UbMainInv'
  <2>1. ubMain.pc = "kicking" /\ ubMain.h = h =>
          p \notin UbEnding \cup {"none"} /\ q \notin UbEnding \cup {"none"}
    BY DEF UbInductive, UbMainInv, UbStays, UbEnding
  <2>2. \A g \in ubMain.todo : ubH'[g].place # "none"
    BY <1>2 DEF UbInductive, UsbLinuxTypeOK, UbJob, UbMainInv
  <2>3. ubMain.pc = "kicking" =>
          ubMain.h \in UbHandles /\ ubRd'[ubMain.h] \notin UbEnding \cup {"none"}
            /\ ubWr'[ubMain.h] \notin UbEnding \cup {"none"}
    BY <1>2, <2>1 DEF UbInductive, UbMainInv
  <2> QED
    BY <2>2, <2>3 DEF UbMainInv
<1>6. UbLockInv'
  <2>1. (p = "kicking" => ubRd[h] = "kicking") /\ (q = "kicking" => ubWr[h] = "kicking")
    BY DEF UbStays, UbEnding
  <2>2. \A g \in UbHandles : (ubRd'[g] = "kicking" => ubRd[g] = "kicking")
                             /\ (ubWr'[g] = "kicking" => ubWr[g] = "kicking")
    BY <1>2, <2>1
  <2> QED
    BY <2>2 DEF UbInductive, UbLockInv
<1> QED
  BY <1>3, <1>4, <1>5, <1>6 DEF UbInductive

LEMMA UbPendingOK == ASSUME UbInductive, UbPending PROVE UbInductive'
<1>0. PICK h \in UbHandles : h = ubPoll.h
  BY DEF UbInductive, UbPollInv, UbPending
<1> DEFINE H == ubH[h]
           r == [H EXCEPT !.tr = "pending"]
<1>1. /\ ubPoll.pc = "pending" /\ ubH' = [ubH EXCEPT ![h] = r]
      /\ ubPoll' = [ubPoll EXCEPT !.pc = "gc"]
      /\ UNCHANGED <<ubPort, ubRd, ubWr, ubMain, ubG, ubTL, ubKicks>>
  BY <1>0 DEF UbPending, UbGoto
<1>2. H.place = "listed" /\ H.tr = "none" /\ ubPoll.todo = {}
  BY <1>0, <1>1 DEF UbInductive, UbPollInv
<1>3. /\ H \in UbHandle /\ ubRd[h] \in UbReaderPc /\ ubWr[h] \in UbWriterPc
      /\ ubRd' = [ubRd EXCEPT ![h] = ubRd[h]] /\ ubWr' = [ubWr EXCEPT ![h] = ubWr[h]]
      /\ ubPoll \in UbJob({"scan", "pending", "gc", "each", "unregister"})
      /\ ubH \in [UbHandles -> UbHandle]
  BY <1>1 DEF UbInductive, UsbLinuxTypeOK
<1>4. /\ r \in UbHandle /\ r.place = H.place /\ r.writeable = H.writeable
      /\ r.kicked = H.kicked /\ r.refs = H.refs /\ r.tr = "pending"
  <2> HIDE DEF H
  <2> QED
    BY <1>3 DEF UbHandle
<1>5. UbLifeOf(h)
  BY DEF UbInductive, UbLife
<1>6. H.refs = 0 /\ ubRd[h] = "none" /\ ubWr[h] = "none"
  BY <1>2, <1>5 DEF UbLifeOf, UbHolds
<1>7. /\ ubPoll' \in UbJob({"scan", "pending", "gc", "each", "unregister"})
      /\ ubPoll'.pc = "gc" /\ ubPoll'.todo = {}
  BY <1>1, <1>2, <1>3 DEF UbJob
<1>8. UbPollInv'
  BY <1>7 DEF UbPollInv
<1> HIDE DEF r
<1>9. ubH'[h] = r
  BY <1>1, <1>3
<1>10. UbLifeOf(h)'
  BY <1>1, <1>2, <1>4, <1>6, <1>9 DEF UbLifeOf, UbAlive, UbHolds, UbEnding
<1> QED
  BY <1>1, <1>2, <1>3, <1>4, <1>6, <1>7, <1>8, <1>10, UbListOK DEF UbStays

LEMMA UbGcUnregisterOK == ASSUME UbInductive, UbGcUnregister PROVE UbInductive'
<1>0. PICK h \in UbHandles : h = ubPoll.h
  BY DEF UbInductive, UbPollInv, UbGcUnregister
<1> DEFINE H == ubH[h]
           tr == IF H.tr = "listed" THEN "gone" ELSE H.tr
           r == [H EXCEPT !.locked = FALSE, !.tr = tr]
<1>1. /\ ubPoll.pc = "unregister" /\ ubH' = [ubH EXCEPT ![h] = r]
      /\ ubPoll' = [ubPoll EXCEPT !.pc = "each", !.h = UbNoHandle]
      /\ UNCHANGED <<ubPort, ubRd, ubWr, ubMain, ubG, ubTL, ubKicks>>
  BY <1>0 DEF UbGcUnregister
<1>2. H.writeable = FALSE /\ ubG = TRUE /\ \A g \in ubPoll.todo : ubH[g].place = "listed"
  BY <1>0, <1>1 DEF UbInductive, UbPollInv
<1>3. /\ H \in UbHandle /\ ubRd[h] \in UbReaderPc /\ ubWr[h] \in UbWriterPc
      /\ ubRd' = [ubRd EXCEPT ![h] = ubRd[h]] /\ ubWr' = [ubWr EXCEPT ![h] = ubWr[h]]
      /\ ubPoll \in UbJob({"scan", "pending", "gc", "each", "unregister"})
      /\ ubH \in [UbHandles -> UbHandle]
  BY <1>1 DEF UbInductive, UsbLinuxTypeOK
<1>4. tr \in {"none", "pending", "listed", "gone"} /\ tr # "listed"
  BY <1>3 DEF UbHandle
<1>5. UbLifeOf(h)
  BY DEF UbInductive, UbLife
<1>6. H.place # "none" \/ tr = "none"
  BY <1>5 DEF UbLifeOf
<1>7. tr \in {"none", "pending"} => tr = H.tr
  OBVIOUS
<1> HIDE DEF tr
<1>8. /\ r \in UbHandle /\ r.place = H.place /\ r.writeable = H.writeable
      /\ r.kicked = H.kicked /\ r.refs = H.refs /\ r.tr = tr
  <2> HIDE DEF H
  <2> QED
    BY <1>3, <1>4 DEF UbHandle
<1> HIDE DEF r
<1>9. ubH'[h] = r /\ \A g \in UbHandles \ {h} : ubH'[g] = ubH[g]
  BY <1>1, <1>3
<1>10. /\ ubPoll' \in UbJob({"scan", "pending", "gc", "each", "unregister"})
       /\ ubPoll'.pc = "each" /\ ubPoll'.todo = ubPoll.todo /\ ubPoll.todo \subseteq UbHandles
  BY <1>1, <1>3, UsbLinuxAssumption DEF UbJob
<1>11. UbPollInv'
  BY <1>1, <1>2, <1>8, <1>9, <1>10 DEF UbPollInv
<1>12. UbLifeOf(h)'
  <2>1. UbAlive(h)' <=> UbAlive(h)
    BY <1>1 DEF UbAlive
  <2>2. ~UbAlive(h)
    BY <1>2, <1>5 DEF UbLifeOf
  <2> QED
    BY <1>1, <1>2, <1>4, <1>5, <1>6, <1>7, <1>8, <1>9, <2>1, <2>2 DEF UbLifeOf
<1>13. CASE H.place # "none"
  <2>1. H.refs \in {0, 1, 2}
    BY <1>3 DEF UbHandle
  <2> QED
    BY <1>1, <1>3, <1>8, <1>10, <1>11, <1>12, <1>13, <2>1, UbListOK DEF UbStays
<1>14. CASE H.place = "none"
  <2>1. \A g \in UbHandles : UbKeeps(g)
    BY <1>5, <1>6, <1>8, <1>9, <1>14 DEF UbKeeps, UbLifeOf
  <2>2. ubH' \in [UbHandles -> UbHandle]
    BY <1>1, <1>3, <1>8
  <2> QED
    BY <1>1, <1>2, <1>10, <1>11, <2>1, <2>2, UbPollOK
<1> QED
  BY <1>13, <1>14

LEMMA UbRegisterOK == ASSUME UbInductive, NEW h \in UbHandles, UbRegister(h) PROVE UbInductive'
<1> DEFINE H == ubH[h]
           w == H.writeable
           n == IF w THEN 2 ELSE 0
           p == IF w THEN "read" ELSE ubRd[h]
           q == IF w THEN "idle" ELSE ubWr[h]
           r == [H EXCEPT !.tr = "listed", !.refs = n]
<1>1. /\ H.tr = "pending" /\ ubH' = [ubH EXCEPT ![h] = r]
      /\ ubRd' = [ubRd EXCEPT ![h] = p] /\ ubWr' = [ubWr EXCEPT ![h] = q]
      /\ UNCHANGED <<ubPort, ubPoll, ubMain, ubG, ubTL, ubKicks>>
  BY DEF UbRegister
<1>2. /\ H \in UbHandle /\ UbLifeOf(h) /\ ubH \in [UbHandles -> UbHandle]
      /\ ubRd \in [UbHandles -> UbReaderPc] /\ ubWr \in [UbHandles -> UbWriterPc]
      /\ ubPoll \in UbJob({"scan", "pending", "gc", "each", "unregister"})
  BY DEF UbInductive, UsbLinuxTypeOK, UbLife
<1>3. ubRd[h] = "none" /\ ubWr[h] = "none" /\ H.place = "listed" /\ w \in BOOLEAN
  BY <1>1, <1>2 DEF UbLifeOf, UbHandle
<1>4. \/ w = TRUE /\ n = 2 /\ p = "read" /\ q = "idle"
      \/ w = FALSE /\ n = 0 /\ p = "none" /\ q = "none"
  <2> HIDE DEF w
  <2>1. CASE w = TRUE
    BY <2>1
  <2>2. CASE w = FALSE
    BY <1>3, <2>2
  <2> QED
    BY <1>3, <2>1, <2>2
<1> HIDE DEF n, p, q
<1>5. n \in 0..2 /\ n \in {0, 1, 2} /\ p \in UbReaderPc /\ q \in UbWriterPc
  BY <1>4 DEF UbReaderPc, UbWriterPc
<1>6. /\ r \in UbHandle /\ r.place = H.place /\ r.writeable = w
      /\ r.kicked = H.kicked /\ r.refs = n /\ r.tr = "listed"
  <2> HIDE DEF H
  <2> QED
    BY <1>2, <1>5 DEF UbHandle
<1> HIDE DEF r
<1>7. /\ ubH'[h] = r /\ \A g \in UbHandles \ {h} : ubH'[g] = ubH[g]
      /\ ubRd'[h] = p /\ ubWr'[h] = q
  BY <1>1, <1>2
<1>8. UbLifeOf(h)'
  BY <1>3, <1>4, <1>6, <1>7 DEF UbLifeOf, UbAlive, UbHolds, UbEnding
<1>9. UbPollInv'
  <2>1. ubPoll.todo \subseteq UbHandles
    BY <1>2 DEF UbJob
  <2>2. ubPoll.pc = "pending" => ubPoll.h # h
    BY <1>1 DEF UbInductive, UbPollInv
  <2> QED
    BY <1>1, <1>6, <1>7, <2>1, <2>2 DEF UbInductive, UbPollInv
<1>10. (UbStays(ubRd[h], p) \/ p = "read") /\ (UbStays(ubWr[h], q) \/ q = "idle")
  BY <1>3, <1>4 DEF UbStays
<1>11. r.place # "none" /\ r.refs \in {0, 1, 2}
  BY <1>3, <1>5, <1>6
<1> QED
  BY <1>1, <1>2, <1>5, <1>6, <1>8, <1>9, <1>10, <1>11, UbListOK

LEMMA UbRemoveOK == ASSUME UbInductive, NEW h \in UbHandles, UbRemove(h) PROVE UbInductive'
<1> DEFINE H == ubH[h]
           r == [H EXCEPT !.tr = "gone"]
<1>1. /\ H.tr = "listed" /\ H.place = "deleted" /\ ubRd[h] = "over" /\ ubWr[h] = "over"
      /\ ubH' = [ubH EXCEPT ![h] = r]
      /\ UNCHANGED <<ubPort, ubRd, ubWr, ubPoll, ubMain, ubG, ubTL, ubKicks>>
  BY DEF UbRemove
<1>2. /\ H \in UbHandle /\ UbLifeOf(h) /\ ubH \in [UbHandles -> UbHandle]
      /\ ubRd \in [UbHandles -> UbReaderPc] /\ ubWr \in [UbHandles -> UbWriterPc]
      /\ ubPoll \in UbJob({"scan", "pending", "gc", "each", "unregister"})
  BY DEF UbInductive, UsbLinuxTypeOK, UbLife
<1>3. /\ r \in UbHandle /\ r.place = H.place /\ r.writeable = H.writeable
      /\ r.kicked = H.kicked /\ r.refs = H.refs /\ r.tr = "gone"
  <2> HIDE DEF H
  <2> QED
    BY <1>2 DEF UbHandle
<1> HIDE DEF r
<1>4. ubH'[h] = r /\ \A g \in UbHandles \ {h} : ubH'[g] = ubH[g]
  BY <1>1, <1>2
<1>5. H.refs = 0
  BY <1>1, <1>2 DEF UbLifeOf, UbHolds
<1>6. UbLifeOf(h)'
  BY <1>1, <1>2, <1>3, <1>4, <1>5 DEF UbLifeOf, UbAlive, UbHolds, UbEnding
<1>7. UbPollInv'
  <2>1. ubPoll.todo \subseteq UbHandles
    BY <1>2 DEF UbJob
  <2>2. ubPoll.pc = "pending" => ubPoll.h # h
    BY <1>1 DEF UbInductive, UbPollInv
  <2> QED
    BY <1>1, <1>3, <1>4, <2>1, <2>2 DEF UbInductive, UbPollInv
<1>8. ubRd' = [ubRd EXCEPT ![h] = ubRd[h]] /\ ubWr' = [ubWr EXCEPT ![h] = ubWr[h]]
  BY <1>1, <1>2
<1>9. "over" \in UbReaderPc /\ "over" \in UbWriterPc
  BY DEF UbReaderPc, UbWriterPc
<1> QED
  BY <1>1, <1>2, <1>3, <1>5, <1>6, <1>7, <1>8, <1>9, UbListOK DEF UbStays

\* What kick_disconnected_devices makes of the handle h when it looks at run.
UbSwept(run, lost, h) ==
  IF h \notin run \/ ubH[h].dead THEN [ubH[h] EXCEPT !.mark = @ /\ h \notin run]
  ELSE IF ubH[h].mark THEN [ubH[h] EXCEPT !.mark = FALSE]
  ELSE UbKicked(ubH[h], lost[h])

\* Two records of a handle that differ in flags and transfers only.
UbSame(r, s) ==
  /\ r.place = s.place /\ r.tr = s.tr /\ r.refs = s.refs
  /\ r.writeable = s.writeable /\ r.kicked = s.kicked

LEMMA UbSweptOK ==
  ASSUME UbInductive, NEW run \in SUBSET UbHandles, NEW lost \in [run -> BOOLEAN],
         NEW h \in UbHandles
  PROVE  UbSwept(run, lost, h) \in UbHandle /\ UbSame(UbSwept(run, lost, h), ubH[h])
<1> DEFINE H == ubH[h]
           m == H.mark /\ h \notin run
           r == [H EXCEPT !.mark = m]
           s == [H EXCEPT !.mark = FALSE]
<1>1. H \in UbHandle /\ m \in BOOLEAN
  BY DEF UbInductive, UsbLinuxTypeOK
<1>2. \/ UbSwept(run, lost, h) = r
      \/ UbSwept(run, lost, h) = s
      \/ h \in run /\ UbSwept(run, lost, h) = UbKicked(H, lost[h])
  BY DEF UbSwept
<1>3. h \in run => lost[h] \in BOOLEAN
  OBVIOUS
<1> HIDE DEF m, H
<1>4. r \in UbHandle /\ UbSame(r, H)
  BY <1>1 DEF UbHandle, UbSame
<1>5. s \in UbHandle /\ UbSame(s, H)
  BY <1>1 DEF UbHandle, UbSame
<1>6. h \in run => UbKicked(H, lost[h]) \in UbHandle /\ UbSame(UbKicked(H, lost[h]), H)
  BY <1>1, <1>3, UbKickedRecord DEF UbSame
<1> HIDE DEF r, s
<1> QED
  BY <1>2, <1>4, <1>5, <1>6 DEF H

\* kick_disconnected_devices stops at a handle without access, which has no
\* threads, and the handles it has left are on the list.
LEMMA UbGcRunOK ==
  ASSUME UbInductive, NEW hs \in SUBSET UbHandles, UbGcRun(hs),
         \A h \in hs : ubH[h].place = "listed",
         UNCHANGED <<ubPort, ubRd, ubWr, ubMain, ubTL, ubKicks>>
  PROVE  UbInductive'
<1> DEFINE run == UbBefore(hs)
           left == hs \ run
<1>1. PICK lost \in [run -> BOOLEAN] :
        LET swept == [h \in UbHandles |-> UbSwept(run, lost, h)]
        IN IF left = {}
           THEN /\ ubH' = swept /\ ubG' = FALSE
                /\ ubPoll' = [pc |-> "scan", todo |-> {}, h |-> UbNoHandle]
           ELSE \E stop \in left :
                  /\ \A g \in left : stop <= g
                  /\ ubH' = [swept EXCEPT ![stop].dead = TRUE, ![stop].locked = TRUE]
                  /\ ubG' = TRUE
                  /\ ubPoll' = [pc |-> "unregister", todo |-> left \ {stop}, h |-> stop]
  BY DEF UbGcRun, UbSwept
<1> DEFINE swept == [h \in UbHandles |-> UbSwept(run, lost, h)]
<1>2. run \in SUBSET UbHandles /\ left \in SUBSET UbHandles
  BY DEF UbBefore
<1>3. \A h \in UbHandles : swept[h] \in UbHandle /\ UbSame(swept[h], ubH[h])
  <2> HIDE DEF run
  <2> QED
    BY <1>2, UbSweptOK
<1>4. swept \in [UbHandles -> UbHandle]
  <2> HIDE DEF run
  <2> QED
    BY <1>2, UbSweptOK
<1>5. UbNoHandle \in UbHandles \cup {UbNoHandle} /\ {} \in SUBSET UbHandles
  OBVIOUS
<1>6. CASE left = {}
  <2>1. /\ ubH' = swept /\ ubG' = FALSE
        /\ ubPoll' = [pc |-> "scan", todo |-> {}, h |-> UbNoHandle]
    BY <1>1, <1>6
  <2> HIDE DEF swept
  <2>2. ubH' \in [UbHandles -> UbHandle] /\ \A h \in UbHandles : UbKeeps(h)
    BY <1>3, <1>4, <2>1 DEF UbSame, UbKeeps
  <2>3. UbPollInv' /\ ubPoll' \in UbJob({"scan", "pending", "gc", "each", "unregister"})
    BY <2>1 DEF UbPollInv, UbJob
  <2> QED
    BY <2>1, <2>2, <2>3, UbPollOK
<1>7. CASE left # {}
  <2>1. PICK stop \in left :
          /\ \A g \in left : stop <= g
          /\ ubH' = [swept EXCEPT ![stop].dead = TRUE, ![stop].locked = TRUE]
          /\ ubG' = TRUE
          /\ ubPoll' = [pc |-> "unregister", todo |-> left \ {stop}, h |-> stop]
    BY <1>1, <1>7
  <2>2. UbUnregisters(stop)
    <3>1. PICK g \in hs : ~ubH[g].mark /\ UbUnregisters(g) /\ ~(stop < g)
      BY DEF UbBefore
    <3>2. g \in Nat /\ stop \in Nat
      BY UsbLinuxAssumption
    <3>3. g \in left
      BY <3>1, <3>2 DEF UbBefore
    <3>4. stop = g
      BY <2>1, <3>1, <3>2, <3>3
    <3> QED
      BY <3>1, <3>4
  <2>3. stop \in UbHandles /\ ubH[stop].place = "listed" /\ ubH[stop].writeable = FALSE
    <3>1. ubH[stop].writeable \in BOOLEAN
      BY <1>2 DEF UbInductive, UsbLinuxTypeOK, UbHandle
    <3>2. ubH[stop].writeable = FALSE
      BY <2>2, <3>1, Zenon DEF UbUnregisters
    <3> QED
      BY <3>2
  <2> DEFINE s == swept[stop]
             r == [s EXCEPT !.dead = TRUE, !.locked = TRUE]
  <2>4. ubH' = [swept EXCEPT ![stop] = r]
    BY <1>4, <2>1, <2>3
  <2>5. s \in UbHandle /\ UbSame(s, ubH[stop])
    BY <1>3, <2>3
  <2> HIDE DEF s, swept, run
  <2>6. r \in UbHandle /\ UbSame(r, s)
    BY <2>5 DEF UbHandle, UbSame
  <2> HIDE DEF r
  <2>7. /\ ubH' \in [UbHandles -> UbHandle]
        /\ \A h \in UbHandles : UbSame(ubH'[h], ubH[h])
    BY <1>3, <1>4, <2>3, <2>4, <2>5, <2>6 DEF UbSame
  <2>8. \A h \in UbHandles : UbKeeps(h)
    BY <2>7 DEF UbSame, UbKeeps
  <2>9. ubPoll' \in UbJob({"scan", "pending", "gc", "each", "unregister"})
    BY <1>2, <2>1, <2>3 DEF UbJob
  <2>10. UbPollInv'
    BY <1>2, <2>1, <2>3, <2>7 DEF UbPollInv, UbSame
  <2> QED
    BY <2>1, <2>7, <2>8, <2>9, <2>10, UbPollOK
<1> QED
  BY <1>6, <1>7

LEMMA UbGcOK == ASSUME UbInductive, UbGc PROVE UbInductive'
<1>1. PICK hs \in SUBSET UbHandles : UbGcRun(hs) /\ \A h \in hs : ubH[h].place = "listed"
  BY DEF UbGc, UbInductive, UsbLinuxTypeOK, UbJob, UbPollInv
<1> QED
  BY <1>1, UbGcRunOK DEF UbGc

\* The main thread takes and releases transport_lock and kicks.
LEMMA UbMainOK ==
  ASSUME UbInductive, ubH' \in [UbHandles -> UbHandle], \A h \in UbHandles : UbKeeps(h),
         ubMain' \in UbJob({"loop", "kicking", "each", "unregister", "exited"}),
         ubTL' \in BOOLEAN, ubKicks' \in 0..UbMaxKicks, UbMainInv', UbLockInv',
         UNCHANGED <<ubPort, ubRd, ubWr, ubPoll, ubG>>
  PROVE  UbInductive'
<1>1. UsbLinuxTypeOK'
  BY DEF UbInductive, UsbLinuxTypeOK
<1>2. UbLife'
  BY UbCalmLife DEF UbLife, UbStays
<1>3. UbPollInv'
  BY DEF UbInductive, UsbLinuxTypeOK, UbJob, UbPollInv, UbKeeps
<1> QED
  BY <1>1, <1>2, <1>3 DEF UbInductive

\* One handle is marked as kicked.
LEMMA UbOneKicked ==
  ASSUME UbInductive, NEW h \in UbHandles, NEW r \in UbHandle, UbSame(r, [ubH[h] EXCEPT !.kicked = TRUE]),
         ubH' = [ubH EXCEPT ![h] = r]
  PROVE  ubH' \in [UbHandles -> UbHandle] /\ \A g \in UbHandles : UbKeeps(g)
<1>1. ubH \in [UbHandles -> UbHandle] /\ ubH[h] \in UbHandle
  BY DEF UbInductive, UsbLinuxTypeOK
<1>2. /\ r.place = ubH[h].place /\ r.tr = ubH[h].tr /\ r.refs = ubH[h].refs
      /\ r.writeable = ubH[h].writeable /\ r.kicked = TRUE
  BY <1>1 DEF UbSame, UbHandle
<1> QED
  BY <1>1, <1>2 DEF UbKeeps

LEMMA UbReconnectOK == ASSUME UbInductive, NEW h \in UbHandles, UbReconnect(h) PROVE UbInductive'
<1> DEFINE r == [ubH[h] EXCEPT !.kicked = TRUE]
<1>1. /\ ~ubTL /\ ubKicks < UbMaxKicks /\ ubKicks' = ubKicks + 1
      /\ ubH[h].writeable /\ ubH[h].tr = "listed" /\ ~ubH[h].kicked
      /\ ubH' = [ubH EXCEPT ![h] = r] /\ ubTL' = TRUE
      /\ ubMain.pc = "loop" /\ ubMain' = [ubMain EXCEPT !.pc = "kicking", !.h = h]
      /\ UNCHANGED <<ubPort, ubRd, ubWr, ubPoll, ubG>>
  BY DEF UbReconnect, UbKicks
<1>2. /\ ubH[h] \in UbHandle /\ UbLifeOf(h) /\ ubKicks \in 0..UbMaxKicks /\ ubTL \in BOOLEAN
      /\ ubMain \in UbJob({"loop", "kicking", "each", "unregister", "exited"})
  BY DEF UbInductive, UsbLinuxTypeOK, UbLife
<1>3. ubH[h].writeable \in BOOLEAN /\ ubH[h].kicked \in BOOLEAN
  BY <1>2 DEF UbHandle
<1>4. ubH[h].writeable = TRUE /\ ubH[h].kicked = FALSE /\ ubTL = FALSE
  BY <1>1, <1>2, <1>3, Zenon
<1>5. ubRd[h] \notin UbEnding \cup {"none"} /\ ubWr[h] \notin UbEnding \cup {"none"}
  BY <1>1, <1>2, <1>4 DEF UbLifeOf
<1>6. r \in UbHandle
  BY <1>2 DEF UbHandle
<1>7. UbSame(r, r)
  BY DEF UbSame
<1>8. ubH' \in [UbHandles -> UbHandle] /\ \A g \in UbHandles : UbKeeps(g)
  BY <1>1, <1>6, <1>7, UbOneKicked
<1>9. /\ ubMain' \in UbJob({"loop", "kicking", "each", "unregister", "exited"})
      /\ ubMain'.pc = "kicking" /\ ubMain'.h = h /\ ubMain'.todo = ubMain.todo
  BY <1>1, <1>2 DEF UbJob
<1>10. UbMainInv'
  BY <1>1, <1>2, <1>5, <1>8, <1>9 DEF UbInductive, UbMainInv, UbKeeps, UbJob
<1>11. UbLockInv'
  BY <1>1, <1>4 DEF UbInductive, UbLockInv
<1>12. ubKicks' \in 0..UbMaxKicks
  BY <1>1, <1>2, UsbLinuxAssumption
<1> QED
  BY <1>1, <1>8, <1>9, <1>10, <1>11, <1>12, UbMainOK

LEMMA UbExitOK == ASSUME UbInductive, UbExit PROVE UbInductive'
<1> DEFINE todo == {h \in UbHandles : ubH[h].tr = "listed"}
<1>1. /\ ubMain.pc = "loop" /\ ~ubTL /\ ubTL' = TRUE
      /\ ubMain' = [pc |-> "each", h |-> UbNoHandle, todo |-> todo]
      /\ UNCHANGED <<ubPort, ubH, ubRd, ubWr, ubPoll, ubG, ubKicks>>
  BY DEF UbExit
<1>2. ubTL = FALSE
  BY <1>1, Zenon DEF UbInductive, UsbLinuxTypeOK
<1>3. \A h \in todo : ubH[h].place # "none"
  BY DEF UbInductive, UbLife, UbLifeOf
<1>4. todo \in SUBSET UbHandles
  OBVIOUS
<1> HIDE DEF todo
<1>5. /\ ubMain' \in UbJob({"loop", "kicking", "each", "unregister", "exited"})
      /\ ubMain'.pc = "each" /\ ubMain'.todo = todo
  BY <1>1, <1>4 DEF UbJob
<1>6. UbMainInv' /\ UbLockInv'
  BY <1>1, <1>2, <1>3, <1>5 DEF UbInductive, UbMainInv, UbLockInv
<1>7. \A h \in UbHandles : UbKeeps(h)
  BY <1>1 DEF UbKeeps
<1> QED
  BY <1>1, <1>5, <1>6, <1>7, UbMainOK DEF UbInductive, UsbLinuxTypeOK

\* kick_all_transports: one transport.
LEMMA UbExitEachOK == ASSUME UbInductive, NEW h \in UbHandles, UbExitEach(h) PROVE UbInductive'
<1> DEFINE H == ubH[h]
           k == [H EXCEPT !.kicked = TRUE]
           l == [H EXCEPT !.kicked = TRUE, !.dead = TRUE, !.locked = TRUE]
<1>1. /\ ubMain.pc = "each" /\ h \in ubMain.todo
      /\ UNCHANGED <<ubPort, ubRd, ubWr, ubPoll, ubG, ubTL, ubKicks>>
  BY DEF UbExitEach
<1>2. /\ H \in UbHandle /\ ubH \in [UbHandles -> UbHandle] /\ ubTL \in BOOLEAN
      /\ ubMain \in UbJob({"loop", "kicking", "each", "unregister", "exited"})
      /\ ubKicks \in 0..UbMaxKicks
  BY DEF UbInductive, UsbLinuxTypeOK
<1>3. /\ ubMain' \in UbJob({"loop", "kicking", "each", "unregister", "exited"})
      /\ ubMain'.pc \in {"each", "unregister"} /\ ubMain'.todo \subseteq ubMain.todo
  BY <1>1, <1>2 DEF UbExitEach, UbJob
<1>4. \/ ubH' = ubH
      \/ ubH' = [ubH EXCEPT ![h] = k]
      \/ ubH' = [ubH EXCEPT ![h] = l]
      \/ \E lost \in BOOLEAN : ubH' = [ubH EXCEPT ![h] = [UbKicked(H, lost) EXCEPT !.kicked = TRUE]]
  BY DEF UbExitEach
<1>5. ubH' \in [UbHandles -> UbHandle] /\ \A g \in UbHandles : UbKeeps(g)
  <2>1. CASE ubH' = ubH
    BY <1>2, <2>1 DEF UbKeeps
  <2>2. k \in UbHandle /\ l \in UbHandle /\ UbSame(k, k) /\ UbSame(l, k)
    <3> HIDE DEF H
    <3> QED
      BY <1>2 DEF UbHandle, UbSame
  <2>3. CASE ubH' = [ubH EXCEPT ![h] = k] \/ ubH' = [ubH EXCEPT ![h] = l]
    <3>1. PICK r \in {k, l} : ubH' = [ubH EXCEPT ![h] = r]
      BY <2>3
    <3> HIDE DEF l
    <3> QED
      BY <2>2, <3>1, UbOneKicked
  <2>4. CASE \E lost \in BOOLEAN :
               ubH' = [ubH EXCEPT ![h] = [UbKicked(H, lost) EXCEPT !.kicked = TRUE]]
    <3>1. PICK lost \in BOOLEAN :
            ubH' = [ubH EXCEPT ![h] = [UbKicked(H, lost) EXCEPT !.kicked = TRUE]]
      BY <2>4
    <3> DEFINE u == UbKicked(H, lost)
               r == [u EXCEPT !.kicked = TRUE]
    <3>2. u \in UbHandle /\ UbSame(u, H)
      BY <1>2, UbKickedRecord DEF UbSame
    <3>3. ubH' = [ubH EXCEPT ![h] = r]
      BY <3>1
    <3> HIDE DEF u, H
    <3>4. r \in UbHandle /\ UbSame(r, k)
      BY <1>2, <3>2 DEF UbHandle, UbSame
    <3> HIDE DEF r
    <3> QED
      BY <3>3, <3>4, UbOneKicked DEF H
  <2> HIDE DEF k, l, H
  <2> QED
    BY <1>4, <2>1, <2>3, <2>4
<1> HIDE DEF k, l, H
<1>6. UbMainInv'
  BY <1>2, <1>3, <1>5 DEF UbInductive, UbMainInv, UbKeeps, UbJob
<1>7. UbLockInv'
  BY <1>1, <1>3 DEF UbInductive, UbLockInv
<1> QED
  BY <1>1, <1>2, <1>3, <1>5, <1>6, <1>7, UbMainOK

LEMMA UbExitEndOK == ASSUME UbInductive, UbExitEnd PROVE UbInductive'
<1>1. /\ ubMain.pc = "each" /\ ubTL' = FALSE /\ ubMain' = [ubMain EXCEPT !.pc = "exited"]
      /\ UNCHANGED <<ubPort, ubH, ubRd, ubWr, ubPoll, ubG, ubKicks>>
  BY DEF UbExitEnd, UbGoto
<1>2. /\ ubMain' \in UbJob({"loop", "kicking", "each", "unregister", "exited"})
      /\ ubMain'.pc = "exited" /\ ubMain'.todo = ubMain.todo
  BY <1>1 DEF UbInductive, UsbLinuxTypeOK, UbJob
<1>3. UbMainInv' /\ UbLockInv'
  BY <1>1, <1>2 DEF UbInductive, UbMainInv, UbLockInv
<1>4. \A h \in UbHandles : UbKeeps(h)
  BY <1>1 DEF UbKeeps
<1> QED
  BY <1>1, <1>2, <1>3, <1>4, UbMainOK DEF UbInductive, UsbLinuxTypeOK

LEMMA UbKickingOK == ASSUME UbInductive, UbKicking PROVE UbInductive'
<1>0. PICK h \in UbHandles : h = ubMain.h
  BY DEF UbInductive, UbMainInv, UbKicking
<1>1. /\ ubMain.pc = "kicking" /\ UsbKick(h) /\ ubTL' = FALSE
      /\ ubMain' = [ubMain EXCEPT !.pc = "loop", !.h = UbNoHandle]
      /\ UNCHANGED <<ubPort, ubRd, ubWr, ubPoll, ubG, ubKicks>>
  BY <1>0 DEF UbKicking
<1>2. ubH' \in [UbHandles -> UbHandle] /\ \A g \in UbHandles : UbKeeps(g)
  BY <1>1, UsbKickKeeps
<1>3. /\ ubMain' \in UbJob({"loop", "kicking", "each", "unregister", "exited"})
      /\ ubMain'.pc = "loop" /\ ubMain'.todo = ubMain.todo /\ ubMain.todo \subseteq UbHandles
  BY <1>1 DEF UbInductive, UsbLinuxTypeOK, UbJob
<1>4. UbMainInv' /\ UbLockInv'
  BY <1>1, <1>2, <1>3 DEF UbInductive, UbMainInv, UbLockInv, UbKeeps
<1> QED
  BY <1>1, <1>2, <1>3, <1>4, UbMainOK DEF UbInductive, UsbLinuxTypeOK

\* Every step of the bus and of the four kinds of threads keeps the invariant.
LEMMA UbNextOK == UbInductive /\ [UsbLinuxNext]_ubVars => UbInductive'
<1> SUFFICES ASSUME UbInductive, [UsbLinuxNext]_ubVars PROVE UbInductive'
  OBVIOUS
<1>1. CASE UNCHANGED ubVars
  <2>1. UsbLinuxTypeOK'
    BY <1>1 DEF ubVars, UbInductive, UsbLinuxTypeOK
  <2> QED
    BY <1>1, <2>1, UbCalmOK DEF ubVars, UbKeeps, UbStays
<1>2. CASE UbEnvironment
  BY <1>2, UbKernelOK, UbReconnectOK, UbExitOK DEF UbEnvironment
<1>3. CASE \E h \in UbHandles : UbReader(h) \/ UbWrite(h) \/ UbWriter(h)
  BY <1>3, UbReaderOK, UbWriterOK, UbThreadKickOK, UbThreadKickingOK, UbUnrefOK
     DEF UbReader, UbWriter
<1>4. CASE UbPoller
  BY <1>4, UbScanOK, UbScanNewOK, UbPendingOK, UbGcOK, UbGcUnregisterOK DEF UbPoller
<1>5. CASE UbMainThread
  BY <1>5, UbRegisterOK, UbRemoveOK, UbExitEachOK, UbExitEndOK, UbKickingOK DEF UbMainThread
<1> QED
  BY <1>1, <1>2, <1>3, <1>4, <1>5 DEF UsbLinuxNext

LEMMA UbAlways == UsbLinuxSpec => []UbInductive
BY UbInitOK, UbNextOK, PTL DEF UsbLinuxSpec

\* The state of the bus, the handles and the threads keeps its type; a
\* transport never has more references than its two threads.
THEOREM UsbLinuxTypeCorrect == UsbLinuxSpec => []UsbLinuxTypeOK
<1>1. UbInductive => UsbLinuxTypeOK
  BY DEF UbInductive
<1> QED BY <1>1, UbAlways, PTL

\* No thread is left with a deleted usb_handle, for any number of devices,
\* pluggings, kicks by clients and interleavings of the poll thread, the main
\* thread and the transports' threads (client/usb_linux.cpp, transport.cpp).
THEOREM HandlesStayAlive == UsbLinuxSpec => []UsbHandleAlive
<1>1. ASSUME UbInductive PROVE UsbHandleAlive
  <2>1. ASSUME NEW h \in UbHandles,
               ubRd[h] \notin {"none", "over"} \/ ubWr[h] \notin {"none", "over"}
        PROVE  ubH[h].place = "listed"
    BY <1>1, <2>1 DEF UbInductive, UbLife, UbLifeOf, UbAlive, UbHolds
  <2>2. \A h \in ubPoll.todo : ubH[h].place = "listed"
    BY <1>1 DEF UbInductive, UbPollInv
  <2>3. ubMain.pc = "kicking" => ubH[ubMain.h].place = "listed"
    BY <1>1, <2>1 DEF UbInductive, UbMainInv, UbEnding
  <2>4. ASSUME NEW h \in ubMain.todo PROVE ubH[h].kicked \/ ubH[h].place = "listed"
    <3>1. h \in UbHandles /\ ubH[h].place \in {"listed", "deleted"}
      BY <1>1 DEF UbInductive, UsbLinuxTypeOK, UbJob, UbMainInv, UbHandle
    <3>2. ubH[h].place = "deleted" => ubH[h].kicked = TRUE
      BY <1>1, <3>1 DEF UbInductive, UbLife, UbLifeOf
    <3> QED
      BY <3>1, <3>2, Zenon
  <2> QED
    BY <2>1, <2>2, <2>3, <2>4 DEF UsbHandleAlive
<1> QED BY <1>1, UbAlways, PTL

-----------------------------------------------------------------------------
(* Sequences *)

\* Whether no element of s occurs twice, and the elements of s.
FeOnce(s) == \A m, n \in 1..Len(s) : s[m] = s[n] => m = n
FeElements(s) == {s[n] : n \in 1..Len(s)}

\* The rest of a list without repetitions holds all but its first element.
LEMMA TailOnce ==
  ASSUME NEW S, NEW s \in Seq(S), s # <<>>, FeOnce(s)
  PROVE  /\ Head(s) \in FeElements(s)
         /\ Tail(s) \in Seq(S)
         /\ FeOnce(Tail(s))
         /\ FeElements(Tail(s)) = FeElements(s) \ {Head(s)}
<1>1. /\ Len(s) \in Nat \ {0}
      /\ Tail(s) \in Seq(S) /\ Len(Tail(s)) = Len(s) - 1
      /\ \A i \in 1..Len(s) - 1 : Tail(s)[i] = s[i + 1]
  BY EmptySeq, HeadTailProperties
<1>2. Head(s) = s[1]
  BY DEF Head
<1>3. FeOnce(Tail(s))
  BY <1>1 DEF FeOnce
<1>4. ASSUME NEW x \in FeElements(Tail(s))
      PROVE  x \in FeElements(s) /\ x # s[1]
  BY <1>1, <1>4 DEF FeOnce, FeElements
<1>5. ASSUME NEW x \in FeElements(s), x # s[1]
      PROVE  x \in FeElements(Tail(s))
  <2>1. PICK n \in 1..Len(s) : s[n] = x
    BY <1>5 DEF FeElements
  <2>2. n - 1 \in 1..Len(Tail(s)) /\ Tail(s)[n - 1] = x
    BY <1>1, <1>5, <2>1
  <2> QED
    BY <2>2 DEF FeElements
<1>6. s[1] \in FeElements(s)
  BY <1>1 DEF FeElements
<1> QED
  BY <1>1, <1>2, <1>3, <1>4, <1>5, <1>6

\* Taking one element out of a list without repetitions.
LEMMA RemovedOnce ==
  ASSUME NEW S, NEW s \in Seq(S), FeOnce(s), NEW i \in 1..Len(s)
  PROVE  LET r == SubSeq(s, 1, i - 1) \o SubSeq(s, i + 1, Len(s)) IN
         r \in Seq(S) /\ FeOnce(r) /\ FeElements(r) = FeElements(s) \ {s[i]}
<1> DEFINE a == SubSeq(s, 1, i - 1)
           b == SubSeq(s, i + 1, Len(s))
           r == a \o b
<1>1. /\ Len(s) \in Nat
      /\ \A n \in 1..Len(s) : s[n] \in S
  BY LenProperties, ElementOfSeq
<1>2. /\ a \in Seq(S)
      /\ Len(a) = i - 1
      /\ \A n \in 1..i - 1 : a[n] = s[n]
  <2>1. \A n \in 1..i - 1 : s[n] \in S
    BY <1>1
  <2> QED
    BY <1>1, <2>1, SubSeqProperties
<1>3. /\ b \in Seq(S)
      /\ Len(b) = Len(s) - i
      /\ \A n \in 1..Len(s) - i : b[n] = s[i + n]
  <2>1. \A n \in i + 1..Len(s) : s[n] \in S
    BY <1>1
  <2> QED
    BY <1>1, <2>1, SubSeqProperties
<1> HIDE DEF a, b
<1>4. /\ r \in Seq(S)
      /\ Len(r) = Len(s) - 1
      /\ \A n \in 1..Len(s) - 1 : r[n] = IF n < i THEN s[n] ELSE s[n + 1]
  <2>1. /\ r \in Seq(S)
        /\ Len(r) = Len(a) + Len(b)
        /\ \A n \in 1..Len(a) + Len(b) :
             r[n] = IF n <= Len(a) THEN a[n] ELSE b[n - Len(a)]
    BY <1>2, <1>3, ConcatProperties
  <2> HIDE DEF r
  <2>2. Len(a) + Len(b) = Len(s) - 1
    BY <1>1, <1>2, <1>3
  <2>3. ASSUME NEW n \in 1..Len(s) - 1
        PROVE  r[n] = IF n < i THEN s[n] ELSE s[n + 1]
    <3>1. CASE n < i
      BY <1>1, <1>2, <2>1, <2>2, <3>1
    <3>2. CASE ~(n < i)
      <4>1. n - (i - 1) \in 1..Len(s) - i /\ i + (n - (i - 1)) = n + 1 /\ ~(n <= i - 1)
        BY <1>1, <3>2
      <4>2. r[n] = b[n - (i - 1)]
        BY <1>2, <2>1, <2>2, <4>1
      <4> QED
        BY <1>3, <3>2, <4>1, <4>2
    <3> QED
      BY <3>1, <3>2
  <2> QED
    BY <2>1, <2>2, <2>3
<1> HIDE DEF r
<1>5. FeOnce(r)
  <2> SUFFICES ASSUME NEW m \in 1..Len(s) - 1, NEW n \in 1..Len(s) - 1, r[m] = r[n]
               PROVE  m = n
    BY <1>1, <1>4 DEF FeOnce
  <2>1. PICK j \in 1..Len(s) : s[j] = r[m] /\ j = IF m < i THEN m ELSE m + 1
    BY <1>1, <1>4
  <2>2. PICK k \in 1..Len(s) : s[k] = r[n] /\ k = IF n < i THEN n ELSE n + 1
    BY <1>1, <1>4
  <2>3. j = k
    BY <1>1, <2>1, <2>2 DEF FeOnce
  <2> QED BY <1>1, <2>1, <2>2, <2>3
<1>6. ASSUME NEW x \in FeElements(r)
      PROVE  x \in FeElements(s) /\ x # s[i]
  <2>1. PICK n \in 1..Len(s) - 1 : r[n] = x
    BY <1>4, <1>6 DEF FeElements
  <2>2. CASE n < i
    BY <1>1, <1>4, <2>1, <2>2, SMTT(30) DEF FeOnce, FeElements
  <2>3. CASE ~(n < i)
    <3>1. n + 1 \in 1..Len(s) /\ x = s[n + 1] /\ n + 1 # i
      BY <1>1, <1>4, <2>1, <2>3
    <3> QED
      BY <3>1 DEF FeOnce, FeElements
  <2> QED
    BY <2>2, <2>3
<1>7. ASSUME NEW x \in FeElements(s), x # s[i]
      PROVE  x \in FeElements(r)
  <2>1. PICK n \in 1..Len(s) : s[n] = x
    BY <1>7 DEF FeElements
  <2>2. CASE n < i
    <3>1. n \in 1..Len(r) /\ r[n] = x
      BY <1>1, <1>4, <2>1, <2>2
    <3> QED
      BY <3>1 DEF FeElements
  <2>3. CASE ~(n < i)
    <3>1. n - 1 \in 1..Len(r) /\ r[n - 1] = x
      BY <1>1, <1>4, <1>7, <2>1, <2>3
    <3> QED
      BY <3>1 DEF FeElements
  <2> QED
    BY <2>2, <2>3
<1>8. FeElements(r) = FeElements(s) \ {s[i]}
  BY <1>6, <1>7
<1> QED
  BY <1>4, <1>5, <1>8 DEF r, a, b

-----------------------------------------------------------------------------
(* FdEvent: the inductive invariant *)

\* An event to write that is still to be delivered is still asked for.
FeWriteWanted == \A f \in FeFdes : "WRITE" \in feEvents[f] => "WRITE" \in feWant[f]

FeInductive == FdEventTypeOK /\ PendingList /\ FeWriteWanted

\* PendingList, in the words of the lemmas about sequences.
LEMMA PendingListIs ==
  PendingList <=>
    /\ FeOnce(feList) /\ FeElements(feList) = fePending
    /\ fePending \subseteq feActive
    /\ \A f \in FeFdes : f \in fePending <=> feEvents[f] # {}
BY DEF PendingList, FeOnce, FeElements

LEMMA PendingListIsNext ==
  PendingList' <=>
    /\ FeOnce(feList') /\ FeElements(feList') = fePending'
    /\ fePending' \subseteq feActive'
    /\ \A f \in FeFdes : f \in fePending' <=> feEvents'[f] # {}
BY DEF PendingList, FeOnce, FeElements

\* g_pending_list.remove takes the fdevent off the list, and no other.
LEMMA WithoutOne ==
  ASSUME FdEventTypeOK, PendingList, NEW f \in fePending
  PROVE  /\ FeWithout(f) \in Seq(FeFdes)
         /\ FeOnce(FeWithout(f))
         /\ FeElements(FeWithout(f)) = fePending \ {f}
<1>1. feList \in Seq(FeFdes) /\ FeOnce(feList) /\ FeElements(feList) = fePending
  BY PendingListIs DEF FdEventTypeOK
<1> DEFINE i == CHOOSE n \in 1..Len(feList) : feList[n] = f
<1>2. i \in 1..Len(feList) /\ feList[i] = f
  BY <1>1 DEF FeElements
<1>3. FeWithout(f) = SubSeq(feList, 1, i - 1) \o SubSeq(feList, i + 1, Len(feList))
  BY DEF FeWithout
<1> HIDE DEF i
<1> QED
  BY <1>1, <1>2, <1>3, RemovedOnce

LEMMA FeInitOK == FdEventInit => FeInductive
<1> SUFFICES ASSUME FdEventInit PROVE FeInductive
  OBVIOUS
<1> USE FdEventAssumption DEF FdEventInit
<1>1. feList \in Seq(FeFdes) /\ Len(feList) = 0
  BY EmptySeq
<1>2. FdEventTypeOK
  BY <1>1 DEF FdEventTypeOK, FeEv
<1>3. PendingList
  BY <1>1 DEF PendingList
<1>4. FeWriteWanted
  BY DEF FeWriteWanted
<1> QED
  BY <1>2, <1>3, <1>4 DEF FeInductive

LEMMA FePollOK ==
  ASSUME FeInductive, FePoll
  PROVE  FeInductive'
<1>1. PICK rev \in [feActive -> SUBSET FeEv] :
        LET ready == {f \in feActive : rev[f] # {}} IN
        /\ ready # {}
        /\ \A f \in feActive : FeReported(f, rev[f])
        /\ feEvents' = [f \in FeFdes |-> IF f \in ready THEN feEvents[f] \cup rev[f]
                                                        ELSE feEvents[f]]
        /\ fePending' = fePending \cup ready
        /\ \E order \in [1..Cardinality(ready) -> ready] :
             /\ \A f \in ready : \E n \in DOMAIN order : order[n] = f
             /\ feList' = order
  BY DEF FePoll
<1> DEFINE ready == {f \in feActive : rev[f] # {}}
           k == Cardinality(ready)
<1>2. PICK order \in [1..k -> ready] :
        (\A f \in ready : \E n \in 1..k : order[n] = f) /\ feList' = order
  BY <1>1
<1>3. ready \in SUBSET feActive /\ feActive \in SUBSET FeFdes /\ ready \in SUBSET FeFdes
  BY DEF FeInductive, FdEventTypeOK
<1>4. IsFiniteSet(ready)
  BY <1>3, FS_Subset, FdEventAssumption
<1>5. k \in Nat
  BY <1>4, FS_CardinalityType
<1>6. order \in Seq(FeFdes) /\ Len(order) = k
  <2>1. order \in [1..k -> FeFdes]
    BY <1>2, <1>3
  <2>2. Seq(FeFdes) = UNION {[1..n -> FeFdes] : n \in Nat}
    BY SeqDef
  <2>3. order \in Seq(FeFdes)
    BY <1>5, <2>1, <2>2, Zenon
  <2> QED
    BY <1>5, <2>1, <2>3, LenProperties
<1>7. FeOnce(order)
  <2>1. order \in Surjection(1..k, ready)
    BY <1>2 DEF Surjection
  <2>2. IsFiniteSet(1..k) /\ Cardinality(1..k) = k
    BY <1>5, FS_Interval
  <2>3. order \in Injection(1..k, ready)
    BY <2>1, <2>2, FS_SurjSameCardinalityImpliesInj
  <2> QED
    BY <1>6, <2>3 DEF FeOnce, Injection, IsInjective
<1>8. FeElements(order) = ready
  BY <1>2, <1>6 DEF FeElements
<1>9. fePending = {}
  <2>1. Len(feList) = 0
    BY DEF FePoll
  <2> QED
    BY <2>1 DEF FeInductive, PendingList
<1>10. fePending' = ready
  BY <1>1, <1>9
<1>11. \A f \in FeFdes : feEvents[f] = {}
  BY <1>9 DEF FeInductive, PendingList
<1>12. \A f \in FeFdes : feEvents'[f] = IF f \in ready THEN rev[f] ELSE {}
  BY <1>1, <1>11
<1>13. feEvents' \in [FeFdes -> SUBSET FeEv]
  <2>1. \A f \in FeFdes :
          (IF f \in ready THEN feEvents[f] \cup rev[f] ELSE feEvents[f]) \in SUBSET FeEv
    BY <1>3, <1>11
  <2> QED
    BY <1>1, <2>1
<1>14. PendingList'
  <2>1. \A f \in FeFdes : f \in ready <=> feEvents'[f] # {}
    BY <1>12
  <2>2. feActive' = feActive
    BY DEF FePoll
  <2> QED
    BY <1>2, <1>3, <1>7, <1>8, <1>10, <2>1, <2>2, PendingListIsNext
<1>15. FeWriteWanted'
  <2>1. ASSUME NEW f \in FeFdes, "WRITE" \in feEvents'[f]
        PROVE  "WRITE" \in feWant[f]
    <3>1. f \in feActive /\ "WRITE" \in rev[f]
      BY <1>12, <2>1
    <3>2. FeReported(f, rev[f])
      BY <1>1, <3>1
    <3> QED
      BY <3>1, <3>2 DEF FeReported
  <2>2. feWant' = feWant
    BY DEF FePoll
  <2> QED
    BY <2>1, <2>2 DEF FeWriteWanted
<1>16. FdEventTypeOK'
  BY <1>2, <1>3, <1>6, <1>10, <1>13 DEF FeInductive, FdEventTypeOK, FePoll
<1> QED
  BY <1>14, <1>15, <1>16 DEF FeInductive

LEMMA FeDispatchOK ==
  ASSUME FeInductive, FeDispatch
  PROVE  FeInductive'
<1> DEFINE f == Head(feList)
<1>1. /\ f \in fePending
      /\ feList' \in Seq(FeFdes) /\ FeOnce(feList')
      /\ FeElements(feList') = fePending \ {f}
  <2>1. feList \in Seq(FeFdes) /\ FeOnce(feList) /\ FeElements(feList) = fePending
    BY PendingListIs DEF FeInductive, FdEventTypeOK
  <2>2. feList # <<>> /\ feList' = Tail(feList)
    BY DEF FeDispatch
  <2> QED
    BY <2>1, <2>2, TailOnce
<1>2. f \in FeFdes
  BY <1>1 DEF FeInductive, FdEventTypeOK
<1>3. /\ feCall' = <<[fde |-> f, ev |-> feEvents[f]]>>
      /\ fePending' = fePending \ {f}
      /\ feEvents' = [feEvents EXCEPT ![f] = {}]
      /\ UNCHANGED <<feActive, feWant, feHup, feOps>>
  BY DEF FeDispatch, FeCallFdFunc
<1> HIDE DEF f
<1>4. PendingList'
  <2>1. /\ fePending \subseteq feActive
        /\ \A g \in FeFdes : g \in fePending <=> feEvents[g] # {}
    BY DEF FeInductive, PendingList
  <2>2. \A g \in FeFdes : feEvents'[g] = IF g = f THEN {} ELSE feEvents[g]
    BY <1>2, <1>3 DEF FeInductive, FdEventTypeOK
  <2> QED
    BY <1>1, <1>3, <2>1, <2>2, PendingListIsNext
<1>5. FeWriteWanted'
  BY <1>2, <1>3 DEF FeInductive, FdEventTypeOK, FeWriteWanted
<1>6. FdEventTypeOK'
  <2>1. feEvents[f] \in SUBSET FeEv
    BY <1>2 DEF FeInductive, FdEventTypeOK
  <2>2. [fde |-> f, ev |-> feEvents[f]] \in [fde : FeFdes, ev : SUBSET FeEv]
    BY <1>2, <2>1
  <2>3. feCall' \in {<<>>} \cup {<<c>> : c \in [fde : FeFdes, ev : SUBSET FeEv]}
    BY <1>3, <2>2, Zenon
  <2>4. /\ feActive' \in SUBSET FeFdes /\ feHup' \in SUBSET FeFdes
        /\ feWant' \in [FeFdes -> SUBSET {"READ", "WRITE"}]
        /\ feOps' \in 0..FeMaxOps
        /\ fePending' \in SUBSET FeFdes
        /\ feEvents' \in [FeFdes -> SUBSET FeEv]
    BY <1>2, <1>3 DEF FeInductive, FdEventTypeOK
  <2> QED
    BY <1>1, <2>3, <2>4, Zenon DEF FdEventTypeOK
<1> QED
  BY <1>4, <1>5, <1>6 DEF FeInductive

LEMMA FeSetOK ==
  ASSUME FeInductive, NEW f \in FeFdes, NEW ev \in SUBSET {"READ", "WRITE"}, FeSet(f, ev)
  PROVE  FeInductive'
<1> DEFINE left == feEvents[f] \cap ev
<1>1. /\ f \in feActive
      /\ feWant' = [feWant EXCEPT ![f] = ev]
      /\ UNCHANGED <<feActive, feHup, feCall>>
  BY DEF FeSet
<1>2. feOps' \in 0..FeMaxOps
  BY FdEventAssumption DEF FeSet, FeInCallback, FeInductive, FdEventTypeOK
<1>3. CASE f \in fePending /\ left = {}
  <2>1. /\ feEvents' = [feEvents EXCEPT ![f] = {}]
        /\ fePending' = fePending \ {f}
        /\ feList' = FeWithout(f)
    BY <1>3 DEF FeSet
  <2>2. feList' \in Seq(FeFdes) /\ FeOnce(feList') /\ FeElements(feList') = fePending \ {f}
    BY <1>3, <2>1, WithoutOne DEF FeInductive
  <2>3. \A g \in FeFdes : feEvents'[g] = IF g = f THEN {} ELSE feEvents[g]
    BY <2>1 DEF FeInductive, FdEventTypeOK
  <2>4. PendingList'
    BY <1>1, <2>1, <2>2, <2>3, PendingListIsNext DEF FeInductive, PendingList
  <2>5. FeWriteWanted'
    BY <1>1, <2>3 DEF FeInductive, FdEventTypeOK, FeWriteWanted
  <2>6. FdEventTypeOK'
    BY <1>1, <1>2, <2>1, <2>2 DEF FeInductive, FdEventTypeOK
  <2> QED
    BY <2>4, <2>5, <2>6 DEF FeInductive
<1>4. CASE f \in fePending /\ left # {}
  <2>1. /\ feEvents' = [feEvents EXCEPT ![f] = left]
        /\ UNCHANGED <<fePending, feList>>
    BY <1>4 DEF FeSet
  <2>2. \A g \in FeFdes : feEvents'[g] = IF g = f THEN left ELSE feEvents[g]
    BY <2>1 DEF FeInductive, FdEventTypeOK
  <2>3. PendingList'
    BY <1>1, <1>4, <2>1, <2>2, PendingListIs, PendingListIsNext DEF FeInductive
  <2>4. FeWriteWanted'
    BY <1>1, <2>2 DEF FeInductive, FdEventTypeOK, FeWriteWanted
  <2>5. FdEventTypeOK'
    BY <1>1, <1>2, <2>1 DEF FeInductive, FdEventTypeOK
  <2> QED
    BY <2>3, <2>4, <2>5 DEF FeInductive
<1>5. CASE f \notin fePending
  <2>1. UNCHANGED <<feEvents, fePending, feList>>
    BY <1>5 DEF FeSet
  <2>2. PendingList'
    BY <1>1, <2>1, PendingListIs, PendingListIsNext DEF FeInductive
  <2>3. FeWriteWanted'
    BY <1>1, <1>5, <2>1 DEF FeInductive, FdEventTypeOK, FeWriteWanted, PendingList
  <2>4. FdEventTypeOK'
    BY <1>1, <1>2, <2>1 DEF FeInductive, FdEventTypeOK
  <2> QED
    BY <2>2, <2>3, <2>4 DEF FeInductive
<1> QED
  BY <1>3, <1>4, <1>5

LEMMA FeRemoveOK ==
  ASSUME FeInductive, NEW f \in FeFdes, FeRemove(f)
  PROVE  FeInductive'
<1>1. /\ feActive' = feActive \ {f}
      /\ fePending' = fePending \ {f}
      /\ feEvents' = [feEvents EXCEPT ![f] = {}]
      /\ feWant' = [feWant EXCEPT ![f] = {}]
      /\ feHup' = feHup \ {f}
      /\ feCall' = feCall
  BY DEF FeRemove
<1>2. feOps' \in 0..FeMaxOps
  BY FdEventAssumption DEF FeRemove, FeInCallback, FeInductive, FdEventTypeOK
<1>3. feList' \in Seq(FeFdes) /\ FeOnce(feList') /\ FeElements(feList') = fePending \ {f}
  <2>1. CASE f \in fePending
    BY <2>1, WithoutOne DEF FeInductive, FeRemove
  <2>2. CASE f \notin fePending
    BY <2>2, PendingListIs DEF FeInductive, FdEventTypeOK, FeRemove
  <2> QED
    BY <2>1, <2>2
<1>4. \A g \in FeFdes : feEvents'[g] = IF g = f THEN {} ELSE feEvents[g]
  BY <1>1 DEF FeInductive, FdEventTypeOK
<1>5. PendingList'
  BY <1>1, <1>3, <1>4, PendingListIsNext DEF FeInductive, PendingList
<1>6. FeWriteWanted'
  BY <1>1, <1>4 DEF FeInductive, FdEventTypeOK, FeWriteWanted
<1>7. FdEventTypeOK'
  BY <1>1, <1>2, <1>3 DEF FeInductive, FdEventTypeOK
<1> QED
  BY <1>5, <1>6, <1>7 DEF FeInductive

LEMMA FeInstallOK ==
  ASSUME FeInductive, NEW f \in FeFdes, FeInstall(f)
  PROVE  FeInductive'
<1>1. /\ f \notin feActive
      /\ feActive' = feActive \cup {f}
      /\ feEvents' = [feEvents EXCEPT ![f] = {}]
      /\ feWant' = [feWant EXCEPT ![f] = {}]
      /\ UNCHANGED <<fePending, feList, feHup, feCall>>
  BY DEF FeInstall
<1>2. feOps' \in 0..FeMaxOps
  BY FdEventAssumption DEF FeInstall, FeInCallback, FeInductive, FdEventTypeOK
<1>3. \A g \in FeFdes : feEvents'[g] = IF g = f THEN {} ELSE feEvents[g]
  BY <1>1 DEF FeInductive, FdEventTypeOK
<1>4. PendingList'
  BY <1>1, <1>3, PendingListIs, PendingListIsNext DEF FeInductive
<1>5. FeWriteWanted'
  BY <1>1, <1>3 DEF FeInductive, FdEventTypeOK, FeWriteWanted
<1>6. FdEventTypeOK'
  BY <1>1, <1>2 DEF FeInductive, FdEventTypeOK
<1> QED
  BY <1>4, <1>5, <1>6 DEF FeInductive

\* Returning from a callback and a hang-up of the other end change nothing
\* that is pending.
LEMMA FeQuietOK ==
  ASSUME FeInductive,
         FeReturn \/ (\E f \in FeFdes : FeHangUp(f)) \/ UNCHANGED feVars
  PROVE  FeInductive'
<1>1. UNCHANGED <<feActive, feWant, fePending, feEvents, feList>> /\ feOps' = feOps
  BY DEF FeReturn, FeHangUp, feVars
<1>2. feHup' \in SUBSET FeFdes
  BY DEF FeReturn, FeHangUp, feVars, FeInductive, FdEventTypeOK
<1>3. feCall' = feCall \/ feCall' = <<>>
  BY DEF FeReturn, FeHangUp, feVars
<1>4. PendingList'
  BY <1>1, PendingListIs, PendingListIsNext DEF FeInductive
<1>5. FeWriteWanted'
  BY <1>1 DEF FeInductive, FeWriteWanted
<1>6. FdEventTypeOK'
  BY <1>1, <1>2, <1>3 DEF FeInductive, FdEventTypeOK
<1> QED
  BY <1>4, <1>5, <1>6 DEF FeInductive

LEMMA FeNextOK == FeInductive /\ [FdEventNext]_feVars => FeInductive'
<1> SUFFICES ASSUME FeInductive, [FdEventNext]_feVars PROVE FeInductive'
  OBVIOUS
<1>1. CASE FeReturn \/ (\E f \in FeFdes : FeHangUp(f)) \/ UNCHANGED feVars
  BY <1>1, FeQuietOK
<1>2. CASE FePoll
  BY <1>2, FePollOK
<1>3. CASE FeDispatch
  BY <1>3, FeDispatchOK
<1>4. CASE \E f \in FeFdes, ev \in SUBSET {"READ", "WRITE"} : FeSet(f, ev)
  BY <1>4, FeSetOK
<1>5. CASE \E f \in FeFdes : FeRemove(f)
  BY <1>5, FeRemoveOK
<1>6. CASE \E f \in FeFdes : FeInstall(f)
  BY <1>6, FeInstallOK
<1> QED
  BY <1>1, <1>2, <1>3, <1>4, <1>5, <1>6 DEF FdEventNext, FeLoop

\* Every variable of the event loop keeps its type.
THEOREM FdEventTypeCorrect == FdEventSpec => []FdEventTypeOK
<1>1. FeInductive => FdEventTypeOK
  BY DEF FeInductive
<1> QED
  BY FeInitOK, FeNextOK, <1>1, PTL DEF FdEventSpec

\* Whatever callbacks do to each other's fdevents while events are pending,
\* g_pending_list holds exactly the fdevents marked FDE_PENDING, each once,
\* installed and with something to deliver.
THEOREM PendingConsistent == FdEventSpec => []PendingList
<1>1. FeInductive => PendingList
  BY DEF FeInductive
<1> QED
  BY FeInitOK, FeNextOK, <1>1, PTL DEF FdEventSpec

\* fdevent_loop calls a function only on an installed fdevent, for some
\* event, and for FDE_WRITE only if that is still asked for.
THEOREM OnlyWantedDelivered == FdEventSpec => DeliveredWanted
<1>1. FeInductive /\ [FdEventNext]_feVars =>
        [Len(feCall') > Len(feCall) =>
           LET c == feCall'[1] IN
           /\ c.fde \in feActive
           /\ c.ev # {}
           /\ "WRITE" \in c.ev => "WRITE" \in feWant[c.fde]]_feVars
  <2> SUFFICES ASSUME FeInductive, FdEventNext, Len(feCall') > Len(feCall)
               PROVE  LET c == feCall'[1] IN
                      /\ c.fde \in feActive
                      /\ c.ev # {}
                      /\ "WRITE" \in c.ev => "WRITE" \in feWant[c.fde]
    OBVIOUS
  <2>1. feCall' # feCall
    BY DEF FeInductive, FdEventTypeOK
  <2>2. ~FeReturn
    BY DEF FeReturn, FeInductive, FdEventTypeOK
  <2>3. FeDispatch
    BY <2>1, <2>2 DEF FdEventNext, FeLoop, FePoll, FeSet, FeRemove, FeInstall, FeHangUp
  <2> DEFINE f == Head(feList)
  <2>4. f \in fePending
    <3>1. feList \in Seq(FeFdes) /\ FeOnce(feList) /\ FeElements(feList) = fePending
      BY PendingListIs DEF FeInductive, FdEventTypeOK
    <3>2. feList # <<>>
      BY <2>3 DEF FeDispatch
    <3> QED
      BY <3>1, <3>2, TailOnce
  <2>5. feCall' = <<[fde |-> f, ev |-> feEvents[f]]>>
    BY <2>3 DEF FeDispatch, FeCallFdFunc
  <2> HIDE DEF f
  <2>6. f \in FeFdes /\ f \in feActive /\ feEvents[f] # {}
    BY <2>4 DEF FeInductive, FdEventTypeOK, PendingList
  <2>7. "WRITE" \in feEvents[f] => "WRITE" \in feWant[f]
    BY <2>6 DEF FeInductive, FeWriteWanted
  <2>8. feCall'[1].fde = f /\ feCall'[1].ev = feEvents[f]
    BY <2>5
  <2> QED
    BY <2>6, <2>7, <2>8
<1> QED
  BY FeInitOK, FeNextOK, <1>1, PTL DEF FdEventSpec, DeliveredWanted

-----------------------------------------------------------------------------
(* RunQueue implements CallQueue *)

\* The calls of t in a sequence of calls.
RqCallsOf(s, t) == {n \in 1..Len(s) : s[n][1] = t}

\* One call more at the end counts for its thread and for no other.
LEMMA OneMoreCall ==
  ASSUME NEW s \in Seq(RqFunction), NEW e \in RqFunction, NEW t
  PROVE  /\ Cardinality(RqCallsOf(s, t)) \in Nat
         /\ Cardinality(RqCallsOf(Append(s, e), t)) =
              Cardinality(RqCallsOf(s, t)) + (IF e[1] = t THEN 1 ELSE 0)
<1> DEFINE r == Append(s, e)
           k == Len(s)
           old == RqCallsOf(s, t)
<1>1. /\ k \in Nat
      /\ Len(r) = k + 1
      /\ \A n \in 1..k : r[n] = s[n]
      /\ r[k + 1] = e
  BY LenProperties, AppendProperties
<1> HIDE DEF r
<1>2. IsFiniteSet(old)
  <2>1. IsFiniteSet(1..k)
    BY <1>1, FS_Interval
  <2>2. old \in SUBSET (1..k)
    BY DEF RqCallsOf
  <2> QED
    BY <2>1, <2>2, FS_Subset
<1>3. Cardinality(old) \in Nat
  BY <1>2, FS_CardinalityType
<1>4. CASE e[1] = t
  <2>1. RqCallsOf(r, t) = old \cup {k + 1}
    BY <1>1, <1>4 DEF RqCallsOf
  <2>2. k + 1 \notin old
    BY <1>1 DEF RqCallsOf
  <2>3. Cardinality(old \cup {k + 1}) = Cardinality(old) + 1
    BY <1>2, <2>2, FS_AddElement
  <2> QED
    BY <1>3, <1>4, <2>1, <2>3 DEF r
<1>5. CASE e[1] # t
  <2>1. RqCallsOf(r, t) = old
    BY <1>1, <1>5 DEF RqCallsOf
  <2> QED
    BY <1>3, <1>5, <2>1 DEF r
<1> QED
  BY <1>4, <1>5

\* A thread has made as many calls as are waiting or have been run: none is
\* lost and none is run twice.
RqCounted ==
  \A t \in RqThreads : Cardinality(RqCallsOf(rqRan \o rqQueue, t)) = rqDone[t]

\* While a function waits, the loop is about to flush, or will find a byte
\* in the socket pair, or a thread is about to write one.
RqWakeupDue ==
  rqSetup = TRUE /\ rqQueue # <<>> =>
    \/ rqMain = "emptied"
    \/ rqBytes > 0
    \/ \E t \in RqThreads : rqPc[t] = "write"

RqInductive == RunQueueTypeOK /\ RqCounted /\ RqWakeupDue

LEMMA RqInitOK == RunQueueInit => RqInductive
<1> SUFFICES ASSUME RunQueueInit PROVE RqInductive
  OBVIOUS
<1> USE RunQueueAssumption DEF RunQueueInit
<1>1. RunQueueTypeOK
  <2>1. rqQueue \in Seq(RqFunction) /\ rqRan \in Seq(RqFunction)
    BY EmptySeq
  <2>2. 0 \in 0..RqCapacity /\ 0 \in 0..RqCalls
    OBVIOUS
  <2> QED
    BY <2>1, <2>2 DEF RunQueueTypeOK
<1>2. RqCounted
  <2>1. rqRan \o rqQueue = <<>> /\ Len(<<>>) = 0
    BY EmptySeq, ConcatEmptySeq
  <2>2. \A t \in RqThreads : RqCallsOf(rqRan \o rqQueue, t) = {}
    BY <2>1 DEF RqCallsOf
  <2> QED
    BY <2>2, FS_EmptySet DEF RqCounted
<1>3. RqWakeupDue
  BY DEF RqWakeupDue
<1> QED
  BY <1>1, <1>2, <1>3 DEF RqInductive

\* A push appends one call, which is the next one of its thread.
LEMMA RqPushes ==
  ASSUME RqInductive, NEW t \in RqThreads, RqPush(t)
  PROVE  /\ <<t, rqDone[t] + 1>> \in RqFunction
         /\ rqQueue' \in Seq(RqFunction)
         /\ rqRan \o rqQueue' = Append(rqRan \o rqQueue, <<t, rqDone[t] + 1>>)
<1> DEFINE e == <<t, rqDone[t] + 1>>
<1>1. e \in RqFunction
  BY RunQueueAssumption DEF RqPush, RqInductive, RunQueueTypeOK, RqFunction
<1>2. rqQueue \in Seq(RqFunction) /\ rqRan \in Seq(RqFunction)
  BY DEF RqInductive, RunQueueTypeOK
<1>3. rqQueue' = Append(rqQueue, e)
  BY DEF RqPush
<1> HIDE DEF e
<1>4. <<e>> \in Seq(RqFunction)
  BY <1>1
<1>5. Append(rqQueue, e) = rqQueue \o <<e>>
  BY <1>1, <1>2, AppendIsConcat
<1>6. rqRan \o rqQueue \in Seq(RqFunction)
  BY <1>2, ConcatProperties
<1>7. Append(rqRan \o rqQueue, e) = (rqRan \o rqQueue) \o <<e>>
  BY <1>1, <1>6, AppendIsConcat
<1>8. (rqRan \o rqQueue) \o <<e>> = rqRan \o (rqQueue \o <<e>>)
  BY <1>2, <1>4, ConcatAssociative
<1>9. Append(rqQueue, e) \in Seq(RqFunction)
  BY <1>1, <1>2, AppendProperties
<1> QED
  BY <1>1, <1>3, <1>5, <1>7, <1>8, <1>9 DEF e

LEMMA RqPushOK ==
  ASSUME RqInductive, NEW t \in RqThreads, RqPush(t)
  PROVE  RqInductive'
<1> DEFINE e == <<t, rqDone[t] + 1>>
           all == rqRan \o rqQueue
<1>1. /\ e \in RqFunction /\ rqQueue' \in Seq(RqFunction)
      /\ rqRan \o rqQueue' = Append(all, e)
  BY RqPushes
<1>2. all \in Seq(RqFunction)
  BY ConcatProperties DEF RqInductive, RunQueueTypeOK
<1>3. /\ rqDone[t] < RqCalls /\ rqDone[t] \in 0..RqCalls
      /\ rqDone' = [rqDone EXCEPT ![t] = rqDone[t] + 1]
      /\ UNCHANGED <<rqBytes, rqSetup, rqMain, rqRan>>
  BY DEF RqPush, RqInductive, RunQueueTypeOK
<1>4. IF rqSetup THEN rqMutex' = t /\ rqPc' = [rqPc EXCEPT ![t] = "write"]
                 ELSE UNCHANGED <<rqMutex, rqPc>>
  BY DEF RqPush
<1>5. RunQueueTypeOK'
  <2>1. rqDone' \in [RqThreads -> 0..RqCalls]
    BY <1>3, RunQueueAssumption DEF RqInductive, RunQueueTypeOK
  <2>2. /\ rqMutex' \in RqThreads \cup {"none", "main"}
        /\ rqPc' \in [RqThreads -> {"out", "write"}]
    BY <1>4 DEF RqInductive, RunQueueTypeOK
  <2> QED
    BY <1>1, <1>3, <2>1, <2>2 DEF RqInductive, RunQueueTypeOK
<1>6. RqCounted'
  <2> HIDE DEF all
  <2>1. ASSUME NEW u \in RqThreads
        PROVE  Cardinality(RqCallsOf(Append(all, e), u)) = rqDone'[u]
    <3>1. Cardinality(RqCallsOf(all, u)) = rqDone[u] /\ rqDone[u] \in 0..RqCalls
      BY DEF RqInductive, RqCounted, RunQueueTypeOK, all
    <3>2. e[1] = t
      OBVIOUS
    <3>3. Cardinality(RqCallsOf(Append(all, e), u)) = rqDone[u] + (IF t = u THEN 1 ELSE 0)
      <4> HIDE DEF e
      <4> QED
        BY <1>1, <1>2, <3>1, <3>2, OneMoreCall
    <3>4. rqDone'[u] = IF t = u THEN rqDone[u] + 1 ELSE rqDone[u]
      BY <1>3 DEF RqInductive, RunQueueTypeOK
    <3> HIDE DEF e
    <3> QED
      BY <3>1, <3>3, <3>4
  <2>2. (rqRan \o rqQueue)' = Append(all, e)
    BY <1>1, <1>3
  <2> HIDE DEF e
  <2> QED
    BY <2>1, <2>2 DEF RqCounted
<1>7. RqWakeupDue'
  <2>1. CASE rqSetup = TRUE
    <3>1. rqPc'[t] = "write"
      BY <1>4, <2>1 DEF RqInductive, RunQueueTypeOK
    <3> QED
      BY <3>1 DEF RqWakeupDue
  <2>2. CASE rqSetup # TRUE
    BY <1>3, <2>2 DEF RqWakeupDue
  <2> QED
    BY <2>1, <2>2
<1> QED
  BY <1>5, <1>6, <1>7 DEF RqInductive

\* A flush moves all that waits to what has been run.
LEMMA RqFlushes ==
  ASSUME RqInductive, RqFlush
  PROVE  /\ rqQueue' = <<>> /\ rqRan' = rqRan \o rqQueue
         /\ rqQueue' \in Seq(RqFunction) /\ rqRan' \in Seq(RqFunction)
         /\ rqRan' \o rqQueue' = rqRan \o rqQueue
<1>1. rqQueue' = <<>> /\ rqRan' = rqRan \o rqQueue
  BY DEF RqFlush
<1>2. rqRan \o rqQueue \in Seq(RqFunction) /\ <<>> \in Seq(RqFunction)
  BY ConcatProperties, EmptySeq DEF RqInductive, RunQueueTypeOK
<1>3. (rqRan \o rqQueue) \o <<>> = rqRan \o rqQueue
  BY <1>2, ConcatEmptySeq
<1> QED
  BY <1>1, <1>2, <1>3

LEMMA RqNextOK == RqInductive /\ [RunQueueNext]_rqVars => RqInductive'
<1> SUFFICES ASSUME RqInductive, [RunQueueNext]_rqVars PROVE RqInductive'
  OBVIOUS
<1>1. CASE \E t \in RqThreads : RqPush(t)
  BY <1>1, RqPushOK
<1>2. CASE \E t \in RqThreads : RqNotify(t)
  <2>1. PICK t \in RqThreads : RqNotify(t)
    BY <1>2
  <2>2. /\ rqBytes' = rqBytes + 1 /\ rqBytes < RqCapacity
        /\ rqPc' = [rqPc EXCEPT ![t] = "out"]
        /\ rqMutex' = "none"
        /\ UNCHANGED <<rqQueue, rqSetup, rqDone, rqMain, rqRan>>
    BY <2>1 DEF RqNotify
  <2>3. rqBytes' \in 0..RqCapacity /\ rqBytes' > 0
    BY <2>2, RunQueueAssumption DEF RqInductive, RunQueueTypeOK
  <2>4. RunQueueTypeOK'
    BY <2>2, <2>3 DEF RqInductive, RunQueueTypeOK
  <2>5. RqCounted'
    BY <2>2 DEF RqInductive, RqCounted
  <2>6. RqWakeupDue'
    BY <2>3 DEF RqWakeupDue
  <2> QED
    BY <2>4, <2>5, <2>6 DEF RqInductive
<1>3. CASE RqRunSetup \/ RqRunFlush
  <2>1. /\ RqFlush
        /\ rqSetup' \in BOOLEAN /\ rqMain' = "poll"
        /\ UNCHANGED <<rqBytes, rqMutex, rqPc, rqDone>>
    BY <1>3 DEF RqRunSetup, RqRunFlush, RqInductive, RunQueueTypeOK
  <2>2. RunQueueTypeOK'
    BY <2>1, RqFlushes DEF RqInductive, RunQueueTypeOK
  <2>3. RqCounted'
    BY <2>1, RqFlushes DEF RqInductive, RqCounted
  <2>4. RqWakeupDue'
    BY <2>1, RqFlushes DEF RqWakeupDue
  <2> QED
    BY <2>2, <2>3, <2>4 DEF RqInductive
<1>4. CASE RqEmpty
  <2>1. /\ rqMain' = "emptied"
        /\ UNCHANGED <<rqQueue, rqSetup, rqMutex, rqPc, rqDone, rqRan>>
    BY <1>4 DEF RqEmpty
  <2>2. rqBytes' \in 0..RqCapacity
    BY <1>4, RunQueueAssumption DEF RqEmpty, RqInductive, RunQueueTypeOK
  <2>3. RunQueueTypeOK'
    BY <2>1, <2>2 DEF RqInductive, RunQueueTypeOK
  <2>4. RqCounted'
    BY <2>1 DEF RqInductive, RqCounted
  <2>5. RqWakeupDue'
    BY <2>1 DEF RqWakeupDue
  <2> QED
    BY <2>3, <2>4, <2>5 DEF RqInductive
<1>5. CASE UNCHANGED rqVars
  BY <1>5 DEF rqVars, RqInductive, RunQueueTypeOK, RqCounted, RqWakeupDue
<1> QED
  BY <1>1, <1>2, <1>3, <1>4, <1>5 DEF RunQueueNext, RqMainThread

\* Every variable of the run queue keeps its type.
THEOREM RunQueueTypeCorrect == RunQueueSpec => []RunQueueTypeOK
<1>1. RqInductive => RunQueueTypeOK
  BY DEF RqInductive
<1> QED
  BY RqInitOK, RqNextOK, <1>1, PTL DEF RunQueueSpec

\* No wake-up is lost: as long as a function waits in run_queue once the
\* socket pair exists, the main thread is about to flush, or there is a byte
\* for it to read, or the thread that has pushed is about to write one.
THEOREM NoLostWakeup == RunQueueSpec => []RqWakeupDue
<1>1. RqInductive => RqWakeupDue
  BY DEF RqInductive
<1> QED
  BY RqInitOK, RqNextOK, <1>1, PTL DEF RunQueueSpec

\* fdevent_run_on_main_thread implements the safety part of CallQueue: every
\* function is run once, in the order in which the calls took the lock, and
\* the functions of one thread in the order of its calls.
THEOREM RunsOnceInOrder == RunQueueSpec => Promise!CallQueueSafety
<1>1. RunQueueInit => Promise!CallQueueInit
  BY DEF RunQueueInit, Promise!CallQueueInit
<1>2. RqInductive /\ [RunQueueNext]_rqVars =>
        [Promise!CallQueueNext]_(Promise!callQueueVars)
  <2> SUFFICES ASSUME RqInductive, [RunQueueNext]_rqVars
               PROVE  [Promise!CallQueueNext]_(Promise!callQueueVars)
    OBVIOUS
  <2>1. CASE \E t \in RqThreads : RqPush(t)
    <3>1. PICK t \in RqThreads : RqPush(t)
      BY <2>1
    <3>2. Promise!Made(t) = rqDone[t]
      <4>1. Promise!Made(t) = Cardinality(RqCallsOf(rqRan \o rqQueue, t))
        BY DEF Promise!Made, RqCallsOf, Promise!Cardinality, Cardinality
      <4> QED
        BY <4>1 DEF RqInductive, RqCounted
    <3>3. /\ rqDone[t] < RqCalls
          /\ rqQueue' = Append(rqQueue, <<t, rqDone[t] + 1>>)
          /\ rqRan' = rqRan
      BY <3>1 DEF RqPush
    <3>4. Promise!Call(t)
      BY <3>2, <3>3 DEF Promise!Call
    <3> QED
      BY <3>4 DEF Promise!CallQueueNext
  <2>2. CASE RqRunSetup \/ RqRunFlush
    <3>1. rqQueue \in Seq(RqFunction) /\ rqRan \in Seq(RqFunction) /\ Len(rqQueue) \in Nat
      BY LenProperties DEF RqInductive, RunQueueTypeOK
    <3>2. rqQueue' = <<>> /\ rqRan' = rqRan \o rqQueue
      BY <2>2 DEF RqRunSetup, RqRunFlush, RqFlush
    <3>3. CASE rqQueue = <<>>
      BY <3>1, <3>2, <3>3, ConcatEmptySeq DEF Promise!callQueueVars
    <3>4. CASE rqQueue # <<>>
      <4> DEFINE n == Len(rqQueue)
      <4>1. n \in 1..Len(rqQueue)
        BY <3>1, <3>4, EmptySeq
      <4>2. SubSeq(rqQueue, 1, n) = rqQueue
        BY <3>1, SubSeqFull
      <4>3. SubSeq(rqQueue, n + 1, Len(rqQueue)) = <<>>
        BY <3>1, SubSeqEmpty
      <4>4. Promise!RunSome
        BY <3>2, <4>1, <4>2, <4>3 DEF Promise!RunSome
      <4> QED
        BY <4>4 DEF Promise!CallQueueNext
    <3> QED
      BY <3>3, <3>4
  <2>3. CASE RqEmpty \/ (\E t \in RqThreads : RqNotify(t)) \/ UNCHANGED rqVars
    BY <2>3 DEF RqEmpty, RqNotify, rqVars, Promise!callQueueVars
  <2> QED
    BY <2>1, <2>2, <2>3 DEF RunQueueNext, RqMainThread
<1> QED
  BY RqInitOK, RqNextOK, <1>1, <1>2, PTL DEF RunQueueSpec, Promise!CallQueueSafety

-----------------------------------------------------------------------------
(* AdbClient: the inductive invariant *)

\* A server that holds the port or has held it.
AcWas == {"bound", "exiting", "stuck", "dead"}

\* At most one server holds the port.
OneOwner == \A r, s \in AcOwners : r = s

\* Every server but the one that may run at the start is launched by a client
\* and has its version; that one is never launched.
LaunchedHasVersion ==
  /\ \A s \in AcServers \ {1} : acS[s].st # "none" =>
       \E d \in AcClients : acS[s].by = d /\ acS[s].ver = acC[d].ver
  /\ acS[1].st # "starting"

\* A server acknowledges when it holds the port, so none has done so while the
\* first still holds it.
AckedHasBound ==
  \A s \in AcServers \ {1} : acS[s].acked = TRUE => acS[s].st \in AcWas /\ 1 \notin AcOwners

\* The server s that a client with the record r talks to, when the servers are
\* S, is the one it knows, unless that has ended.
TalksTo(S, r, s) ==
  /\ s \in AcServers /\ r.knew # 0
  /\ s = r.knew \/ S[r.knew].st = "dead"
  /\ S[s].st \in AcWas /\ (s = 1 => r.knew = 1)

\* What a client with the record r knows and is connected to, when the
\* servers are S.
FitClient(S, r) ==
  /\ r.knew # 0 => S[r.knew].ver = r.ver /\ S[r.knew].st \in AcWas
  /\ S[1].st \in AcWas \ {"dead"} => r.knew \in {0, 1}
  /\ r.pc = "version" => r.srv \in AcServers
  /\ r.pc = "ack" => /\ r.srv \in AcServers \ {1}
                     /\ S[r.srv].ver = r.ver /\ S[r.srv].st # "none"
  /\ r.pc = "connect" => r.knew # 0
  /\ r.pc = "status" => TalksTo(S, r, r.srv)
  /\ r.served # 0 => r.pc = "done" /\ TalksTo(S, r, r.served)

ServersFit == OneOwner /\ LaunchedHasVersion /\ AckedHasBound

StartInductive ==
  AdbClientTypeOK /\ ServersFit /\ \A c \in AcClients : FitClient(acS, acC[c])

\* What the invariant says of versions.
LEMMA StartIsEnough == StartInductive => ServedByOwnVersion
<1> SUFFICES ASSUME StartInductive, NEW c \in AcClients, acC[c].served # 0
             PROVE  /\ acS[acC[c].knew].ver = acC[c].ver
                    /\ acC[c].served = acC[c].knew \/ acS[acC[c].knew].st = "dead"
                    /\ acS[acC[c].served].ver # acC[c].ver =>
                         \E d \in AcClients : /\ acS[acC[c].served].by = d
                                              /\ acS[acC[c].served].ver = acC[d].ver
  BY DEF ServedByOwnVersion
<1>1. TalksTo(acS, acC[c], acC[c].served) /\ acS[acC[c].knew].ver = acC[c].ver
  BY DEF StartInductive, FitClient, TalksTo
<1>2. acC[c].served # 1 =>
        \E d \in AcClients : /\ acS[acC[c].served].by = d
                             /\ acS[acC[c].served].ver = acC[d].ver
  BY <1>1 DEF StartInductive, ServersFit, LaunchedHasVersion, TalksTo, AcWas
<1> QED BY <1>1, <1>2 DEF TalksTo

\* The first server holds the port or not.
LEMMA FirstOwns == 1 \in AcOwners <=> acS[1].st \in AcWas \ {"dead"}
BY AdbClientAssumption DEF AcOwners, AcWas

\* The first states, with a server of any version or none.
LEMMA StartInitially == AdbClientInit => StartInductive
<1> SUFFICES ASSUME AdbClientInit PROVE StartInductive
  OBVIOUS
<1> USE AdbClientAssumption
<1>1. PICK st \in {"none", "bound"}, ver \in AcVersions :
        acS = [s \in AcServers |->
          [st |-> IF s = 1 THEN st ELSE "none", ver |-> ver, by |-> 0, acked |-> s = 1]]
  BY DEF AdbClientInit
<1>2. \A c \in AcClients :
        /\ acC[c] \in AcClient
        /\ acC[c].pc \in {"kill", "query"} /\ acC[c].served = 0 /\ acC[c].knew = 0
  BY DEF AdbClientInit, AcClient
<1>3. AdbClientTypeOK
  <2>1. acS \in [AcServers -> AcServer]
    BY <1>1 DEF AcServer
  <2> QED BY <1>2, <2>1 DEF AdbClientInit, AdbClientTypeOK
<1>4. ServersFit
  BY <1>1 DEF ServersFit, OneOwner, LaunchedHasVersion, AckedHasBound, AcOwners
<1>5. \A c \in AcClients : FitClient(acS, acC[c])
  BY <1>2 DEF FitClient
<1> QED BY <1>3, <1>4, <1>5 DEF StartInductive

\* The step of one client while the servers rest: its new record fits.
LEMMA OneClientMoves ==
  ASSUME StartInductive, UNCHANGED acS, NEW c \in AcClients, NEW r \in AcClient,
         acC' = [acC EXCEPT ![c] = r], r.ver = acC[c].ver, FitClient(acS, r)
  PROVE  StartInductive'
<1>1. acC \in [AcClients -> AcClient]
  BY DEF StartInductive, AdbClientTypeOK
<1>2. acC'[c] = r /\ \A d \in AcClients \ {c} : acC'[d] = acC[d]
  BY <1>1
<1>3. AdbClientTypeOK'
  BY <1>1 DEF StartInductive, AdbClientTypeOK
<1>4. \A d \in AcClients : acC'[d].ver = acC[d].ver
  BY <1>2
<1>5. ServersFit'
  BY <1>4 DEF StartInductive, ServersFit, OneOwner, LaunchedHasVersion, AckedHasBound, AcOwners
<1>7. \A d \in AcClients : FitClient(acS, acC[d])
  BY DEF StartInductive
<1>8. \A d \in AcClients : FitClient(acS', acC'[d])
  BY <1>2, <1>7
<1> QED BY <1>3, <1>5, <1>8 DEF StartInductive

\* AcGoto to a state in which nothing but its server is new.
LEMMA GotoKeeps ==
  ASSUME StartInductive, UNCHANGED acS,
         NEW c \in AcClients, NEW pc, NEW s, AcGoto(c, pc, s),
         pc \in {"version", "kill", "killing", "launch", "status", "done", "failed"},
         s \in AcServers \cup {0}, acC[c].pc # "done",
         pc = "status" => TalksTo(acS, acC[c], s),
         pc = "version" => s \in AcServers
  PROVE  StartInductive'
<1> DEFINE r == [acC[c] EXCEPT !.pc = pc, !.srv = s]
<1>1. acC \in [AcClients -> AcClient] /\ acC[c] \in AcClient
  BY DEF StartInductive, AdbClientTypeOK
<1>2. acC' = [acC EXCEPT ![c] = r]
  BY <1>1 DEF AcGoto
<1>3. /\ r \in AcClient /\ r.pc = pc /\ r.srv = s /\ r.ver = acC[c].ver
      /\ r.knew = acC[c].knew /\ r.served = acC[c].served
  BY <1>1 DEF AcClient
<1> HIDE DEF r
<1>4. FitClient(acS, acC[c])
  BY DEF StartInductive
<1>5. FitClient(acS, r)
  BY <1>3, <1>4 DEF FitClient, TalksTo
<1> QED BY <1>2, <1>3, <1>5, OneClientMoves

\* A client goes on with a server of its version that has held the port.
LEMMA StartedKeeps ==
  ASSUME StartInductive, UNCHANGED acS, NEW c \in AcClients, NEW s \in AcServers,
         AcStarted(c, s), acS[s].ver = acC[c].ver, acS[s].st \in AcWas,
         1 \in AcOwners => s = 1, acC[c].pc # "done"
  PROVE  StartInductive'
<1> DEFINE pc == IF acC[c].cmd = "start-server" THEN "done" ELSE "connect"
           r == [acC[c] EXCEPT !.pc = pc, !.srv = 0, !.knew = s]
<1>1. acC \in [AcClients -> AcClient] /\ acC[c] \in AcClient
  BY DEF StartInductive, AdbClientTypeOK
<1>2. acC' = [acC EXCEPT ![c] = r]
  BY <1>1 DEF AcStarted
<1>3. pc \in {"done", "connect"}
  OBVIOUS
<1> HIDE DEF pc
<1>4. /\ r \in AcClient /\ r.pc = pc /\ r.ver = acC[c].ver
      /\ r.knew = s /\ r.served = acC[c].served
  BY <1>1, <1>3 DEF AcClient
<1> HIDE DEF r
<1>5. FitClient(acS, r)
  <2>1. acC[c].served = 0
    BY DEF StartInductive, FitClient
  <2> QED BY <1>3, <1>4, <2>1, AdbClientAssumption, FirstOwns DEF FitClient
<1> QED BY <1>2, <1>4, <1>5, OneClientMoves

\* What a client does: it changes its own record, and launches at most one
\* server.
LEMMA StartClient ==
  ASSUME StartInductive, NEW c \in AcClients, AcClientStep(c) \/ AcInterrupt(c)
  PROVE  StartInductive'
<1> USE AdbClientAssumption
<1>0. FitClient(acS, acC[c]) /\ acC \in [AcClients -> AcClient] /\ acC[c] \in AcClient
  BY DEF StartInductive, AdbClientTypeOK
<1>1. CASE AcQuery(c)
  BY <1>1, GotoKeeps DEF AcQuery, AcDial, AcOwners
<1>2. CASE AcVersion(c)
  <2>0. acC[c].pc = "version" /\ UNCHANGED acS /\ acC[c].srv \in AcServers
    BY <1>0, <1>2 DEF AcVersion, FitClient
  <2>1. CASE AcGoto(c, "failed", 0)
    BY <2>0, <2>1, GotoKeeps
  <2>2. CASE AcGoto(c, "kill", 0)
    BY <2>0, <2>2, GotoKeeps
  <2>3. CASE /\ acS[acC[c].srv].st = "bound" /\ AcMatches(acS[acC[c].srv].ver, acC[c].ver)
             /\ AcStarted(c, acC[c].srv)
    <3>1. 1 \in AcOwners => acC[c].srv = 1
      BY <2>0, <2>3 DEF StartInductive, ServersFit, OneOwner, AcOwners
    <3> QED BY <2>0, <2>3, <3>1, StartedKeeps DEF AcMatches, AcWas
  <2> QED BY <1>2, <2>1, <2>2, <2>3 DEF AcVersion
<1>3. CASE AcKill(c)
  BY <1>3, GotoKeeps DEF AcKill, AcDial, AcOwners
<1>4. CASE AcKilled(c)
  BY <1>4, GotoKeeps DEF AcKilled
<1>5. CASE AcLaunch(c)
  <2>1. CASE AcGoto(c, "failed", 0) /\ UNCHANGED acS
    BY <1>5, <2>1, GotoKeeps DEF AcLaunch
  <2>2. ASSUME NEW s \in AcServers \ {1}, acS[s].st = "none", AcGoto(c, "ack", s),
               acS' = [acS EXCEPT ![s] = [st |-> "starting", ver |-> acC[c].ver, by |-> c,
                                          acked |-> FALSE]]
        PROVE  StartInductive'
    <3> DEFINE r == [acC[c] EXCEPT !.pc = "ack", !.srv = s]
    <3>1. acC' = [acC EXCEPT ![c] = r]
      BY <1>0, <2>2 DEF AcGoto
    <3>2. /\ r \in AcClient /\ r.pc = "ack" /\ r.srv = s /\ r.ver = acC[c].ver
          /\ r.knew = acC[c].knew /\ r.served = acC[c].served
      BY <1>0 DEF AcClient
    <3> HIDE DEF r
    <3>3. acC'[c] = r /\ \A d \in AcClients \ {c} : acC'[d] = acC[d]
      BY <1>0, <3>1
    <3>4. acS \in [AcServers -> AcServer]
      BY DEF StartInductive, AdbClientTypeOK
    <3>5. /\ acS'[s].st = "starting" /\ acS'[s].ver = acC[c].ver /\ acS'[s].by = c
          /\ acS'[s].acked = FALSE /\ \A q \in AcServers \ {s} : acS'[q] = acS[q]
          /\ acS' \in [AcServers -> AcServer]
      BY <1>0, <2>2, <3>4 DEF AcServer, AcClient
    <3>6. AdbClientTypeOK'
      BY <1>0, <3>1, <3>2, <3>5 DEF AdbClientTypeOK
    <3>7. AcOwners' = AcOwners /\ s \notin AcOwners /\ acS'[1] = acS[1]
      BY <2>2, <3>5 DEF AcOwners
    <3>8. \A d \in AcClients : acC'[d].ver = acC[d].ver
      BY <3>2, <3>3
    <3>9. OneOwner' /\ AckedHasBound'
      BY <3>5, <3>7 DEF StartInductive, ServersFit, OneOwner, AckedHasBound
    <3>10. LaunchedHasVersion'
      <4>1. ASSUME NEW q \in AcServers \ {1}, acS'[q].st # "none"
            PROVE  \E d \in AcClients : acS'[q].by = d /\ acS'[q].ver = acC'[d].ver
        <5>1. CASE q = s
          BY <3>5, <3>8, <5>1
        <5>2. CASE q # s
          BY <3>5, <3>8, <4>1, <5>2 DEF StartInductive, ServersFit, LaunchedHasVersion
        <5> QED BY <5>1, <5>2
      <4>2. acS'[1].st # "starting"
        BY <3>5 DEF StartInductive, ServersFit, LaunchedHasVersion
      <4> QED BY <4>1, <4>2 DEF LaunchedHasVersion
    <3>11. ASSUME NEW q \in AcClient, FitClient(acS, q) PROVE FitClient(acS', q)
      <4>1. \A x \in AcServers : acS[x].st # "none" => acS'[x] = acS[x]
        BY <2>2, <3>5
      <4>2. q.knew \in AcServers \cup {0} /\ q.served \in AcServers \cup {0}
        BY DEF AcClient
      <4>3. \A x \in AcServers : TalksTo(acS, q, x) => TalksTo(acS', q, x)
        BY <3>11, <4>1, <4>2 DEF FitClient, TalksTo, AcWas
      <4>4. q.knew # 0 => acS'[q.knew] = acS[q.knew]
        BY <3>11, <4>1, <4>2 DEF FitClient, AcWas
      <4>5. q.pc = "ack" => acS'[q.srv] = acS[q.srv]
        BY <3>11, <4>1 DEF FitClient
      <4>6. \A x : TalksTo(acS, q, x) => TalksTo(acS', q, x)
        BY <4>3 DEF TalksTo
      <4> HIDE DEF r
      <4> QED BY <3>7, <3>11, <4>4, <4>5, <4>6 DEF FitClient
    <3>12. FitClient(acS', r)
      <4>1. acC[c].pc = "launch"
        BY <1>5 DEF AcLaunch
      <4>2. acC[c].served = 0
        BY <1>0, <4>1 DEF FitClient
      <4>3. /\ acC[c].knew # 0 => acS'[acC[c].knew].ver = acC[c].ver /\ acS'[acC[c].knew].st \in AcWas
            /\ acS'[1].st \in AcWas \ {"dead"} => acC[c].knew \in {0, 1}
        <5>1. acC[c].knew \in AcServers \cup {0}
          BY <1>0 DEF AcClient
        <5>2. acC[c].knew # s
          BY <1>0, <2>2 DEF FitClient, AcWas
        <5> QED BY <1>0, <3>5, <3>7, <5>1, <5>2 DEF FitClient
      <4>4. r.ver = acC[c].ver /\ r.knew = acC[c].knew /\ r.served = 0 /\ r.pc = "ack" /\ r.srv = s
        BY <3>2, <4>2
      <4> QED BY <3>5, <4>3, <4>4 DEF FitClient
    <3>13. \A d \in AcClients : FitClient(acS', acC'[d])
      <4> SUFFICES ASSUME NEW d \in AcClients PROVE FitClient(acS', acC'[d])
        OBVIOUS
      <4>1. CASE d = c
        BY <3>3, <3>12, <4>1 DEF FitClient, TalksTo
      <4>2. CASE d # c
        <5>1. acC[d] \in AcClient /\ FitClient(acS, acC[d])
          BY <1>0 DEF StartInductive
        <5> DEFINE q == acC[d]
        <5>2. acC'[d] = q
          BY <3>3, <4>2
        <5> QED BY <3>11, <5>1, <5>2
      <4> QED BY <4>1, <4>2
    <3> QED BY <3>6, <3>9, <3>10, <3>13 DEF StartInductive, ServersFit
  <2> QED BY <1>5, <2>1, <2>2 DEF AcLaunch
<1>6. CASE AcAck(c)
  <2>0. /\ acC[c].pc = "ack" /\ UNCHANGED acS /\ acC[c].srv \in AcServers \ {1}
        /\ acS[acC[c].srv].ver = acC[c].ver
    BY <1>0, <1>6 DEF AcAck, FitClient
  <2>1. CASE AcGoto(c, "failed", 0)
    BY <2>0, <2>1, GotoKeeps
  <2>2. CASE acS[acC[c].srv].acked /\ AcStarted(c, acC[c].srv)
    <3>1. acS[acC[c].srv].acked = TRUE
      BY <2>0, <2>2 DEF StartInductive, AdbClientTypeOK, AcServer
    <3>2. acS[acC[c].srv].st \in AcWas /\ 1 \notin AcOwners
      BY <2>0, <3>1 DEF StartInductive, ServersFit, AckedHasBound
    <3> QED BY <2>0, <2>2, <3>2, StartedKeeps
  <2> QED BY <1>6, <2>1, <2>2 DEF AcAck
<1>7. CASE AcConnect(c)
  <2>0. acC[c].pc = "connect" /\ UNCHANGED acS
    BY <1>7 DEF AcConnect, AcDial
  <2>1. CASE AcGoto(c, "failed", 0)
    BY <2>0, <2>1, GotoKeeps
  <2>2. ASSUME NEW s \in AcOwners, AcGoto(c, "status", s) PROVE StartInductive'
    <3>1. s \in AcServers /\ acS[s].st \in AcWas
      BY DEF AcOwners, AcWas
    <3>2. acC[c].knew # 0 /\ acC[c].knew \in AcServers /\ acS[acC[c].knew].st \in AcWas
      BY <1>0, <2>0 DEF FitClient, AcClient
    <3>3. acC[c].knew \in AcOwners \/ acS[acC[c].knew].st = "dead"
      BY <3>2 DEF AcOwners, AcWas
    <3>4. TalksTo(acS, acC[c], s)
      BY <1>0, <2>2, <3>1, <3>2, <3>3, FirstOwns
         DEF TalksTo, FitClient, StartInductive, ServersFit, OneOwner
    <3> QED BY <2>0, <2>2, <3>1, <3>4, GotoKeeps
  <2> QED BY <1>7, <2>1, <2>2 DEF AcConnect, AcDial
<1>8. CASE AcStatus(c)
  <2>0. acC[c].pc = "status" /\ UNCHANGED acS
    BY <1>8 DEF AcStatus
  <2>1. CASE AcGoto(c, "failed", 0)
    BY <2>0, <2>1, GotoKeeps
  <2>2. CASE acC' = [acC EXCEPT ![c].pc = "done", ![c].srv = 0, ![c].served = acC[c].srv]
    <3> DEFINE r == [acC[c] EXCEPT !.pc = "done", !.srv = 0, !.served = acC[c].srv]
    <3>1. acC' = [acC EXCEPT ![c] = r]
      BY <1>0, <2>2
    <3>2. /\ r \in AcClient /\ r.pc = "done" /\ r.served = acC[c].srv
          /\ r.ver = acC[c].ver /\ r.knew = acC[c].knew
      BY <1>0 DEF AcClient
    <3> HIDE DEF r
    <3>3. TalksTo(acS, acC[c], acC[c].srv)
      BY <1>0, <2>0 DEF FitClient
    <3>4. FitClient(acS, r)
      BY <1>0, <3>2, <3>3 DEF FitClient, TalksTo
    <3> QED BY <2>0, <3>1, <3>2, <3>4, OneClientMoves
  <2> QED BY <1>8, <2>1, <2>2 DEF AcStatus
<1>9. CASE AcInterrupt(c)
  BY <1>9, GotoKeeps DEF AcInterrupt
<1> QED BY <1>1, <1>2, <1>3, <1>4, <1>5, <1>6, <1>7, <1>8, <1>9 DEF AcClientStep

\* What a server does: it changes its own record only, takes the port only
\* from nobody, and what has held the port never starts again.
LEMMA StartServer ==
  ASSUME StartInductive, NEW s \in AcServers, AcServerStep(s)
  PROVE  StartInductive'
<1> USE AdbClientAssumption
<1> DEFINE StepOf(st) == acS' = [acS EXCEPT ![s].st = st]
           Acks == acS' = [acS EXCEPT ![s].acked = TRUE]
<1>0. /\ UNCHANGED acC
      /\ \/ (StepOf("exiting") \/ StepOf("stuck")) /\ s \in AcOwners
         \/ StepOf("bound") /\ acS[s].st = "starting" /\ AcOwners = {}
         \/ StepOf("dead") /\ acS[s].st # "none"
         \/ Acks /\ s \in AcOwners
  BY DEF AcServerStep, AcHandleKill, AcBind, AcGiveUp, AcNotify, AcExit, AcOwners
<1> DEFINE Effect ==
      /\ acS' \in [AcServers -> AcServer]
      /\ acS'[s].ver = acS[s].ver /\ acS'[s].by = acS[s].by
      /\ \A r \in AcServers \ {s} : acS'[r] = acS[r]
      /\ acS'[s].st \in AcWas /\ acS[s].st # "none"
      /\ acS[s].st = "dead" => acS'[s].st = "dead"
      /\ s \in AcOwners' => s \in AcOwners \/ (AcOwners = {} /\ acS[s].st = "starting")
      /\ acS'[s].acked = TRUE => acS[s].acked = TRUE \/ s \in AcOwners
<1>2. Effect
  <2> USE DEF StartInductive, AdbClientTypeOK, AcServer, AcWas
  <2>1. CASE (StepOf("exiting") \/ StepOf("stuck")) /\ s \in AcOwners
    BY <2>1 DEF AcOwners
  <2>2. CASE StepOf("bound") /\ acS[s].st = "starting" /\ AcOwners = {}
    BY <2>2 DEF AcOwners
  <2>3. CASE StepOf("dead") /\ acS[s].st # "none"
    BY <2>3 DEF AcOwners
  <2>4. CASE Acks /\ s \in AcOwners
    BY <2>4 DEF AcOwners
  <2> QED BY <1>0, <2>1, <2>2, <2>3, <2>4
<1>1. UNCHANGED acC /\ Effect
  BY <1>0, <1>2
<1> HIDE DEF Effect
<1>3. \A r \in AcServers \ {s} : r \in AcOwners' <=> r \in AcOwners
  BY <1>1 DEF AcOwners, Effect
<1>4. AcOwners \subseteq AcServers /\ AcOwners' \subseteq AcServers
  BY DEF AcOwners
<1>5. AdbClientTypeOK'
  BY <1>1 DEF StartInductive, AdbClientTypeOK, Effect
<1>6. OneOwner'
  BY <1>1, <1>3, <1>4 DEF StartInductive, ServersFit, OneOwner, Effect
<1>7. LaunchedHasVersion'
  BY <1>1 DEF StartInductive, ServersFit, LaunchedHasVersion, AcWas, Effect
<1>8. 1 \in AcOwners' => 1 \in AcOwners
  BY <1>1, <1>3 DEF StartInductive, ServersFit, LaunchedHasVersion, Effect
<1>11. acS'[1].st \in AcWas \ {"dead"} => acS[1].st \in AcWas \ {"dead"}
  BY <1>8, FirstOwns DEF AcOwners, AcWas
<1>9. AckedHasBound'
  <2> SUFFICES ASSUME NEW q \in AcServers \ {1}, acS'[q].acked = TRUE
               PROVE  acS'[q].st \in AcWas /\ 1 \notin AcOwners'
    BY DEF AckedHasBound
  <2>1. CASE q # s
    BY <1>1, <1>8, <2>1 DEF StartInductive, ServersFit, AckedHasBound, Effect
  <2>2. CASE q = s
    <3>1. acS'[q].st \in AcWas
      BY <1>1, <2>2 DEF Effect
    <3>2. CASE acS[q].acked = TRUE
      BY <1>8, <3>1, <3>2 DEF StartInductive, ServersFit, AckedHasBound
    <3>3. CASE q \in AcOwners
      BY <1>8, <3>1, <3>3 DEF StartInductive, ServersFit, OneOwner
    <3> QED BY <1>1, <2>2, <3>2, <3>3 DEF Effect
  <2> QED BY <2>1, <2>2
<1>10. \A c \in AcClients : FitClient(acS', acC'[c])
  <2> SUFFICES ASSUME NEW c \in AcClients PROVE FitClient(acS', acC'[c])
    OBVIOUS
  <2>1. FitClient(acS, acC[c]) /\ acC[c] \in AcClient /\ acC'[c] = acC[c]
    BY <1>1 DEF StartInductive, AdbClientTypeOK
  <2>2. /\ acC[c].knew \in AcServers \cup {0} /\ acC[c].srv \in AcServers \cup {0}
        /\ acC[c].served \in AcServers \cup {0}
    BY <2>1 DEF AcClient
  <2>3. \A q \in AcServers : /\ acS'[q].ver = acS[q].ver
                             /\ acS[q].st \in AcWas => acS'[q].st \in AcWas
                             /\ acS[q].st = "dead" => acS'[q].st = "dead"
                             /\ acS[q].st # "none" => acS'[q].st # "none"
    BY <1>1 DEF Effect, AcWas
  <2>4. \A q : TalksTo(acS, acC[c], q) => TalksTo(acS', acC[c], q)
    BY <2>1, <2>2, <2>3 DEF TalksTo
  <2> QED BY <1>11, <2>1, <2>2, <2>3, <2>4 DEF FitClient
<1> QED BY <1>5, <1>6, <1>7, <1>9, <1>10 DEF StartInductive, ServersFit

\* The invariant holds for ever.
LEMMA StartAlways == AdbClientSpec => []StartInductive
<1>1. StartInductive /\ [AdbClientNext]_acVars => StartInductive'
  <2> SUFFICES ASSUME StartInductive, [AdbClientNext]_acVars PROVE StartInductive'
    OBVIOUS
  <2>1. CASE UNCHANGED acVars
    BY <2>1 DEF acVars, StartInductive, ServersFit, AdbClientTypeOK, AcOwners, OneOwner,
                LaunchedHasVersion, AckedHasBound, FitClient, TalksTo
  <2>2. CASE AdbClientNext
    BY <2>2, StartClient, StartServer DEF AdbClientNext
  <2> QED BY <2>1, <2>2
<1> QED BY <1>1, StartInitially, PTL DEF AdbClientSpec

\* The states of clients and servers keep their types.
THEOREM AdbClientTypeCorrect == AdbClientSpec => []AdbClientTypeOK
BY StartAlways, PTL DEF StartInductive

\* However many clients of however many versions kill and start servers at
\* the same time, a request goes to the server whose version its client has
\* checked, or that the client has started, unless that one has ended; and a
\* server of another version that takes its place was started by a client of
\* that version (adb_connect of adb_client.cpp, launch_server of adb.cpp).
THEOREM OwnVersionServes == AdbClientSpec => []ServedByOwnVersion
BY StartAlways, StartIsEnough, PTL

-----------------------------------------------------------------------------
(* LocalTransport: the inductive invariant *)

\* The transports that are on pending_list or on transport_list.
LtRegistered == {t \in LtObjects : ltT[t].st \in {"pending", "listed", "closed"}}

LtSerialsDiffer ==
  \A t, u \in LtRegistered : t # u => ltT[t].port # ltT[u].port

LtKickedHasNoSlot ==
  \A t \in LtObjects : ltT[t].kicked = TRUE => \A i \in 1..LtSlots : ltSlot[i] # t

\* A thread that is about to register an object has it for itself, and the
\* object has the port that the thread connected to.
LtHasObject ==
  /\ \A c \in LtThreads :
       ltConn[c].pc = "list" =>
         /\ ltConn[c].t \in LtObjects
         /\ ltT[ltConn[c].t].st = "init"
         /\ ltT[ltConn[c].t].port = ltConn[c].port
  /\ \A c, d \in LtThreads :
       c # d /\ ltConn[c].pc = "list" /\ ltConn[d].pc = "list" => ltConn[c].t # ltConn[d].t

\* client_socket_thread connects to the first of its ports.
LtHasPort == ltConn["client"].pc # "idle" => ltThr.pc = "retry" /\ ltThr.ports # <<>>

LtInductive ==
  /\ LocalTransportTypeOK /\ LtSerialsDiffer /\ LtKickedHasNoSlot
  /\ LtHasObject /\ LtHasPort

LtObject == [st : {"none", "init", "pending", "listed", "closed"},
             port : LtPorts, kicked : BOOLEAN]
LtConnection == [pc : {"idle", "dial", "slot", "list", "ok", "fail"},
                 port : LtPorts, t : LtObjects \cup {0}]

LEMMA LtInitOK == LocalTransportInit => LtInductive
<1> SUFFICES ASSUME LocalTransportInit PROVE LtInductive
  OBVIOUS
<1> USE LocalTransportAssumption
<1> DEFINE p == CHOOSE q \in LtPorts : TRUE
           all == {[port |-> q, count |-> 1] : q \in LtPorts}
           f == [q \in LtPorts |-> [port |-> q, count |-> 1]]
           s == SetToSeq(all)
<1>1. p \in LtPorts
  OBVIOUS
<1>2. IsFiniteSet(all)
  <2>1. f \in Surjection(LtPorts, all)
    BY DEF Surjection
  <2> QED
    BY <2>1, FS_Surjection
<1>3. s \in Seq(LtRetryPort)
  <2>1. Cardinality(all) \in Nat /\ ExistsBijection(1..Cardinality(all), all)
    BY <1>2, FS_CardinalityType
  <2>2. all \subseteq LtRetryPort
    BY DEF LtRetryPort
  <2> HIDE DEF all
  <2>3. \E g \in [1..Cardinality(all) -> all] : IsInjective(g)
    BY <2>1 DEF ExistsBijection, Bijection, Injection
  <2>4. s \in [1..Cardinality(all) -> all]
    BY <2>3 DEF SetToSeq
  <2>5. s \in [1..Cardinality(all) -> LtRetryPort]
    BY <2>2, <2>4
  <2>6. Seq(LtRetryPort) = UNION {[1..n -> LtRetryPort] : n \in Nat}
    BY SeqDef
  <2> HIDE DEF s
  <2> QED
    BY <2>1, <2>5, <2>6, Zenon
<1> HIDE DEF p, s
<1>4. /\ ltUp \in SUBSET LtPorts
      /\ ltT = [t \in LtObjects |-> [st |-> "none", port |-> p, kicked |-> FALSE]]
      /\ ltConn = [c \in LtThreads |-> [pc |-> "idle", port |-> p, t |-> 0]]
      /\ ltSlot = [i \in 1..LtSlots |-> 0]
      /\ ltRetry = <<>>
      /\ ltThr = [pc |-> "retry", next |-> <<>>, ports |-> s]
      /\ ltGaveUp = {} /\ ltKicks = 0 /\ ltAsks = 0
  BY DEF LocalTransportInit, p, s
<1>5. LocalTransportTypeOK
  <2>1. ltT \in [LtObjects -> LtObject] /\ ltConn \in [LtThreads -> LtConnection]
    BY <1>1, <1>4 DEF LtObject, LtConnection
  <2>2. <<>> \in Seq(LtRetryPort)
    BY EmptySeq
  <2>3. ltThr \in [pc : {"collect", "retry"}, ports : Seq(LtRetryPort), next : Seq(LtRetryPort)]
    BY <1>3, <1>4, <2>2
  <2> QED
    BY <1>4, <2>1, <2>2, <2>3 DEF LocalTransportTypeOK, LtObject, LtConnection
<1>6. LtSerialsDiffer /\ LtKickedHasNoSlot /\ LtHasObject /\ LtHasPort
  BY <1>4 DEF LtSerialsDiffer, LtRegistered, LtKickedHasNoSlot, LtHasObject, LtHasPort, LtThreads
<1> QED
  BY <1>5, <1>6 DEF LtInductive

\* LtInductive, with what it says of the objects and of the threads in the
\* words of the lemmas below.
LEMMA LtTypes ==
  ASSUME LtInductive
  PROVE  /\ ltT \in [LtObjects -> LtObject] /\ ltConn \in [LtThreads -> LtConnection]
         /\ ltSlot \in [1..LtSlots -> LtObjects \cup {0}]
BY DEF LtInductive, LocalTransportTypeOK, LtObject, LtConnection

\* A thread that goes on without an object, while the objects rest.
LEMMA LtConnOK ==
  ASSUME LtInductive, NEW c \in LtThreads, NEW r \in LtConnection,
         r.pc # "list",
         ltConn' = [ltConn EXCEPT ![c] = r],
         UNCHANGED <<ltT, ltSlot, ltUp, ltRetry, ltKicks>>,
         ltAsks' \in 0..LtMaxAsks, ltGaveUp' \subseteq LtPorts,
         ltThr' \in [pc : {"collect", "retry"}, ports : Seq(LtRetryPort), next : Seq(LtRetryPort)],
         ltConn'["client"].pc # "idle" => ltThr'.pc = "retry" /\ ltThr'.ports # <<>>
  PROVE  LtInductive'
<1>1. ltConn' \in [LtThreads -> LtConnection]
  BY LtTypes
<1>2. \A d \in LtThreads : ltConn'[d].pc = "list" => d # c /\ ltConn'[d] = ltConn[d]
  BY LtTypes
<1>3. LtHasObject'
  BY <1>2 DEF LtInductive, LtHasObject
<1>4. LtHasPort'
  BY DEF LtHasPort
<1>5. LtSerialsDiffer' /\ LtKickedHasNoSlot'
  BY DEF LtInductive, LtSerialsDiffer, LtRegistered, LtKickedHasNoSlot
<1>6. LocalTransportTypeOK'
  BY <1>1 DEF LtInductive, LocalTransportTypeOK, LtConnection
<1> QED
  BY <1>3, <1>4, <1>5, <1>6 DEF LtInductive

\* An object that changes while the threads and the slots rest: it does not
\* become registered, and no thread is about to register it.
LEMMA LtObjectOK ==
  ASSUME LtInductive, NEW t \in LtObjects, NEW r \in LtObject,
         ltT[t].st # "init", r.port = ltT[t].port,
         r.st \in {"pending", "listed", "closed"} =>
           ltT[t].st \in {"pending", "listed", "closed"},
         r.kicked = TRUE => \A i \in 1..LtSlots : ltSlot'[i] # t,
         ltT' = [ltT EXCEPT ![t] = r],
         ltSlot' = ltSlot \/ ltSlot' = LtKicked(t),
         UNCHANGED <<ltConn, ltThr, ltUp, ltAsks>>,
         ltKicks' \in 0..LtMaxKicks, ltGaveUp' \subseteq LtPorts,
         ltRetry' \in Seq(LtRetryPort)
  PROVE  LtInductive'
<1>1. /\ ltT' \in [LtObjects -> LtObject]
      /\ ltT'[t] = r /\ \A u \in LtObjects \ {t} : ltT'[u] = ltT[u]
  BY LtTypes
<1>2. /\ ltSlot' \in [1..LtSlots -> LtObjects \cup {0}]
      /\ \A i \in 1..LtSlots : ltSlot'[i] \in {0, ltSlot[i]}
  BY LtTypes DEF LtKicked
<1>3. LtHasObject'
  BY <1>1 DEF LtInductive, LtHasObject
<1>4. LtHasPort'
  BY DEF LtInductive, LtHasPort
<1>5. LtSerialsDiffer'
  BY <1>1 DEF LtInductive, LtSerialsDiffer, LtRegistered
<1>6. LtKickedHasNoSlot'
  BY <1>1, <1>2, LocalTransportAssumption DEF LtInductive, LtKickedHasNoSlot
<1>7. LocalTransportTypeOK'
  BY <1>1, <1>2 DEF LtInductive, LocalTransportTypeOK, LtObject
<1> QED
  BY <1>3, <1>4, <1>5, <1>6, <1>7 DEF LtInductive

\* local_connect_arbitrary_ports decides whether to dial.
LEMMA LtChecks ==
  ASSUME NEW c \in LtThreads, NEW p \in LtPorts, LtCheck(c, p)
  PROVE  \E r \in LtConnection :
           r.pc \in {"dial", "fail"} /\ ltConn' = [ltConn EXCEPT ![c] = r]
<1>1. PICK found \in LtFound(p) :
        ltConn' = [ltConn EXCEPT ![c] =
          [pc |-> IF found \/ \E t \in LtObjects : LtListed(t) /\ ltT[t].port = p
                  THEN "fail" ELSE "dial",
           port |-> p, t |-> 0]]
  BY DEF LtCheck
<1> DEFINE pc == IF found \/ \E t \in LtObjects : LtListed(t) /\ ltT[t].port = p
                 THEN "fail" ELSE "dial"
           r == [pc |-> pc, port |-> p, t |-> 0]
<1>2. pc \in {"dial", "fail"}
  OBVIOUS
<1>3. ltConn' = [ltConn EXCEPT ![c] = r]
  BY <1>1
<1> HIDE DEF pc
<1>4. r \in LtConnection /\ r.pc \in {"dial", "fail"}
  BY <1>2 DEF LtConnection
<1> QED
  BY <1>3, <1>4

\* LtGoto changes the step of a thread.
LEMMA LtGoes ==
  ASSUME LtInductive, NEW c \in LtThreads, NEW pc,
         pc \in {"idle", "dial", "slot", "ok", "fail"}, LtGoto(c, pc)
  PROVE  \E r \in LtConnection : r.pc = pc /\ ltConn' = [ltConn EXCEPT ![c] = r]
<1> DEFINE r == [ltConn[c] EXCEPT !.pc = pc]
<1>1. ltConn[c] \in LtConnection
  BY LtTypes
<1>2. r \in LtConnection /\ r.pc = pc
  BY <1>1 DEF LtConnection
<1>3. ltConn' = [ltConn EXCEPT ![c] = r]
  BY DEF LtGoto
<1> QED
  BY <1>2, <1>3

LEMMA LtDialOK ==
  ASSUME LtInductive, NEW c \in LtThreads, LtDial(c)
  PROVE  LtInductive'
<1>1. PICK pc \in {"slot", "fail"} : LtGoto(c, pc)
  BY DEF LtDial
<1>2. PICK r \in LtConnection : r.pc = pc /\ ltConn' = [ltConn EXCEPT ![c] = r]
  BY <1>1, LtGoes
<1>3. ltConn[c].pc = "dial" /\ UNCHANGED <<ltUp, ltT, ltSlot, ltRetry, ltThr, ltGaveUp, ltKicks, ltAsks>>
  BY DEF LtDial
<1>4. ltConn'["client"].pc # "idle" => ltThr'.pc = "retry" /\ ltThr'.ports # <<>>
  BY <1>2, <1>3, LtTypes DEF LtInductive, LtHasPort, LtThreads
<1> QED
  BY <1>2, <1>3, <1>4, LtConnOK DEF LtInductive, LocalTransportTypeOK

LEMMA LtTakeSlotOK ==
  ASSUME LtInductive, NEW c \in LtThreads, LtTakeSlot(c)
  PROVE  LtInductive'
<1>1. ltConn[c].pc = "slot" /\ UNCHANGED <<ltUp, ltRetry, ltThr, ltGaveUp, ltKicks, ltAsks>>
  BY DEF LtTakeSlot
<1>2. CASE LtGoto(c, "fail") /\ UNCHANGED <<ltT, ltSlot>>
  <2>1. PICK r \in LtConnection : r.pc = "fail" /\ ltConn' = [ltConn EXCEPT ![c] = r]
    BY <1>2, LtGoes
  <2>2. ltConn'["client"].pc # "idle" => ltThr'.pc = "retry" /\ ltThr'.ports # <<>>
    BY <1>1, <2>1, LtTypes DEF LtInductive, LtHasPort, LtThreads
  <2> QED
    BY <1>1, <1>2, <2>1, <2>2, LtConnOK DEF LtInductive, LocalTransportTypeOK
<1>3. CASE ~(LtGoto(c, "fail") /\ UNCHANGED <<ltT, ltSlot>>)
  <2> DEFINE p == ltConn[c].port
             free == {i \in 1..LtSlots : ltSlot[i] = 0}
             j == CHOOSE i \in free : \A k \in free : i <= k
  <2>1. PICK t \in LtObjects :
          /\ ltT[t].st = "none" /\ \A i \in 1..LtSlots : ltSlot[i] # t
          /\ ltT' = [ltT EXCEPT ![t] = [st |-> "init", port |-> p, kicked |-> FALSE]]
          /\ ltSlot' = [ltSlot EXCEPT ![j] = t]
          /\ ltConn' = [ltConn EXCEPT ![c].pc = "list", ![c].t = t]
    BY <1>3 DEF LtTakeSlot
  <2> DEFINE o == [st |-> "init", port |-> p, kicked |-> FALSE]
             r == [ltConn[c] EXCEPT !.pc = "list", !.t = t]
  <2> HIDE DEF j
  <2>2. ltConn[c] \in LtConnection /\ p \in LtPorts
    BY LtTypes DEF LtConnection
  <2>3. r \in LtConnection /\ r.pc = "list" /\ r.t = t /\ r.port = p
    BY <2>2 DEF LtConnection
  <2>4. ltConn' = [ltConn EXCEPT ![c] = r]
    BY <2>1
  <2> HIDE DEF r
  <2>5. /\ ltConn' \in [LtThreads -> LtConnection]
        /\ ltConn'[c] = r /\ \A d \in LtThreads \ {c} : ltConn'[d] = ltConn[d]
    BY <2>3, <2>4, LtTypes
  <2>6. o \in LtObject
    BY <2>2 DEF LtObject
  <2>7. /\ ltT' \in [LtObjects -> LtObject]
        /\ ltT'[t] = o /\ \A u \in LtObjects \ {t} : ltT'[u] = ltT[u]
    BY <2>1, <2>6, LtTypes
  <2>8. /\ ltSlot' \in [1..LtSlots -> LtObjects \cup {0}]
        /\ \A i \in 1..LtSlots : ltSlot'[i] \in {t, ltSlot[i]}
    BY <2>1, LtTypes
  <2>9. LtHasObject'
    <3>1. \A d \in LtThreads \ {c} : ltConn[d].pc = "list" => ltConn[d].t # t
      BY <2>1 DEF LtInductive, LtHasObject
    <3> QED
      BY <2>3, <2>5, <2>7, <3>1 DEF LtInductive, LtHasObject
  <2>10. LtHasPort'
    BY <1>1, <2>5 DEF LtInductive, LtHasPort, LtThreads
  <2>11. LtSerialsDiffer'
    BY <2>7 DEF LtInductive, LtSerialsDiffer, LtRegistered
  <2>12. LtKickedHasNoSlot'
    BY <2>7, <2>8 DEF LtInductive, LtKickedHasNoSlot
  <2>13. LocalTransportTypeOK'
    BY <1>1, <2>5, <2>7, <2>8 DEF LtInductive, LocalTransportTypeOK, LtObject, LtConnection
  <2> QED
    BY <2>9, <2>10, <2>11, <2>12, <2>13 DEF LtInductive
<1> QED
  BY <1>2, <1>3

LEMMA LtRegisterOK ==
  ASSUME LtInductive, NEW c \in LtThreads, LtRegister(c)
  PROVE  LtInductive'
<1> DEFINE t == ltConn[c].t
           taken == LtTaken(ltConn[c].port)
           o == [ltT[t] EXCEPT !.st = IF taken THEN "none" ELSE "pending"]
           r == [ltConn[c] EXCEPT !.pc = IF taken THEN "fail" ELSE "ok", !.t = 0]
<1>1. /\ ltConn[c].pc = "list"
      /\ ltT' = [ltT EXCEPT ![t] = o] /\ ltConn' = [ltConn EXCEPT ![c] = r]
      /\ UNCHANGED <<ltUp, ltSlot, ltRetry, ltThr, ltGaveUp, ltKicks, ltAsks>>
  BY DEF LtRegister
<1>2. /\ t \in LtObjects /\ ltT[t].st = "init" /\ ltT[t].port = ltConn[c].port
      /\ ltT[t] \in LtObject /\ ltConn[c] \in LtConnection
  BY <1>1, LtTypes DEF LtInductive, LtHasObject
<1>3. /\ o \in LtObject /\ o.port = ltT[t].port /\ o.kicked = ltT[t].kicked
      /\ o.st = IF taken THEN "none" ELSE "pending"
  BY <1>2 DEF LtObject
<1>4. r \in LtConnection /\ r.pc \in {"ok", "fail"}
  BY <1>2 DEF LtConnection
<1>5. ~taken => \A u \in LtRegistered : ltT[u].port # ltT[t].port
  BY <1>2 DEF LtTaken, LtRegistered, LtListed
<1> HIDE DEF o, r, taken
<1>6. /\ ltT' \in [LtObjects -> LtObject]
      /\ ltT'[t] = o /\ \A u \in LtObjects \ {t} : ltT'[u] = ltT[u]
  BY <1>1, <1>2, <1>3, LtTypes
<1>7. /\ ltConn' \in [LtThreads -> LtConnection]
      /\ ltConn'[c] = r /\ \A d \in LtThreads \ {c} : ltConn'[d] = ltConn[d]
  BY <1>1, <1>4, LtTypes
<1>8. LtHasObject'
  <2>1. \A d \in LtThreads \ {c} : ltConn[d].pc = "list" => ltConn[d].t # t
    BY <1>1 DEF LtInductive, LtHasObject
  <2> QED
    BY <1>4, <1>6, <1>7, <2>1 DEF LtInductive, LtHasObject
<1>9. LtHasPort'
  BY <1>1, <1>7 DEF LtInductive, LtHasPort, LtThreads
<1>10. LtSerialsDiffer'
  BY <1>2, <1>3, <1>5, <1>6 DEF LtInductive, LtSerialsDiffer, LtRegistered
<1>11. LtKickedHasNoSlot'
  BY <1>1, <1>3, <1>6 DEF LtInductive, LtKickedHasNoSlot
<1>12. LocalTransportTypeOK'
  BY <1>1, <1>6, <1>7 DEF LtInductive, LocalTransportTypeOK, LtObject, LtConnection
<1> QED
  BY <1>8, <1>9, <1>10, <1>11, <1>12 DEF LtInductive

\* client_socket_thread.
LtThread == [pc : {"collect", "retry"}, ports : Seq(LtRetryPort), next : Seq(LtRetryPort)]

LEMMA LtClientOK ==
  ASSUME LtInductive, LtCollect \/ LtTry \/ LtTried \/ LtCopyBack
  PROVE  LtInductive'
<1> USE DEF LtThreads
<1>1. /\ ltThr \in LtThread /\ ltRetry \in Seq(LtRetryPort) /\ <<>> \in Seq(LtRetryPort)
      /\ ltThr.ports \in Seq(LtRetryPort) /\ ltThr.next \in Seq(LtRetryPort)
  BY EmptySeq DEF LtInductive, LocalTransportTypeOK, LtThread
<1>2. CASE LtCollect \/ LtCopyBack
  <2>1. /\ ltThr' \in LtThread /\ ltRetry' \in Seq(LtRetryPort)
        /\ ltConn["client"].pc # "idle" => ltThr'.pc = "retry" /\ ltThr'.ports # <<>>
    <3>1. CASE LtCollect
      BY <1>1, <3>1 DEF LtCollect, LtThread
    <3>2. CASE LtCopyBack
      <4>1. ltRetry \o ltThr.next \in Seq(LtRetryPort)
        BY <1>1, ConcatProperties
      <4> QED
        BY <1>1, <3>2, <4>1 DEF LtCopyBack, LtThread, LtCopiedBack
    <3> QED
      BY <1>2, <3>1, <3>2
  <2>2. UNCHANGED <<ltUp, ltT, ltSlot, ltConn, ltGaveUp, ltKicks, ltAsks>>
    BY <1>2 DEF LtCollect, LtCopyBack
  <2> QED
    BY <2>1, <2>2 DEF LtInductive, LocalTransportTypeOK, LtSerialsDiffer, LtRegistered,
                      LtKickedHasNoSlot, LtHasObject, LtHasPort, LtThread
<1>3. CASE LtTry
  <2>1. /\ ltThr.pc = "retry" /\ ltThr.ports # <<>>
        /\ LtCheck("client", Head(ltThr.ports).port)
        /\ UNCHANGED <<ltUp, ltT, ltSlot, ltRetry, ltThr, ltGaveUp, ltKicks, ltAsks>>
    BY <1>3 DEF LtTry
  <2>2. Head(ltThr.ports) \in LtRetryPort
    BY <1>1, <2>1, HeadTailProperties
  <2>3. Head(ltThr.ports).port \in LtPorts
    BY <2>2 DEF LtRetryPort
  <2>4. PICK r \in LtConnection :
          r.pc \in {"dial", "fail"} /\ ltConn' = [ltConn EXCEPT !["client"] = r]
    BY <2>1, <2>3, LtChecks
  <2> QED
    BY <1>1, <2>1, <2>4, LtConnOK DEF LtInductive, LocalTransportTypeOK, LtThread
<1>4. CASE LtTried
  <2> DEFINE r == Head(ltThr.ports)
             again == ltConn["client"].pc = "fail" /\ r.count > 1
             n == IF again THEN Append(ltThr.next, [r EXCEPT !.count = r.count - 1])
                  ELSE ltThr.next
  <2>1. /\ ltConn["client"].pc \in {"ok", "fail"}
        /\ ltThr' = [ltThr EXCEPT !.ports = Tail(ltThr.ports), !.next = n]
        /\ ltGaveUp' = IF ltConn["client"].pc = "fail" /\ ~again
                       THEN ltGaveUp \cup {r.port} ELSE ltGaveUp
        /\ LtGoto("client", "idle")
        /\ UNCHANGED <<ltUp, ltT, ltSlot, ltRetry, ltKicks, ltAsks>>
    BY <1>4 DEF LtTried
  <2>2. ltThr.ports # <<>>
    BY <2>1 DEF LtInductive, LtHasPort
  <2>3. r \in LtRetryPort /\ Tail(ltThr.ports) \in Seq(LtRetryPort)
    BY <1>1, <2>2, HeadTailProperties
  <2>4. n \in Seq(LtRetryPort)
    <3>1. r.count \in 1..LtRetries
      BY <2>3 DEF LtRetryPort
    <3>2. again => r.count - 1 \in 1..LtRetries
      BY <3>1, LocalTransportAssumption
    <3>3. again => [r EXCEPT !.count = r.count - 1] \in LtRetryPort
      BY <2>3, <3>2 DEF LtRetryPort
    <3> QED
      BY <1>1, <3>3, AppendProperties
  <2> HIDE DEF n
  <2>5. ltThr' \in LtThread
    BY <1>1, <2>1, <2>3, <2>4 DEF LtThread
  <2>6. r.port \in LtPorts /\ ltGaveUp \subseteq LtPorts
    BY <2>3 DEF LtRetryPort, LtInductive, LocalTransportTypeOK
  <2>7. ltGaveUp' \subseteq LtPorts
    BY <2>1, <2>6
  <2>8. PICK q \in LtConnection : q.pc = "idle" /\ ltConn' = [ltConn EXCEPT !["client"] = q]
    BY <2>1, LtGoes
  <2>9. ltConn'["client"].pc = "idle"
    BY <2>8, LtTypes
  <2>10. ltAsks' \in 0..LtMaxAsks
    BY <2>1 DEF LtInductive, LocalTransportTypeOK
  <2> QED
    BY <2>1, <2>5, <2>7, <2>8, <2>9, <2>10, LtConnOK DEF LtThread
<1> QED
  BY <1>2, <1>3, <1>4

\* A client asks for a connection, and gets its answer.
LEMMA LtAskOK ==
  ASSUME LtInductive, LtAnswer \/ \E p \in LtPorts : LtAsk(p)
  PROVE  LtInductive'
<1> USE DEF LtThreads
<1>1. UNCHANGED <<ltUp, ltT, ltSlot, ltRetry, ltThr, ltGaveUp, ltKicks>>
  BY DEF LtAnswer, LtAsk
<1>2. ltAsks' \in 0..LtMaxAsks
  <2>1. ltAsks' = ltAsks \/ (ltAsks < LtMaxAsks /\ ltAsks' = ltAsks + 1)
    BY DEF LtAnswer, LtAsk
  <2>2. ltAsks \in 0..LtMaxAsks
    BY DEF LtInductive, LocalTransportTypeOK
  <2> QED
    BY <2>1, <2>2, LocalTransportAssumption
<1>3. CASE ltConn' = ltConn
  BY <1>1, <1>2, <1>3 DEF LtInductive, LocalTransportTypeOK, LtSerialsDiffer, LtRegistered,
                          LtKickedHasNoSlot, LtHasObject, LtHasPort
<1>4. CASE ltConn' # ltConn
  <2>1. PICK r \in LtConnection :
          r.pc # "list" /\ ltConn' = [ltConn EXCEPT !["service"] = r]
    <3>1. CASE LtAnswer
      BY <3>1, LtGoes DEF LtAnswer
    <3>2. CASE \E p \in LtPorts : LtAsk(p)
      <4>1. PICK p \in LtPorts : LtCheck("service", p)
        BY <1>4, <3>2 DEF LtAsk
      <4> QED
        BY <4>1, LtChecks
    <3> QED
      BY <3>1, <3>2
  <2>2. ltConn'["client"] = ltConn["client"]
    BY <2>1, LtTypes
  <2>3. ltConn'["client"].pc # "idle" => ltThr'.pc = "retry" /\ ltThr'.ports # <<>>
    BY <1>1, <2>2 DEF LtInductive, LtHasPort
  <2> QED
    BY <1>1, <1>2, <2>1, <2>3, LtConnOK DEF LtInductive, LocalTransportTypeOK
<1> QED
  BY <1>3, <1>4

\* The main thread lists and deletes, connections break and are closed.
LEMMA LtLifeOK ==
  ASSUME LtInductive, NEW t \in LtObjects, LtList(t) \/ LtKick(t) \/ LtClose(t) \/ LtDelete(t)
  PROVE  LtInductive'
<1>1. /\ ltT[t] \in LtObject /\ ltT[t].st \in {"pending", "listed", "closed"}
      /\ ltT[t].kicked \in BOOLEAN
  BY LtTypes DEF LtList, LtKick, LtClose, LtDelete, LtObject
<1>2. ltKicks' \in 0..LtMaxKicks
  BY LocalTransportAssumption
     DEF LtList, LtKick, LtClose, LtDelete, LtInductive, LocalTransportTypeOK
<1>3. ltGaveUp' \subseteq LtPorts
  BY DEF LtList, LtKick, LtClose, LtDelete, LtInductive, LocalTransportTypeOK
<1>4. ltRetry' \in Seq(LtRetryPort)
  <2>1. [port |-> ltT[t].port, count |-> LtRetries] \in LtRetryPort
    BY <1>1, LocalTransportAssumption DEF LtObject, LtRetryPort
  <2>2. ltRetry \in Seq(LtRetryPort)
    BY DEF LtInductive, LocalTransportTypeOK
  <2>3. Append(ltRetry, [port |-> ltT[t].port, count |-> LtRetries]) \in Seq(LtRetryPort)
    BY <2>1, <2>2, AppendProperties
  <2> QED
    BY <2>2, <2>3 DEF LtList, LtKick, LtClose, LtDelete
<1>5. UNCHANGED <<ltConn, ltThr, ltUp, ltAsks>> /\ (ltSlot' = ltSlot \/ ltSlot' = LtKicked(t))
  BY DEF LtList, LtKick, LtClose, LtDelete
<1>6. ltT[t].kicked = TRUE => \A i \in 1..LtSlots : ltSlot[i] # t
  BY DEF LtInductive, LtKickedHasNoSlot
<1>7. CASE LtKick(t)
  <2> DEFINE r == [ltT[t] EXCEPT !.kicked = TRUE]
  <2>1. ltT' = [ltT EXCEPT ![t] = r] /\ ltSlot' = LtKicked(t)
    BY <1>7 DEF LtKick
  <2>2. r \in LtObject /\ r.port = ltT[t].port /\ r.st = ltT[t].st
    BY <1>1 DEF LtObject
  <2> HIDE DEF r
  <2>3. \A i \in 1..LtSlots : ltSlot'[i] # t
    BY <2>1, LocalTransportAssumption DEF LtKicked
  <2> QED
    BY <1>1, <1>2, <1>3, <1>4, <1>5, <2>1, <2>2, <2>3, LtObjectOK
<1>8. CASE LtList(t) \/ LtClose(t)
  <2> DEFINE s == IF ltT[t].st = "pending" THEN "listed" ELSE "closed"
             r == [ltT[t] EXCEPT !.st = s]
  <2>1. ltT' = [ltT EXCEPT ![t] = r] /\ ltSlot' = ltSlot
    BY <1>8 DEF LtList, LtClose
  <2>2. r \in LtObject /\ r.port = ltT[t].port /\ r.kicked = ltT[t].kicked
    BY <1>1 DEF LtObject
  <2> HIDE DEF r
  <2> QED
    BY <1>1, <1>2, <1>3, <1>4, <1>5, <1>6, <2>1, <2>2, LtObjectOK
<1>9. CASE LtDelete(t)
  <2> DEFINE r == [ltT[t] EXCEPT !.st = "none", !.kicked = FALSE]
  <2>1. ltT' = [ltT EXCEPT ![t] = r] /\ ltSlot' = ltSlot
    BY <1>9 DEF LtDelete
  <2>2. r \in LtObject /\ r.port = ltT[t].port /\ r.kicked = FALSE /\ r.st = "none"
    BY <1>1 DEF LtObject
  <2> HIDE DEF r
  <2> QED
    BY <1>1, <1>2, <1>3, <1>4, <1>5, <2>1, <2>2, LtObjectOK
<1> QED
  BY <1>7, <1>8, <1>9

LEMMA LtAlways == LocalTransportSpec => []LtInductive
<1>1. LtInductive /\ [LocalTransportNext]_ltVars => LtInductive'
  <2> SUFFICES ASSUME LtInductive, [LocalTransportNext]_ltVars PROVE LtInductive'
    OBVIOUS
  <2>1. CASE UNCHANGED ltVars \/ \E p \in LtPorts : LtSwitch(p)
    <3>1. /\ ltUp' \subseteq LtPorts
          /\ UNCHANGED <<ltT, ltSlot, ltRetry, ltThr, ltConn, ltGaveUp, ltKicks, ltAsks>>
      BY <2>1 DEF ltVars, LtSwitch, LtInductive, LocalTransportTypeOK
    <3> QED
      BY <3>1 DEF LtInductive, LocalTransportTypeOK, LtSerialsDiffer, LtRegistered,
                  LtKickedHasNoSlot, LtHasObject, LtHasPort
  <2>2. CASE \E c \in LtThreads : LtConnecting(c)
    BY <2>2, LtDialOK, LtTakeSlotOK, LtRegisterOK DEF LtConnecting
  <2>3. CASE LtCollect \/ LtTry \/ LtTried \/ LtCopyBack
    BY <2>3, LtClientOK
  <2>4. CASE LtAnswer \/ \E p \in LtPorts : LtAsk(p)
    BY <2>4, LtAskOK
  <2>5. CASE \E t \in LtObjects : LtList(t) \/ LtKick(t) \/ LtClose(t) \/ LtDelete(t)
    BY <2>5, LtLifeOK
  <2> QED
    BY <2>1, <2>2, <2>3, <2>4, <2>5
       DEF LocalTransportNext, LtClient, LtService, LtLife, LtThreads
<1> QED
  BY <1>1, LtInitOK, PTL DEF LocalTransportSpec

\* Slots, retries and threads of the emulator connections keep their types.
THEOREM LocalTransportTypeCorrect == LocalTransportSpec => []LocalTransportTypeOK
BY LtAlways, PTL DEF LtInductive

\* Whichever threads connect to an emulator while an earlier connection to
\* it is torn down, no two transports with its serial are registered at a
\* time (register_socket_transport), and a kicked one has no slot
\* (remote_kick).
THEOREM EmulatorHasOneTransport == LocalTransportSpec => []OneTransportPerEmulator
<1>1. LtInductive => OneTransportPerEmulator
  <2> SUFFICES ASSUME LtInductive PROVE OneTransportPerEmulator
    OBVIOUS
  <2>1. \A t \in LtObjects : ltT[t].kicked \in BOOLEAN
    BY LtTypes DEF LtObject
  <2>2. ASSUME NEW t \in LtObjects, ltT[t].kicked
        PROVE  \A i \in 1..LtSlots : ltSlot[i] # t
    <3>1. ltT[t].kicked = TRUE
      BY <2>1, <2>2, Zenon
    <3> QED
      BY <3>1 DEF LtInductive, LtKickedHasNoSlot
  <2>3. ASSUME NEW t \in LtObjects, NEW u \in LtObjects, t # u,
               ltT[t].st \in {"pending", "listed", "closed"},
               ltT[u].st \in {"pending", "listed", "closed"}
        PROVE  ltT[t].port # ltT[u].port
    BY <2>3 DEF LtInductive, LtSerialsDiffer, LtRegistered
  <2> QED
    BY <2>2, <2>3, Zenon DEF OneTransportPerEmulator
<1> QED
  BY <1>1, LtAlways, PTL

-----------------------------------------------------------------------------
(* The components together *)

\* The composition implements the specification of each of its components,
\* however they are interleaved.
THEOREM LinksImplementParts ==
  LinksSpec => /\ FdEventSpec /\ RunQueueSpec /\ UsbLinuxSpec
               /\ LocalTransportSpec /\ DaemonUsbSpec /\ AdbClientSpec
<1>1. LinksInit => /\ FdEventInit /\ RunQueueInit /\ UsbLinuxInit
                   /\ LocalTransportInit /\ DaemonUsbInit /\ AdbClientInit
  BY DEF LinksInit
<1>2. [LinksNext]_linksVars => [FdEventNext]_feVars
  BY DEF LinksNext, linksVars, rqOnly, ubOnly, ltOnly, duOnly, acOnly
<1>3. [LinksNext]_linksVars => [RunQueueNext]_rqVars
  BY DEF LinksNext, linksVars, feOnly, ubOnly, ltOnly, duOnly, acOnly
<1>4. [LinksNext]_linksVars => [UsbLinuxNext]_ubVars
  BY DEF LinksNext, linksVars, feOnly, rqOnly, ltOnly, duOnly, acOnly
<1>5. [LinksNext]_linksVars => [LocalTransportNext]_ltVars
  BY DEF LinksNext, linksVars, feOnly, rqOnly, ubOnly, duOnly, acOnly
<1>6. [LinksNext]_linksVars => [DaemonUsbNext]_duVars
  BY DEF LinksNext, linksVars, feOnly, rqOnly, ubOnly, ltOnly, acOnly
<1>7. [LinksNext]_linksVars => [AdbClientNext]_acVars
  BY DEF LinksNext, linksVars, feOnly, rqOnly, ubOnly, ltOnly, duOnly
<1> QED
  BY <1>1, <1>2, <1>3, <1>4, <1>5, <1>6, <1>7, PTL
     DEF LinksSpec, FdEventSpec, RunQueueSpec, UsbLinuxSpec, LocalTransportSpec,
         DaemonUsbSpec, AdbClientSpec

\* The state of every component below the transports keeps its type.
THEOREM LinksTypeCorrect == LinksSpec => []LinksTypeOK
BY LinksImplementParts, FdEventTypeCorrect, RunQueueTypeCorrect, UsbLinuxTypeCorrect,
   LocalTransportTypeCorrect, DaemonUsbTypeCorrect, AdbClientTypeCorrect, PTL
   DEF LinksTypeOK

\* The safety of the links and of the start of the server, together.
THEOREM LinksAreSafe ==
  LinksSpec => [](UsbHandleAlive /\ OneTransportPerEmulator
                  /\ KickHitsOwnEndpoints /\ ServedByOwnVersion)
BY LinksImplementParts, HandlesStayAlive, EmulatorHasOneTransport,
   KicksHitOwnEndpoints, OwnVersionServes, PTL
=============================================================================
