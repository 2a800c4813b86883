--------------------------- MODULE TransportProofs ---------------------------
(***************************************************************************)
(* Theorems about Transport, for any set of transports, for the server and *)
(* for adbd; about Auth and UsbLibusb; and about their composition in      *)
(* MCSession.                                                              *)
(***************************************************************************)
EXTENDS MCSession, Functions, FiniteSetTheorems, TLAPS

-----------------------------------------------------------------------------
(* Sequences *)

\* m occurs at most once in s.
Once(s, m) == \A i, j \in 1..Len(s) : s[i] = m /\ s[j] = m => i = j

\* The elements of s with m at its end are those of s, and m.
LEMMA RangeAppend ==
  ASSUME NEW S, NEW s \in Seq(S), NEW m \in S
  PROVE  \A x \in Range(Append(s, m)) : x \in Range(s) \/ x = m
  BY DEF Range

\* The head of s and the elements of its tail are elements of s.
LEMMA RangeTail ==
  ASSUME NEW S, NEW s \in Seq(S), s # <<>>
  PROVE  Head(s) \in Range(s) /\ Range(Tail(s)) \subseteq Range(s)
  BY DEF Range

\* Appending m to s leaves a k that is single in s single, if m is not
\* another k.
LEMMA OnceAppend ==
  ASSUME NEW S, NEW s \in Seq(S), NEW m \in S, NEW k \in S,
         Once(s, k), m = k => k \notin Range(s)
  PROVE  Once(Append(s, m), k)
  BY DEF Range, Once

\* What is single in s is single in its tail, and not there if it was the
\* head.
LEMMA OnceTail ==
  ASSUME NEW S, NEW s \in Seq(S), NEW k \in S, Once(s, k), s # <<>>
  PROVE  Once(Tail(s), k) /\ (Head(s) = k => k \notin Range(Tail(s)))
<1>1. \A i \in 1..Len(Tail(s)) : i + 1 \in 1..Len(s) /\ Tail(s)[i] = s[i + 1]
  OBVIOUS
<1>2. Once(Tail(s), k)
  BY <1>1 DEF Once
<1>3. ASSUME Head(s) = k, k \in Range(Tail(s)) PROVE FALSE
  <2>1. PICK i \in 1..Len(Tail(s)) : Tail(s)[i] = k
    BY <1>3 DEF Range
  <2>2. 1 \in 1..Len(s) /\ s[1] = k
    BY <1>3
  <2> QED BY <1>1, <2>1, <2>2 DEF Once
<1> QED BY <1>2, <1>3


-----------------------------------------------------------------------------
(* The inductive invariant *)

\* transport_lock is held across steps by exactly the threads inside a
\* kick_func, and what is being kicked is marked kicked.
LockInv ==
  /\ \A t \in Transports :
       /\ lock = <<"read", t>>  <=> rpc[t] = "kick_func"
       /\ lock = <<"write", t>> <=> wpc[t] = "kick_func"
       /\ lock = <<"main", t>>  <=> main = <<"kick_func", t>>
       /\ lock = <<"other", t>> <=> other = <<"kick_func", t>>
  /\ \A t \in Transports : wpc[t] = "kick_func" => kicked[t] = TRUE

\* Both threads are started together.  Before that, and for ever if t is
\* kCsNoPerm, nothing goes through its socket pair.
StartInv ==
  \A t \in Transports :
    /\ wpc[t] = "none" <=> rpc[t] = "none"
    /\ wpc[t] = "none" => up[t] = <<>> /\ down[t] = <<>> /\ online[t] = FALSE
    /\ phase[t] = "new" \/ noperm[t] = TRUE => wpc[t] = "none"

\* They are started by the only "add" message of t.
AddInv ==
  \A t \in Transports :
    /\ Once(reg, <<"add", t>>)
    /\ <<"add", t>> \in Range(reg) => phase[t] # "new" /\ wpc[t] = "none"

\* The write thread gets its first packet after t is on transport_list.
ListInv ==
  \A t \in Transports :
    down[t] # <<>> \/ wpc[t] \notin {"none", "recv"} => phase[t] \in {"listed", "freed"}

\* Once the write thread is through kick_transport nobody kicks t any more.
KickInv ==
  \A t \in Transports :
    wpc[t] \in {"unref", "close", "remove", "done"} => kicked[t] = TRUE /\ ~InKickFunc(t)

\* The thread that drops the last reference is alone with t.
ReleaseInv ==
  \A t \in Transports :
    /\ Releases(rpc[t]) => wpc[t] = "done"
    /\ Releases(wpc[t]) => rpc[t] = "done"
    /\ closed[t] = TRUE => ref[t] = 0 /\ wpc[t] # "none"

\* From the "remove" message on both threads are gone.
RemoveInv ==
  \A t \in Transports :
    <<"remove", t>> \in Range(reg) => rpc[t] = "done" /\ wpc[t] = "done"

FreeInv ==
  \A t \in Transports :
    main = <<"free", t>> \/ phase[t] = "freed" => rpc[t] = "done" /\ wpc[t] = "done"

Safe ==
  /\ RefCounts
  /\ LockInv
  /\ StartInv
  /\ AddInv
  /\ ListInv
  /\ KickInv
  /\ ReleaseInv
  /\ RemoveInv
  /\ FreeInv

Inv == TypeOK /\ Safe

-----------------------------------------------------------------------------
(* Type correctness *)

\* The state init_transport_registration leaves has the right types.
LEMMA InitType == Init => TypeOK
  BY TransportAssumption DEF Init, TypeOK, Phase, Read, Write, Leaving, Holder, Job, Idle, Free

\* Every step keeps the types; that ref_count stays a natural number needs
\* RefCounts: a thread that calls transport_unref has not dropped its reference.
LEMMA NextType == TypeOK /\ RefCounts /\ [Next]_vars => TypeOK'
<1> SUFFICES ASSUME TypeOK, RefCounts, [Next]_vars PROVE TypeOK'
  OBVIOUS
<1> USE DEF TypeOK, Phase, Read, Write, Leaving, Up, Down, Holder, Job, tvars
<1>1. CASE UNCHANGED vars
  BY <1>1 DEF vars
<1>2. ASSUME NEW t \in Transports, Register(t) PROVE TypeOK'
  BY <1>2 DEF Register
<1>3. ASSUME NEW t \in Transports, Unregister(t) PROVE TypeOK'
  BY <1>3 DEF Unregister
<1>4. ASSUME NEW t \in Transports, MainAdd(t) PROVE TypeOK'
  <2>1. reg' \in Seq({"add", "remove"} \X Transports) /\ main' = <<"list", t>>
    BY <1>4 DEF MainAdd, MainGets
  <2>2. CASE noperm[t]
    BY <1>4, <2>1, <2>2, SMTT(30) DEF MainAdd
  <2>3. CASE ~noperm[t]
    <3>1. /\ ref' = [ref EXCEPT ![t] = 2]
          /\ wpc' = [wpc EXCEPT ![t] = "recv"]
          /\ rpc' = [rpc EXCEPT ![t] = "start"]
      BY <1>4, <2>3 DEF MainAdd
    <3>2. UNCHANGED <<phase, noperm, active, kicked, broken, closed, online, used,
                      up, down, lock, other, cnxns, sends>>
      BY <1>4 DEF MainAdd
    <3>3. ref' \in [Transports -> 0..2]
      BY <3>1
    <3>4. wpc' \in [Transports -> Write] /\ rpc' \in [Transports -> Read]
      BY <3>1
    <3> QED BY <2>1, <3>2, <3>3, <3>4
  <2> QED BY <2>2, <2>3
<1>5. ASSUME NEW t \in Transports, MainList(t) PROVE TypeOK'
  BY <1>5 DEF MainList, Idle
<1>6. ASSUME NEW t \in Transports, MainRemove(t) PROVE TypeOK'
  <2>1. reg' \in Seq({"add", "remove"} \X Transports) /\ main' = <<"free", t>>
    BY <1>6 DEF MainRemove, MainGets
  <2>2. up' \in [Transports -> Seq(Up)] /\ down' \in [Transports -> Seq(Down)]
    BY <1>6 DEF MainRemove
  <2>3. UNCHANGED <<tvars, rpc, wpc, lock, other, cnxns, sends>>
    BY <1>6 DEF MainRemove
  <2> QED BY <2>1, <2>2, <2>3, SMTT(60)
<1>7. ASSUME NEW t \in Transports, MainFree(t) PROVE TypeOK'
  BY <1>7 DEF MainFree, Idle
<1>8. ASSUME NEW t \in Transports, Main(t) PROVE TypeOK'
  <2>1. CASE HandleSyncOnline(t)
    <3>1. Tail(up[t]) \in Seq(Up) /\ down[t] \in Seq(Down)
      BY <2>1 DEF HandleSyncOnline, MainReceives
    <3>2. \A s \in Seq(Down) : s \o <<"SYNC1">> \in Seq(Down) /\ s \o <<"SYNC1", "CNXN">> \in Seq(Down)
      OBVIOUS
    <3> QED BY <2>1, <3>1, <3>2 DEF HandleSyncOnline, MainReceives
  <2>2. CASE HandleCnxn(t)
    <3>1. used' \in [Transports -> BOOLEAN]
      BY <2>2 DEF HandleCnxn
    <3>2. down' \in [Transports -> Seq(Down)] /\ up' \in [Transports -> Seq(Up)]
      BY <2>2 DEF HandleCnxn, MainReceives
    <3> QED BY <2>2, <3>1, <3>2 DEF HandleCnxn, MainReceives
  <2>3. CASE HandleSyncOffline(t)
    BY <2>3 DEF HandleSyncOffline, MainReceives
  <2> QED BY <1>8, <2>1, <2>2, <2>3 DEF Main
<1>9. ASSUME NEW t \in Transports, UseTransport(t) PROVE TypeOK'
  BY <1>9 DEF UseTransport
<1>10. ASSUME NEW t \in Transports, MainKick(t) PROVE TypeOK'
  BY <1>10 DEF MainKick
<1>11. ASSUME NEW t \in Transports, MainKickLock(t) \/ MainKickFunc(t) PROVE TypeOK'
  <2>1. CASE MainKickLock(t)
    BY <2>1 DEF MainKickLock, KickLock, Kicks, Idle, Free
  <2>2. CASE MainKickFunc(t)
    BY <2>2 DEF MainKickFunc, KickFunc, Idle, Free
  <2> QED BY <1>11, <2>1, <2>2
<1>12. ASSUME NEW t \in Transports, OtherKick(t) PROVE TypeOK'
  BY <1>12 DEF OtherKick
<1>13. ASSUME NEW t \in Transports, OtherKickLock(t) \/ OtherKickFunc(t) PROVE TypeOK'
  <2>1. CASE OtherKickLock(t)
    BY <2>1 DEF OtherKickLock, KickLock, Kicks, Idle, Free
  <2>2. CASE OtherKickFunc(t)
    BY <2>2 DEF OtherKickFunc, KickFunc, Idle, Free
  <2> QED BY <1>13, <2>1, <2>2
<1>14. ASSUME NEW t \in Transports, ReadPacket(t) PROVE TypeOK'
  BY <1>14, SMTT(30) DEF ReadPacket
<1>15. ASSUME NEW t \in Transports, Reader(t) PROVE TypeOK'
  <2>1. CASE ReadStart(t)
    BY <2>1 DEF ReadStart
  <2>2. CASE ReadFails(t)
    BY <2>2 DEF ReadFails
  <2>3. CASE ReadOffline(t)
    BY <2>3 DEF ReadOffline
  <2>4. CASE ReadLeave(t)
    <3>1. UNCHANGED <<wpc, up, down, main, other, cnxns, sends>>
      BY <2>4 DEF ReadLeave
    <3>2. CASE LeaveKick(rpc, "read", t)
      BY <3>1, <3>2 DEF LeaveKick, KickLock, Kicks, Free
    <3>3. CASE LeaveKickFunc(rpc, t)
      BY <3>1, <3>3 DEF LeaveKickFunc, KickFunc, Free
    <3>4. CASE LeaveUnref(rpc, t)
      <4>1. rpc[t] = "unref" /\ Holds(rpc[t])
        BY <3>4 DEF LeaveUnref, Holds
      <4>2. ref[t] \in 1..2
        <5>1. ref[t] = One(Holds(rpc[t])) + One(Holds(wpc[t]))
          BY DEF RefCounts
        <5>2. One(Holds(wpc[t])) \in 0..1 /\ One(Holds(rpc[t])) = 1
          BY <4>1 DEF One
        <5> QED BY <5>1, <5>2
      <4>3. ref' \in [Transports -> 0..2]
        BY <3>4, <4>2 DEF LeaveUnref
      <4>4. rpc' \in [Transports -> Read]
        BY <3>4 DEF LeaveUnref
      <4> QED BY <3>1, <3>4, <4>3, <4>4 DEF LeaveUnref
    <3>5. CASE LeaveClose(rpc, t)
      BY <3>1, <3>5 DEF LeaveClose
    <3>6. CASE LeaveRemove(rpc, t)
      BY <3>1, <3>6 DEF LeaveRemove
    <3> QED BY <2>4, <3>2, <3>3, <3>4, <3>5, <3>6 DEF ReadLeave, Leave
  <2> QED BY <1>15, <2>1, <2>2, <2>3, <2>4 DEF Reader
<1>16. ASSUME NEW t \in Transports, Writer(t) PROVE TypeOK'
  <2>1. CASE WriteRecv(t)
    BY <2>1 DEF WriteRecv
  <2>2. CASE WriteDone(t)
    BY <2>2 DEF WriteDone
  <2>3. CASE WriteLeave(t)
    <3>1. UNCHANGED <<rpc, up, down, main, other, cnxns, sends>>
      BY <2>3 DEF WriteLeave
    <3>2. CASE LeaveKick(wpc, "write", t)
      BY <3>1, <3>2 DEF LeaveKick, KickLock, Kicks, Free
    <3>3. CASE LeaveKickFunc(wpc, t)
      BY <3>1, <3>3 DEF LeaveKickFunc, KickFunc, Free
    <3>4. CASE LeaveUnref(wpc, t)
      <4>1. wpc[t] = "unref" /\ Holds(wpc[t])
        BY <3>4 DEF LeaveUnref, Holds
      <4>2. ref[t] \in 1..2
        <5>1. ref[t] = One(Holds(rpc[t])) + One(Holds(wpc[t]))
          BY DEF RefCounts
        <5>2. One(Holds(rpc[t])) \in 0..1 /\ One(Holds(wpc[t])) = 1
          BY <4>1 DEF One
        <5> QED BY <5>1, <5>2
      <4>3. ref' \in [Transports -> 0..2]
        BY <3>4, <4>2 DEF LeaveUnref
      <4>4. wpc' \in [Transports -> Write]
        BY <3>4 DEF LeaveUnref
      <4> QED BY <3>1, <3>4, <4>3, <4>4 DEF LeaveUnref
    <3>5. CASE LeaveClose(wpc, t)
      BY <3>1, <3>5 DEF LeaveClose
    <3>6. CASE LeaveRemove(wpc, t)
      BY <3>1, <3>6 DEF LeaveRemove
    <3> QED BY <2>3, <3>2, <3>3, <3>4, <3>5, <3>6 DEF WriteLeave, Leave
  <2> QED BY <1>16, <2>1, <2>2, <2>3 DEF Writer
<1>17. ASSUME NEW t \in Transports, Unplug(t) PROVE TypeOK'
  BY <1>17 DEF Unplug
<1> QED BY <1>1, <1>2, <1>3, <1>4, <1>5, <1>6, <1>7, <1>8, <1>9, <1>10, <1>11, <1>12,
           <1>13, <1>14, <1>15, <1>16, <1>17 DEF Next, Registration, MainKicking, OtherKicking

-----------------------------------------------------------------------------
(* The inductive invariant is preserved *)

\* No transport exists yet.
LEMMA InitSafe == Init => Safe
  BY DEF Init, Safe, RefCounts, LockInv, StartInv, AddInv, ListInv, KickInv, ReleaseInv,
         RemoveInv, FreeInv, Once, Range, Holds, Releases, One, InKickFunc, Idle, Free

\* What is written to the registration socket pair.
Message == {"add", "remove"} \X Transports

\* What transport_registration_func knows of the messages that stay in the
\* registration socket pair after it has read one.
LEMMA TakeMessage ==
  ASSUME NEW s \in Seq(Message), s # <<>>,
         \A u \in Transports : Once(s, <<"add", u>>)
  PROVE  /\ Head(s) \in Range(s)
         /\ Range(Tail(s)) \subseteq Range(s)
         /\ \A u \in Transports : Once(Tail(s), <<"add", u>>)
         /\ \A u \in Transports : Head(s) = <<"add", u>> => <<"add", u>> \notin Range(Tail(s))
<1>1. \A u \in Transports : <<"add", u>> \in Message
  BY DEF Message
<1> QED BY <1>1, RangeTail, OnceTail

\* What is known of the registration socket pair after a message was written
\* to it.
LEMMA PutMessage ==
  ASSUME NEW s \in Seq(Message), NEW m \in Message,
         \A u \in Transports : Once(s, <<"add", u>>),
         \A u \in Transports : m = <<"add", u>> => m \notin Range(s)
  PROVE  /\ \A x \in Range(Append(s, m)) : x \in Range(s) \/ x = m
         /\ \A u \in Transports : Once(Append(s, m), <<"add", u>>)
<1>1. \A u \in Transports : <<"add", u>> \in Message
  BY DEF Message
<1> QED BY <1>1, RangeAppend, OnceAppend

\* Registration, unregistration and the two halves of
\* transport_registration_func.
LEMMA RegistrationSafe ==
  ASSUME TypeOK, Safe
  PROVE  \A t \in Transports :
           \/ Register(t) \/ Unregister(t)
           \/ MainAdd(t) \/ MainList(t) \/ MainRemove(t) \/ MainFree(t)
           => Safe'
<1>1. ASSUME NEW t \in Transports, Register(t) PROVE Safe'
  <2>1. /\ <<"add", t>> \in Message /\ reg \in Seq(Message) /\ <<"add", t>> \notin Range(reg)
        /\ \A u \in Transports : Once(reg, <<"add", u>>)
    BY <1>1 DEF Register, TypeOK, Message, Safe, AddInv
  <2>2. /\ \A x \in Range(reg') : x \in Range(reg) \/ x = <<"add", t>>
        /\ \A u \in Transports : Once(reg', <<"add", u>>)
    BY <1>1, <2>1, PutMessage DEF Register
  <2>3. wpc[t] = "none"
    BY <1>1 DEF Register, Safe, StartInv
  <2>4. AddInv' /\ RemoveInv'
    BY <1>1, <2>2, <2>3 DEF Register, TypeOK, Safe, AddInv, RemoveInv
  <2>5. StartInv'
    BY <1>1, <2>3 DEF Register, TypeOK, Safe, StartInv
  <2>6. RefCounts' /\ LockInv' /\ ListInv' /\ KickInv' /\ ReleaseInv' /\ FreeInv'
    BY <1>1 DEF Register, TypeOK, Phase, Safe, RefCounts, LockInv, ListInv, KickInv, ReleaseInv,
                FreeInv, InKickFunc
  <2> QED BY <2>4, <2>5, <2>6 DEF Safe
<1>2. ASSUME NEW t \in Transports, MainAdd(t) PROVE Safe'
  <2>1. /\ reg # <<>> /\ Head(reg) = <<"add", t>> /\ reg' = Tail(reg) /\ reg \in Seq(Message)
        /\ \A u \in Transports : Once(reg, <<"add", u>>)
    BY <1>2 DEF MainAdd, MainGets, TypeOK, Message, Safe, AddInv
  <2>2. /\ Range(reg') \subseteq Range(reg) /\ <<"add", t>> \in Range(reg)
        /\ \A u \in Transports : Once(reg', <<"add", u>>)
        /\ <<"add", t>> \notin Range(reg')
    BY <2>1, TakeMessage
  <2>3. phase[t] # "new" /\ wpc[t] = "none" /\ rpc[t] = "none" /\ down[t] = <<>>
    BY <2>2 DEF Safe, AddInv, StartInv
  <2>4. /\ main = Idle /\ main' = <<"list", t>>
        /\ UNCHANGED <<phase, noperm, kicked, closed, online, up, down, lock, other>>
    BY <1>2 DEF MainAdd, MainGets
  <2>5. CASE noperm[t] = TRUE
    <3>1. UNCHANGED <<ref, rpc, wpc>>
      BY <1>2, <2>5 DEF MainAdd
    <3> QED BY <2>2, <2>3, <2>4, <3>1
            DEF Safe, RefCounts, LockInv, StartInv, AddInv, ListInv, KickInv, ReleaseInv,
                RemoveInv, FreeInv, InKickFunc, Idle
  <2>6. CASE noperm[t] = FALSE
    <3>1. /\ ref' = [ref EXCEPT ![t] = 2]
          /\ wpc' = [wpc EXCEPT ![t] = "recv"]
          /\ rpc' = [rpc EXCEPT ![t] = "start"]
      BY <1>2, <2>6 DEF MainAdd
    <3>2. AddInv' /\ RemoveInv'
      BY <2>2, <2>3, <2>4, <3>1 DEF TypeOK, Safe, AddInv, RemoveInv
    <3>3. RefCounts'
      BY <3>1 DEF TypeOK, Safe, RefCounts, Holds, One
    <3>4. StartInv' /\ ListInv' /\ ReleaseInv' /\ FreeInv'
      BY <2>3, <2>4, <2>6, <3>1 
         DEF TypeOK, Safe, StartInv, ListInv, ReleaseInv, FreeInv, Releases, RefCounts, Holds, One
    <3>5. LockInv' /\ KickInv'
      BY <2>3, <2>4, <3>1 DEF TypeOK, Safe, LockInv, KickInv, InKickFunc, Idle
    <3> QED BY <3>2, <3>3, <3>4, <3>5 DEF Safe
  <2>7. noperm[t] \in BOOLEAN
    BY DEF TypeOK
  <2> QED BY <2>5, <2>6, <2>7
<1>3. ASSUME NEW t \in Transports, MainRemove(t) PROVE Safe'
  <2>1. /\ reg # <<>> /\ Head(reg) = <<"remove", t>> /\ reg' = Tail(reg) /\ reg \in Seq(Message)
        /\ \A u \in Transports : Once(reg, <<"add", u>>)
    BY <1>3 DEF MainRemove, MainGets, TypeOK, Message, Safe, AddInv
  <2>2. /\ Range(reg') \subseteq Range(reg) /\ <<"remove", t>> \in Range(reg)
        /\ \A u \in Transports : Once(reg', <<"add", u>>)
    BY <2>1, TakeMessage
  <2>3. AddInv' /\ RemoveInv' /\ FreeInv'
    BY <1>3, <2>2 DEF MainRemove, tvars, Safe, AddInv, RemoveInv, FreeInv
  <2> QED BY <1>3, <2>3, SMTT(30)
          DEF MainRemove, MainGets, tvars, TypeOK, Safe, RefCounts, LockInv, StartInv, ListInv,
              KickInv, ReleaseInv, InKickFunc, Idle
<1> USE TransportAssumption DEF TypeOK, Phase, Read, Write, Leaving, Holder, Job, Safe, RefCounts,
        LockInv, StartInv, AddInv, ListInv, KickInv, ReleaseInv, RemoveInv, FreeInv, Holds,
        Releases, One, InKickFunc, Idle, Free, tvars
<1>4. ASSUME NEW t \in Transports, Unregister(t) PROVE Safe'
  BY <1>4 DEF Unregister
<1>5. ASSUME NEW t \in Transports, MainList(t) PROVE Safe'
  BY <1>5 DEF MainList
<1>6. ASSUME NEW t \in Transports, MainFree(t) PROVE Safe'
  BY <1>6 DEF MainFree
<1> QED BY <1>1, <1>2, <1>3, <1>4, <1>5, <1>6

\* The packets between the main thread and the threads of a transport.
LEMMA PacketSafe ==
  ASSUME TypeOK, Safe
  PROVE  \A t \in Transports :
           \/ HandleSyncOnline(t) \/ HandleCnxn(t) \/ HandleSyncOffline(t)
           \/ UseTransport(t) \/ ReadStart(t) \/ ReadPacket(t) \/ ReadFails(t)
           \/ ReadOffline(t) \/ WriteRecv(t) \/ WriteDone(t) \/ Unplug(t)
           => Safe'
<1> USE TransportAssumption DEF TypeOK, Phase, Read, Write, Leaving, Holder, Job, Safe, RefCounts,
        LockInv, StartInv, AddInv, ListInv, KickInv, ReleaseInv, RemoveInv, FreeInv, Holds,
        Releases, One, InKickFunc, Idle, Free, tvars
<1>1. ASSUME NEW t \in Transports, HandleSyncOnline(t) PROVE Safe'
  BY <1>1, SMTT(20) DEF HandleSyncOnline, MainReceives
<1>2. ASSUME NEW t \in Transports, HandleCnxn(t) PROVE Safe'
  BY <1>2, SMTT(20) DEF HandleCnxn, MainReceives
<1>3. ASSUME NEW t \in Transports, HandleSyncOffline(t) PROVE Safe'
  BY <1>3, SMTT(20) DEF HandleSyncOffline, MainReceives
<1>4. ASSUME NEW t \in Transports, UseTransport(t) PROVE Safe'
  BY <1>4, SMTT(20) DEF UseTransport
<1>5. ASSUME NEW t \in Transports, ReadStart(t) PROVE Safe'
  BY <1>5, SMTT(60) DEF ReadStart
<1>6. ASSUME NEW t \in Transports, ReadPacket(t) PROVE Safe'
  BY <1>6, SMTT(20) DEF ReadPacket
<1>7. ASSUME NEW t \in Transports, ReadFails(t) PROVE Safe'
  BY <1>7, SMTT(20) DEF ReadFails
<1>8. ASSUME NEW t \in Transports, ReadOffline(t) PROVE Safe'
  BY <1>8, SMTT(20) DEF ReadOffline
<1>9. ASSUME NEW t \in Transports, WriteRecv(t) PROVE Safe'
  <2>1. PICK s \in {"kick", "recv", "write"} : wpc' = [wpc EXCEPT ![t] = s]
    BY <1>9 DEF WriteRecv
  <2> QED BY <1>9, <2>1, SMTT(20) DEF WriteRecv
<1>10. ASSUME NEW t \in Transports, WriteDone(t) PROVE Safe'
  <2>1. /\ wpc[t] = "write"
        /\ UNCHANGED <<tvars, reg, rpc, up, down, lock, main, other>>
    BY <1>10 DEF WriteDone
  <2>2. PICK s \in {"kick", "recv"} : wpc' = [wpc EXCEPT ![t] = s]
    BY <1>10 DEF WriteDone
  <2>3. RefCounts' /\ StartInv' /\ AddInv' /\ RemoveInv' /\ ReleaseInv' /\ FreeInv'
    BY <2>1, <2>2, SMTT(20)
  <2>4. LockInv' /\ ListInv' /\ KickInv'
    BY <2>1, <2>2, SMTT(20)
  <2> QED BY <2>3, <2>4
<1>11. ASSUME NEW t \in Transports, Unplug(t) PROVE Safe'
  BY <1>11, SMTT(20) DEF Unplug
<1> QED BY <1>1, <1>2, <1>3, <1>4, <1>5, <1>6, <1>7, <1>8, <1>9, <1>10, <1>11

\* kick_transport from the main thread or from another one.
LEMMA KickSafe ==
  ASSUME TypeOK, Safe
  PROVE  \A t \in Transports :
           \/ MainKick(t) \/ MainKickLock(t) \/ MainKickFunc(t)
           \/ OtherKick(t) \/ OtherKickLock(t) \/ OtherKickFunc(t)
           => Safe'
<1> USE TransportAssumption DEF TypeOK, Phase, Read, Write, Leaving, Holder, Job, Safe, RefCounts,
        LockInv, StartInv, AddInv, ListInv, KickInv, ReleaseInv, RemoveInv, FreeInv, Holds,
        Releases, One, InKickFunc, Idle, Free, tvars
<1>1. ASSUME NEW t \in Transports, MainKick(t) PROVE Safe'
  BY <1>1, SMTT(20) DEF MainKick
<1>2. ASSUME NEW t \in Transports, MainKickLock(t) PROVE Safe'
  BY <1>2, SMTT(20) DEF MainKickLock, KickLock, Kicks
<1>3. ASSUME NEW t \in Transports, MainKickFunc(t) PROVE Safe'
  BY <1>3, SMTT(20) DEF MainKickFunc, KickFunc
<1>4. ASSUME NEW t \in Transports, OtherKick(t) PROVE Safe'
  BY <1>4, SMTT(20) DEF OtherKick
<1>5. ASSUME NEW t \in Transports, OtherKickLock(t) PROVE Safe'
  BY <1>5, SMTT(20) DEF OtherKickLock, KickLock, Kicks
<1>6. ASSUME NEW t \in Transports, OtherKickFunc(t) PROVE Safe'
  BY <1>6, SMTT(20) DEF OtherKickFunc, KickFunc
<1> QED BY <1>1, <1>2, <1>3, <1>4, <1>5, <1>6

\* The end of the read thread.
LEMMA ReadLeaveSafe ==
  ASSUME TypeOK, Safe
  PROVE  \A t \in Transports : ReadLeave(t) => Safe'
<1> DEFINE Rest == UNCHANGED <<wpc, up, down, main, other, cnxns, sends>>
<1>1. ASSUME NEW t \in Transports, LeaveRemove(rpc, t), Rest PROVE Safe'
  <2>1. /\ reg' = Append(reg, <<"remove", t>>)
        /\ reg \in Seq(Message) /\ <<"remove", t>> \in Message
        /\ \A u \in Transports : Once(reg, <<"add", u>>)
    BY <1>1 DEF LeaveRemove, TypeOK, Message, Safe, AddInv
  <2>2. /\ \A x \in Range(reg') : x \in Range(reg) \/ x = <<"remove", t>>
        /\ \A u \in Transports : Once(reg', <<"add", u>>)
    BY <2>1, PutMessage
  <2>3. rpc[t] = "remove" /\ rpc' = [rpc EXCEPT ![t] = "done"] /\ wpc[t] = "done" /\ wpc' = wpc
    BY <1>1 DEF LeaveRemove, Safe, ReleaseInv, Releases
  <2>4. AddInv' /\ RemoveInv'
    BY <1>1, <2>2, <2>3 DEF LeaveRemove, tvars, TypeOK, Safe, AddInv, RemoveInv
  <2>5. RefCounts' /\ LockInv' /\ StartInv' /\ ListInv' /\ KickInv' /\ ReleaseInv' /\ FreeInv'
    BY <1>1, <2>3, SMTT(30)
       DEF LeaveRemove, tvars, TypeOK, Safe, RefCounts, Holds, One, LockInv, StartInv, ListInv,
           KickInv, InKickFunc, ReleaseInv, Releases, FreeInv
  <2> QED BY <2>4, <2>5 DEF Safe
<1> USE TransportAssumption DEF TypeOK, Phase, Read, Write, Leaving, Holder, Job, Safe, RefCounts,
        LockInv, StartInv, AddInv, ListInv, KickInv, ReleaseInv, RemoveInv, FreeInv, Holds,
        Releases, One, InKickFunc, Idle, Free, tvars
<1>2. ASSUME NEW t \in Transports, LeaveKick(rpc, "read", t), Rest PROVE Safe'
  <2>1. RefCounts' /\ StartInv'
    BY <1>2, SMTT(20) DEF LeaveKick, KickLock, Kicks
  <2>2. AddInv' /\ ReleaseInv' /\ RemoveInv' /\ FreeInv'
    BY <1>2, SMTT(20) DEF LeaveKick, KickLock, Kicks
  <2>3. LockInv' /\ ListInv' /\ KickInv'
    BY <1>2, SMTT(20) DEF LeaveKick, KickLock, Kicks
  <2> QED BY <2>1, <2>2, <2>3
<1>3. ASSUME NEW t \in Transports, LeaveKickFunc(rpc, t), Rest PROVE Safe'
  <2>1. RefCounts' /\ StartInv' /\ AddInv' /\ ReleaseInv' /\ RemoveInv' /\ FreeInv'
    BY <1>3, SMTT(20) DEF LeaveKickFunc, KickFunc
  <2>2. LockInv' /\ ListInv' /\ KickInv'
    BY <1>3, SMTT(20) DEF LeaveKickFunc, KickFunc
  <2> QED BY <2>1, <2>2
<1>4. ASSUME NEW t \in Transports, LeaveUnref(rpc, t), Rest PROVE Safe'
  <2>1. RefCounts' /\ StartInv' /\ AddInv' /\ ReleaseInv' /\ RemoveInv' /\ FreeInv'
    BY <1>4, SMTT(20) DEF LeaveUnref
  <2>2. LockInv' /\ ListInv' /\ KickInv'
    BY <1>4, SMTT(20) DEF LeaveUnref
  <2> QED BY <2>1, <2>2
<1>5. ASSUME NEW t \in Transports, LeaveClose(rpc, t), Rest PROVE Safe'
  <2>1. RefCounts' /\ StartInv' /\ AddInv' /\ ReleaseInv' /\ RemoveInv' /\ FreeInv'
    BY <1>5, SMTT(20) DEF LeaveClose
  <2>2. LockInv' /\ ListInv' /\ KickInv'
    BY <1>5, SMTT(20) DEF LeaveClose
  <2> QED BY <2>1, <2>2
<1> HIDE DEF TypeOK, Safe
<1> QED BY <1>1, <1>2, <1>3, <1>4, <1>5 DEF ReadLeave, Leave

\* The end of the write thread.
LEMMA WriteLeaveSafe ==
  ASSUME TypeOK, Safe
  PROVE  \A t \in Transports : WriteLeave(t) => Safe'
<1> DEFINE Rest == UNCHANGED <<rpc, up, down, main, other, cnxns, sends>>
<1>1. ASSUME NEW t \in Transports, LeaveRemove(wpc, t), Rest PROVE Safe'
  <2>1. /\ reg' = Append(reg, <<"remove", t>>)
        /\ reg \in Seq(Message) /\ <<"remove", t>> \in Message
        /\ \A u \in Transports : Once(reg, <<"add", u>>)
    BY <1>1 DEF LeaveRemove, TypeOK, Message, Safe, AddInv
  <2>2. /\ \A x \in Range(reg') : x \in Range(reg) \/ x = <<"remove", t>>
        /\ \A u \in Transports : Once(reg', <<"add", u>>)
    BY <2>1, PutMessage
  <2>3. wpc[t] = "remove" /\ wpc' = [wpc EXCEPT ![t] = "done"] /\ rpc[t] = "done" /\ rpc' = rpc
    BY <1>1 DEF LeaveRemove, Safe, ReleaseInv, Releases
  <2>4. AddInv' /\ RemoveInv'
    BY <1>1, <2>2, <2>3 DEF LeaveRemove, tvars, TypeOK, Safe, AddInv, RemoveInv
  <2>5. RefCounts' /\ LockInv' /\ StartInv' /\ ListInv' /\ KickInv' /\ ReleaseInv' /\ FreeInv'
    BY <1>1, <2>3, SMTT(30)
       DEF LeaveRemove, tvars, TypeOK, Safe, RefCounts, Holds, One, LockInv, StartInv, ListInv,
           KickInv, InKickFunc, ReleaseInv, Releases, FreeInv
  <2> QED BY <2>4, <2>5 DEF Safe
<1> USE TransportAssumption DEF TypeOK, Phase, Read, Write, Leaving, Holder, Job, Safe, RefCounts,
        LockInv, StartInv, AddInv, ListInv, KickInv, ReleaseInv, RemoveInv, FreeInv, Holds,
        Releases, One, InKickFunc, Idle, Free, tvars
<1>2. ASSUME NEW t \in Transports, LeaveKick(wpc, "write", t), Rest PROVE Safe'
  <2>1. RefCounts' /\ StartInv' /\ AddInv' /\ ReleaseInv' /\ RemoveInv' /\ FreeInv'
    BY <1>2, SMTT(20) DEF LeaveKick, KickLock, Kicks
  <2>2. LockInv' /\ ListInv' /\ KickInv'
    BY <1>2, SMTT(60) DEF LeaveKick, KickLock, Kicks
  <2> QED BY <2>1, <2>2
<1>3. ASSUME NEW t \in Transports, LeaveKickFunc(wpc, t), Rest PROVE Safe'
  <2>1. RefCounts' /\ StartInv' /\ AddInv' /\ ReleaseInv' /\ RemoveInv' /\ FreeInv'
    BY <1>3, SMTT(20) DEF LeaveKickFunc, KickFunc
  <2>2. LockInv' /\ ListInv' /\ KickInv'
    BY <1>3, SMTT(20) DEF LeaveKickFunc, KickFunc
  <2> QED BY <2>1, <2>2
<1>4. ASSUME NEW t \in Transports, LeaveUnref(wpc, t), Rest PROVE Safe'
  <2>1. RefCounts' /\ StartInv' /\ AddInv' /\ ReleaseInv' /\ RemoveInv' /\ FreeInv'
    BY <1>4, SMTT(20) DEF LeaveUnref
  <2>2. LockInv' /\ ListInv' /\ KickInv'
    BY <1>4, SMTT(20) DEF LeaveUnref
  <2> QED BY <2>1, <2>2
<1>5. ASSUME NEW t \in Transports, LeaveClose(wpc, t), Rest PROVE Safe'
  <2>1. RefCounts' /\ StartInv' /\ AddInv' /\ ReleaseInv' /\ RemoveInv' /\ FreeInv'
    BY <1>5, SMTT(20) DEF LeaveClose
  <2>2. LockInv' /\ ListInv' /\ KickInv'
    BY <1>5, SMTT(20) DEF LeaveClose
  <2> QED BY <2>1, <2>2
<1> HIDE DEF TypeOK, Safe
<1> QED BY <1>1, <1>2, <1>3, <1>4, <1>5 DEF WriteLeave, Leave

\* Every step of Next preserves the safety part of the invariant.
LEMMA NextSafe == TypeOK /\ Safe /\ [Next]_vars => Safe'
<1> SUFFICES ASSUME TypeOK, Safe, [Next]_vars PROVE Safe'
  OBVIOUS
<1>1. CASE UNCHANGED vars
  BY <1>1 DEF vars, tvars, Safe, RefCounts, LockInv, StartInv, AddInv, ListInv, KickInv,
              ReleaseInv, RemoveInv, FreeInv, InKickFunc
<1>2. CASE Next
  BY <1>2, RegistrationSafe, PacketSafe, KickSafe, ReadLeaveSafe, WriteLeaveSafe
     DEF Next, Registration, Main, MainKicking, OtherKicking, Reader, Writer
<1> QED BY <1>1, <1>2

-----------------------------------------------------------------------------
(* Theorems *)

\* What makes a freed transport unreachable is the order imposed on its two
\* threads: the write thread is past kick_transport before the reference count
\* can reach zero.
LEMMA SafeProperties == TypeOK /\ Safe => NoUseAfterFree /\ CloseAfterKick
<1> SUFFICES ASSUME TypeOK, Safe, NEW t \in Transports
             PROVE  /\ phase[t] = "freed" => rpc[t] = "done" /\ wpc[t] = "done" /\ ~InKickFunc(t)
                    /\ Releases(rpc[t]) \/ Releases(wpc[t]) \/ closed[t] => kicked[t] /\ ~InKickFunc(t)
  BY DEF NoUseAfterFree, CloseAfterKick
<1>1. phase[t] = "freed" => rpc[t] = "done" /\ wpc[t] = "done"
  BY DEF Safe, FreeInv
<1>2. wpc[t] \in {"unref", "close", "remove", "done"} => kicked[t] /\ ~InKickFunc(t)
  BY DEF Safe, KickInv
<1>3. Releases(rpc[t]) \/ Releases(wpc[t]) => wpc[t] \in {"close", "remove", "done"}
  BY DEF Safe, ReleaseInv, Releases
<1>4. ASSUME closed[t] PROVE wpc[t] \in {"close", "remove", "done"}
  <2>1. ref[t] = 0 /\ wpc[t] # "none"
    BY <1>4 DEF Safe, ReleaseInv, TypeOK
  <2>2. ~Holds(wpc[t])
    BY <2>1 DEF Safe, RefCounts, One
  <2> QED BY <2>1, <2>2 DEF Holds
<1> QED BY <1>1, <1>2, <1>3, <1>4

\* The inductive invariant holds in every reachable state.
LEMMA InvInvariant == Spec => []Inv
<1>1. Init => Inv
  BY InitType, InitSafe DEF Inv
<1>2. Inv /\ [Next]_vars => Inv'
  <2>1. Inv => TypeOK /\ Safe /\ RefCounts
    BY DEF Inv, Safe
  <2> QED BY <2>1, NextType, NextSafe DEF Inv
<1> QED BY <1>1, <1>2, PTL DEF Spec

\* The variables of transport.cpp stay in their types; in particular the
\* reference count never goes below zero.
THEOREM TypeCorrect == Spec => []TypeOK
<1>1. Inv => TypeOK
  BY DEF Inv
<1> QED BY <1>1, InvInvariant, PTL

\* ref_count is the number of threads that still use the transport.
THEOREM RefCountsCorrect == Spec => []RefCounts
<1>1. Inv => RefCounts
  BY DEF Inv, Safe
<1> QED BY <1>1, InvInvariant, PTL

\* Neither a thread of a deleted transport nor a thread inside Kick uses it,
\* for any number of transports and of packets.
THEOREM FreedIsUnused == Spec => []NoUseAfterFree
<1>1. Inv => NoUseAfterFree
  BY SafeProperties DEF Inv
<1> QED BY <1>1, InvInvariant, PTL

\* t->close runs after the kick and never under it.
THEOREM ClosedIsKicked == Spec => []CloseAfterKick
<1>1. Inv => CloseAfterKick
  BY SafeProperties DEF Inv
<1> QED BY <1>1, InvInvariant, PTL

-----------------------------------------------------------------------------
(* The beginning and the end of a transport's life *)

\* In s every CNXN comes after a SYNC(1,token).
Covered(s) ==
  \A i \in 1..Len(s) : s[i] = "CNXN" => \E j \in 1..Len(s) : j < i /\ s[j] = "SYNC1"

\* The SYNC(1,token) of t has reached the write thread or is on its way there.
Synced(t) == active[t] = TRUE \/ "SYNC1" \in Range(down[t])

\* No CNXN overtakes the SYNC(1,token) between the read thread, the main
\* thread and the write thread.
PumpOf(t) ==
  /\ active[t] = TRUE \/ Covered(down[t])
  /\ Synced(t) \/ Covered(up[t])
  /\ rpc[t] = "read" => Synced(t) \/ "SYNC1" \in Range(up[t])

PumpInv == \A t \in Transports : PumpOf(t)

\* A transport that is being added is on pending_list.
ListingInv ==
  \A t \in Transports :
    /\ <<"add", t>> \in Range(reg) \/ main = <<"list", t>> => phase[t] = "pending"
    /\ main = <<"list", t>> => <<"add", t>> \notin Range(reg)

\* One of a, b, c, d and e holds if n does, and none otherwise.
OneOf(a, b, c, d, e, n) ==
  /\ n <=> (a \/ b \/ c \/ d \/ e)
  /\ a => ~(b \/ c \/ d \/ e)
  /\ b => ~(c \/ d \/ e)
  /\ c => ~(d \/ e)
  /\ d => ~e

\* A "remove" message of t is in the registration socket pair.
Queued(t) == <<"remove", t>> \in Range(reg)

\* Both threads have run and dropped their references.
Ended(t) == ref[t] = 0 /\ wpc[t] # "none"

\* ReleasedOnce, with the "remove" message of t as the only one.
ReleasedOf(t) ==
  OneOf(Releases(rpc[t]), Releases(wpc[t]), Queued(t), main = <<"free", t>>,
        phase[t] = "freed", Ended(t))

RequestInv == \A t \in Transports : Once(reg, <<"remove", t>>) /\ ReleasedOf(t)

Orderly == PumpInv /\ ListingInv /\ RequestInv

LEMMA CoveredEmpty == Covered(<<>>)
BY DEF Covered

LEMMA CoveredAppend ==
  ASSUME NEW S, NEW s \in Seq(S), NEW x \in S, Covered(s),
         x = "CNXN" => "SYNC1" \in Range(s)
  PROVE  Covered(Append(s, x))
<1>1. /\ Len(Append(s, x)) = Len(s) + 1 /\ Append(s, x)[Len(s) + 1] = x
      /\ \A i \in 1..Len(s) : Append(s, x)[i] = s[i]
  OBVIOUS
<1> SUFFICES ASSUME NEW i \in 1..(Len(s) + 1), Append(s, x)[i] = "CNXN"
             PROVE  \E j \in 1..(Len(s) + 1) : j < i /\ Append(s, x)[j] = "SYNC1"
  BY <1>1 DEF Covered
<1>2. CASE i \in 1..Len(s)
  <2>1. PICK j \in 1..Len(s) : j < i /\ s[j] = "SYNC1"
    BY <1>1, <1>2 DEF Covered
  <2> QED BY <1>1, <2>1
<1>3. CASE i = Len(s) + 1
  <2>1. PICK j \in 1..Len(s) : s[j] = "SYNC1"
    BY <1>1, <1>3 DEF Range
  <2> QED BY <1>1, <1>3, <2>1
<1> QED BY <1>2, <1>3

LEMMA CoveredTail ==
  ASSUME NEW S, NEW s \in Seq(S), s # <<>>, Covered(s)
  PROVE  /\ Head(s) # "CNXN"
         /\ Head(s) # "SYNC1" => Covered(Tail(s))
<1>1. 1 \in 1..Len(s) /\ Head(s) = s[1]
  OBVIOUS
<1>2. Head(s) # "CNXN"
  BY <1>1 DEF Covered
<1>3. ASSUME Head(s) # "SYNC1" PROVE Covered(Tail(s))
  <2>1. \A i \in 1..Len(Tail(s)) : i + 1 \in 1..Len(s) /\ Tail(s)[i] = s[i + 1]
    OBVIOUS
  <2> SUFFICES ASSUME NEW i \in 1..Len(Tail(s)), Tail(s)[i] = "CNXN"
               PROVE  \E j \in 1..Len(Tail(s)) : j < i /\ Tail(s)[j] = "SYNC1"
    BY DEF Covered
  <2>2. PICK j \in 1..Len(s) : j < i + 1 /\ s[j] = "SYNC1"
    BY <2>1 DEF Covered
  <2>3. j - 1 \in 1..Len(Tail(s)) /\ j - 1 < i
    BY <1>1, <1>3, <2>2
  <2>4. Tail(s)[j - 1] = "SYNC1"
    BY <2>1, <2>2, <2>3
  <2> QED BY <2>3, <2>4
<1> QED BY <1>2, <1>3

\* What is in s is its head or in its tail; and it is in s with x appended.
LEMMA RangeSplit ==
  ASSUME NEW S, NEW s \in Seq(S), NEW x \in S
  PROVE  /\ s # <<>> => \A y \in Range(s) : y = Head(s) \/ y \in Range(Tail(s))
         /\ Range(s) \subseteq Range(Append(s, x)) /\ x \in Range(Append(s, x))
<1>1. ASSUME s # <<>>, NEW y \in Range(s) PROVE y = Head(s) \/ y \in Range(Tail(s))
  <2>1. PICK i \in 1..Len(s) : s[i] = y
    BY <1>1 DEF Range
  <2>2. CASE i = 1
    BY <1>1, <2>1, <2>2
  <2>3. CASE i # 1
    <3>1. i - 1 \in 1..Len(Tail(s)) /\ Tail(s)[i - 1] = y
      BY <1>1, <2>1, <2>3
    <3>2. DOMAIN Tail(s) = 1..Len(Tail(s))
      BY <1>1
    <3> QED BY <3>1, <3>2 DEF Range
  <2> QED BY <2>2, <2>3
<1>2. Range(s) \subseteq Range(Append(s, x)) /\ x \in Range(Append(s, x))
  <2>1. /\ Len(Append(s, x)) = Len(s) + 1 /\ Append(s, x)[Len(s) + 1] = x
        /\ \A i \in 1..Len(s) : Append(s, x)[i] = s[i]
    OBVIOUS
  <2>2. Len(s) + 1 \in 1..Len(Append(s, x)) /\ 1..Len(s) \subseteq 1..Len(Append(s, x))
    BY <2>1
  <2>3. Range(Append(s, x)) = {Append(s, x)[i] : i \in 1..Len(Append(s, x))}
    BY DEF Range
  <2>4. Range(s) = {s[i] : i \in 1..Len(s)}
    BY DEF Range
  <2> QED BY <2>1, <2>2, <2>3, <2>4
<1> QED BY <1>1, <1>2

\* A transport whose packets rest.
LEMMA PumpRests ==
  ASSUME NEW u \in Transports, PumpOf(u), up'[u] = up[u], down'[u] = down[u],
         active'[u] = active[u], rpc'[u] = "read" => rpc[u] = "read"
  PROVE  PumpOf(u)'
BY DEF PumpOf, Synced

\* A packet is put into the half of t's socket pair towards the write thread.
LEMMA PumpDown ==
  ASSUME NEW t \in Transports, PumpOf(t), down[t] \in Seq(Down), NEW p \in Down,
         p = "CNXN" => Synced(t)
  PROVE  /\ active[t] = TRUE \/ Covered(Append(down[t], p))
         /\ Synced(t) => active[t] = TRUE \/ "SYNC1" \in Range(Append(down[t], p))
         /\ "SYNC1" \in Down /\ (p = "SYNC1" => "SYNC1" \in Range(Append(down[t], p)))
<1>1. Range(down[t]) \subseteq Range(Append(down[t], p)) /\ p \in Range(Append(down[t], p))
  BY RangeSplit
<1>2. active[t] = TRUE \/ Covered(Append(down[t], p))
  BY CoveredAppend DEF PumpOf, Synced
<1> QED BY <1>1, <1>2 DEF Synced, Down

\* transport_socket_events, the two threads and the socket pair's end keep
\* the order of the packets.
LEMMA PumpKept ==
  ASSUME TypeOK, Safe, Orderly, [Next]_vars
  PROVE  PumpInv'
<1>0. /\ \A u \in Transports : PumpOf(u) /\ up[u] \in Seq(Up) /\ down[u] \in Seq(Down)
                              /\ active[u] \in BOOLEAN
      /\ up \in [Transports -> Seq(Up)] /\ down \in [Transports -> Seq(Down)]
      /\ active \in [Transports -> BOOLEAN] /\ rpc \in [Transports -> Read]
  BY DEF TypeOK, Orderly, PumpInv
<1> DEFINE Calm == /\ up' = up /\ down' = down /\ active' = active
                   /\ \A u \in Transports : rpc'[u] = "read" => rpc[u] = "read"
           Alone(t) == \A u \in Transports \ {t} :
                         /\ up'[u] = up[u] /\ down'[u] = down[u] /\ active'[u] = active[u]
                         /\ rpc'[u] = rpc[u]
<1>1. Calm => PumpInv'
  BY <1>0, PumpRests DEF PumpInv
<1>2. ASSUME NEW t \in Transports, Alone(t), PumpOf(t)' PROVE PumpInv'
  BY <1>0, <1>2, PumpRests DEF PumpInv
<1> HIDE DEF Calm, Alone
<1>3. CASE UNCHANGED vars
  BY <1>1, <1>3 DEF vars, tvars, Calm
<1>4. ASSUME NEW t \in Transports,
             \/ Register(t) \/ Unregister(t) \/ MainAdd(t) \/ MainList(t) \/ MainFree(t)
             \/ MainKick(t) \/ MainKickLock(t) \/ MainKickFunc(t)
             \/ OtherKick(t) \/ OtherKickLock(t) \/ OtherKickFunc(t)
             \/ ReadFails(t) \/ ReadLeave(t) \/ WriteDone(t) \/ WriteLeave(t) \/ Unplug(t)
      PROVE  PumpInv'
  <2>1. up' = up /\ down' = down /\ active' = active
    BY <1>4 DEF Register, Unregister, MainAdd, MainList, MainFree, MainKick, MainKickLock,
                MainKickFunc, OtherKick, OtherKickLock, OtherKickFunc, ReadFails, ReadLeave,
                WriteDone, WriteLeave, Unplug, Leave, LeaveKick, LeaveKickFunc, LeaveUnref,
                LeaveClose, LeaveRemove, tvars
  <2>2. \/ rpc' = rpc
        \/ \E x \in Read \ {"read"} : rpc' = [rpc EXCEPT ![t] = x]
    <3>1. CASE MainAdd(t)
      BY <3>1 DEF MainAdd, Read
    <3>2. CASE ReadFails(t)
      BY <3>2 DEF ReadFails, Read
    <3>3. CASE ReadLeave(t)
      BY <3>3 DEF ReadLeave, Leave, LeaveKick, LeaveKickFunc, LeaveUnref, LeaveClose,
                  LeaveRemove, Read, Leaving
    <3> QED
      BY <1>4, <3>1, <3>2, <3>3
         DEF Register, Unregister, MainList, MainFree, MainKick, MainKickLock, MainKickFunc,
             OtherKick, OtherKickLock, OtherKickFunc, WriteDone, WriteLeave, Unplug
  <2> QED BY <1>0, <1>1, <2>1, <2>2 DEF Calm
<1>5. ASSUME NEW t \in Transports, MainRemove(t) PROVE PumpInv'
  <2>1. /\ up' = [up EXCEPT ![t] = <<>>] /\ down' = [down EXCEPT ![t] = <<>>]
        /\ active' = active /\ rpc' = rpc
    BY <1>5 DEF MainRemove, tvars
  <2>2. rpc[t] = "done"
    BY <1>5, RangeTail DEF MainRemove, MainGets, TypeOK, Safe, RemoveInv
  <2>3. PumpOf(t)'
    BY <1>0, <2>1, <2>2, CoveredEmpty DEF PumpOf
  <2> QED BY <1>0, <1>2, <2>1, <2>3 DEF Alone
<1>6. ASSUME NEW t \in Transports, HandleSyncOnline(t) PROVE PumpInv'
  <2> DEFINE d == Append(down[t], "SYNC1")
  <2>1. /\ up' = [up EXCEPT ![t] = Tail(up[t])] /\ active' = active /\ rpc' = rpc
        /\ up[t] # <<>> /\ Head(up[t]) = "SYNC1"
    BY <1>6 DEF HandleSyncOnline, MainReceives, tvars
  <2>2. down' = [down EXCEPT ![t] = d] \/ down' = [down EXCEPT ![t] = Append(d, "CNXN")]
    <3>1. down[t] \in Seq(Down) /\ "SYNC1" \in Down /\ "CNXN" \in Down
      BY <1>0 DEF Down
    <3>2. d = down[t] \o <<"SYNC1">> /\ Append(d, "CNXN") = down[t] \o <<"SYNC1", "CNXN">>
      BY <3>1, SMTT(30)
    <3> QED BY <1>6, <3>2 DEF HandleSyncOnline
  <2>3. /\ d \in Seq(Down) /\ (active[t] = TRUE \/ Covered(d)) /\ "SYNC1" \in Range(d)
        /\ "CNXN" \in Down
    <3>1. down[t] \in Seq(Down) /\ "SYNC1" \in Down /\ "CNXN" \in Down
      BY <1>0 DEF Down
    <3>2. (active[t] = TRUE \/ Covered(d)) /\ "SYNC1" \in Range(d)
      BY <1>0, <3>1, PumpDown
    <3> QED BY <3>1, <3>2
  <2>4. /\ active[t] = TRUE \/ Covered(Append(d, "CNXN"))
        /\ "SYNC1" \in Range(Append(d, "CNXN"))
    BY <2>3, CoveredAppend, RangeSplit
  <2> HIDE DEF d
  <2>5. PumpOf(t)'
    BY <1>0, <2>1, <2>2, <2>3, <2>4 DEF PumpOf, Synced
  <2> QED BY <1>0, <1>2, <2>1, <2>2, <2>5 DEF Alone
<1>7. ASSUME NEW t \in Transports, HandleCnxn(t) PROVE PumpInv'
  <2>1. /\ up' = [up EXCEPT ![t] = Tail(up[t])] /\ active' = active /\ rpc' = rpc
        /\ up[t] # <<>> /\ Head(up[t]) = "CNXN"
        /\ down' = down \/ down' = [down EXCEPT ![t] = Append(down[t], "CNXN")]
    BY <1>0, <1>7 DEF HandleCnxn, MainReceives
  <2>2. Synced(t)
    BY <1>0, <2>1, CoveredTail DEF PumpOf
  <2>3. /\ active[t] = TRUE \/ Covered(Append(down[t], "CNXN"))
        /\ active[t] = TRUE \/ "SYNC1" \in Range(Append(down[t], "CNXN"))
    BY <1>0, <2>2, PumpDown DEF Down
  <2>4. PumpOf(t)'
    BY <1>0, <2>1, <2>2, <2>3 DEF PumpOf, Synced
  <2> QED BY <1>0, <1>2, <2>1, <2>4 DEF Alone
<1>8. ASSUME NEW t \in Transports, HandleSyncOffline(t) PROVE PumpInv'
  <2>1. /\ up' = [up EXCEPT ![t] = Tail(up[t])] /\ active' = active /\ rpc' = rpc
        /\ up[t] # <<>> /\ Head(up[t]) = "SYNC0"
        /\ down' = [down EXCEPT ![t] = Append(down[t], "SYNC0")]
    BY <1>0, <1>8 DEF HandleSyncOffline, MainReceives
  <2>2. /\ active[t] = TRUE \/ Covered(Append(down[t], "SYNC0"))
        /\ Synced(t) => active[t] = TRUE \/ "SYNC1" \in Range(Append(down[t], "SYNC0"))
    BY <1>0, PumpDown DEF Down
  <2>3. Synced(t) \/ Covered(Tail(up[t]))
    BY <1>0, <2>1, CoveredTail DEF PumpOf
  <2>4. "SYNC1" \in Range(up[t]) => "SYNC1" \in Range(Tail(up[t]))
    BY <1>0, <2>1, RangeSplit DEF Up
  <2>5. PumpOf(t)'
    BY <1>0, <2>1, <2>2, <2>3, <2>4 DEF PumpOf, Synced
  <2> QED BY <1>0, <1>2, <2>1, <2>5 DEF Alone
<1>9. ASSUME NEW t \in Transports, UseTransport(t) PROVE PumpInv'
  <2>1. /\ up' = up /\ active' = active /\ rpc' = rpc
        /\ down' = [down EXCEPT ![t] = Append(down[t], "DATA")]
    BY <1>9 DEF UseTransport
  <2>2. /\ active[t] = TRUE \/ Covered(Append(down[t], "DATA"))
        /\ Synced(t) => active[t] = TRUE \/ "SYNC1" \in Range(Append(down[t], "DATA"))
    BY <1>0, PumpDown DEF Down
  <2>3. PumpOf(t)'
    BY <1>0, <2>1, <2>2 DEF PumpOf, Synced
  <2> QED BY <1>0, <1>2, <2>1, <2>3 DEF Alone
<1>10. ASSUME NEW t \in Transports, ReadStart(t) \/ ReadPacket(t) \/ ReadOffline(t)
       PROVE  PumpInv'
  <2>1. PICK p \in Up :
          /\ up' = [up EXCEPT ![t] = Append(up[t], p)] /\ active' = active /\ down' = down
          /\ p = "CNXN" => rpc[t] = "read" /\ rpc' = rpc
          /\ p = "SYNC1" => rpc' = [rpc EXCEPT ![t] = "read"]
          /\ p = "SYNC0" => rpc' = [rpc EXCEPT ![t] = "kick"]
    BY <1>10 DEF ReadStart, ReadPacket, ReadOffline, tvars, Up
  <2>2. Range(up[t]) \subseteq Range(Append(up[t], p)) /\ p \in Range(Append(up[t], p))
    BY <1>0, RangeSplit
  <2>3. Synced(t) \/ Covered(Append(up[t], p))
    BY <1>0, <2>1, CoveredAppend DEF PumpOf
  <2>4. PumpOf(t)'
    BY <1>0, <2>1, <2>2, <2>3 DEF PumpOf, Synced, Up
  <2>5. Alone(t)
    BY <1>0, <2>1 DEF Alone, Up
  <2> QED BY <1>2, <2>4, <2>5
<1>11. ASSUME NEW t \in Transports, WriteRecv(t) PROVE PumpInv'
  <2> DEFINE a == active[t] \/ Head(down[t]) = "SYNC1"
  <2>1. /\ up' = up /\ active' = [active EXCEPT ![t] = a] /\ rpc' = rpc
        /\ down[t] # <<>> /\ down' = [down EXCEPT ![t] = Tail(down[t])]
    BY <1>11 DEF WriteRecv
  <2>2. active[t] = TRUE \/ Head(down[t]) = "SYNC1" => a = TRUE
    BY Zenon
  <2>3. a = TRUE \/ Covered(Tail(down[t]))
    BY <1>0, <2>1, <2>2, CoveredTail DEF PumpOf
  <2>4. "SYNC1" \in Range(down[t]) => a = TRUE \/ "SYNC1" \in Range(Tail(down[t]))
    BY <1>0, <2>1, <2>2, RangeSplit DEF Down
  <2> HIDE DEF a
  <2>5. active'[t] = a /\ down'[t] = Tail(down[t]) /\ up'[t] = up[t] /\ rpc'[t] = rpc[t]
    BY <1>0, <2>1
  <2>6. PumpOf(t)'
    BY <1>0, <2>2, <2>3, <2>4, <2>5 DEF PumpOf, Synced
  <2> QED BY <1>0, <1>2, <2>1, <2>6 DEF Alone
<1> QED
  BY <1>3, <1>4, <1>5, <1>6, <1>7, <1>8, <1>9, <1>10, <1>11
     DEF Next, Registration, Main, MainKicking, OtherKicking, Reader, Writer


\* Adding: registration takes t from pending_list to transport_list once.
LEMMA ListingKept ==
  ASSUME TypeOK, Safe, Orderly, [Next]_vars
  PROVE  ListingInv'
<1>0. reg \in Seq(Message) /\ phase \in [Transports -> Phase] /\ wpc \in [Transports -> Write]
  BY DEF TypeOK, Message
<1>1. ASSUME reg' = reg, phase' = phase, \A u \in Transports : main' = <<"list", u>> => main = main'
      PROVE  ListingInv'
  BY <1>1 DEF Orderly, ListingInv
<1>2. ASSUME NEW t \in Transports, Register(t) PROVE ListingInv'
  <2>1. /\ phase[t] = "new" /\ phase' = [phase EXCEPT ![t] = "pending"] /\ main' = main
        /\ reg' = Append(reg, <<"add", t>>) /\ <<"add", t>> \in Message
    BY <1>2 DEF Register, Message
  <2>2. \A x \in Range(reg') : x \in Range(reg) \/ x = <<"add", t>>
    BY <1>0, <2>1, RangeAppend
  <2>3. main # <<"list", t>>
    BY <2>1 DEF Orderly, ListingInv
  <2> QED BY <1>0, <2>1, <2>2, <2>3 DEF Orderly, ListingInv
<1>3. ASSUME NEW t \in Transports, Unregister(t) PROVE ListingInv'
  BY <1>0, <1>3 DEF Unregister, Orderly, ListingInv
<1>4. ASSUME NEW t \in Transports, MainAdd(t) PROVE ListingInv'
  <2>1. /\ reg # <<>> /\ Head(reg) = <<"add", t>> /\ reg' = Tail(reg)
        /\ main = Idle /\ main' = <<"list", t>> /\ phase' = phase
    BY <1>4 DEF MainAdd, MainGets
  <2>2. \A u \in Transports : Once(reg, <<"add", u>>)
    BY DEF Safe, AddInv
  <2>3. /\ <<"add", t>> \in Range(reg) /\ Range(reg') \subseteq Range(reg)
        /\ <<"add", t>> \notin Range(reg')
    BY <1>0, <2>1, <2>2, TakeMessage
  <2> QED BY <2>1, <2>3 DEF Orderly, ListingInv
<1>5. ASSUME NEW t \in Transports, MainList(t) \/ MainFree(t) PROVE ListingInv'
  <2>1. PICK x \in Phase : phase' = [phase EXCEPT ![t] = x] /\ reg' = reg /\ main' = Idle
    BY <1>5 DEF MainList, MainFree, Phase
  <2>2. <<"add", t>> \notin Range(reg)
    <3>1. CASE MainList(t)
      BY <3>1 DEF MainList, Orderly, ListingInv
    <3>2. CASE MainFree(t)
      BY <3>2 DEF MainFree, Safe, FreeInv, AddInv
    <3> QED BY <1>5, <3>1, <3>2
  <2> QED BY <1>0, <2>1, <2>2 DEF Orderly, ListingInv, Idle
<1>6. ASSUME NEW t \in Transports, MainRemove(t) PROVE ListingInv'
  <2>1. reg # <<>> /\ reg' = Tail(reg) /\ main' = <<"free", t>> /\ phase' = phase
    BY <1>6 DEF MainRemove, MainGets, tvars
  <2>2. Range(reg') \subseteq Range(reg)
    BY <1>0, <2>1, RangeTail
  <2> QED BY <2>1, <2>2 DEF Orderly, ListingInv
<1>7. ASSUME NEW t \in Transports, reg' = Append(reg, <<"remove", t>>), UNCHANGED <<phase, main>>
      PROVE  ListingInv'
  <2>1. <<"remove", t>> \in Message
    BY DEF Message
  <2>2. \A x \in Range(reg') : x \in Range(reg) \/ x = <<"remove", t>>
    BY <1>0, <1>7, <2>1, RangeAppend
  <2> QED BY <1>7, <2>1, <2>2 DEF Orderly, ListingInv
<1>8. ASSUME NEW t \in Transports, ReadLeave(t) \/ WriteLeave(t) PROVE ListingInv'
  BY <1>1, <1>7, <1>8
     DEF ReadLeave, WriteLeave, Leave, LeaveKick, LeaveKickFunc, LeaveUnref, LeaveClose,
         LeaveRemove, tvars
<1>9. ASSUME NEW t \in Transports,
             \/ MainKick(t) \/ MainKickLock(t) \/ MainKickFunc(t)
             \/ OtherKick(t) \/ OtherKickLock(t) \/ OtherKickFunc(t)
      PROVE  ListingInv'
  BY <1>1, <1>9 DEF MainKick, MainKickLock, MainKickFunc, OtherKick, OtherKickLock,
                    OtherKickFunc, tvars, Idle
<1>10. ASSUME NEW t \in Transports,
              \/ Main(t) \/ UseTransport(t) \/ ReadStart(t) \/ ReadPacket(t) \/ ReadFails(t)
              \/ ReadOffline(t) \/ WriteRecv(t) \/ WriteDone(t) \/ Unplug(t)
       PROVE  ListingInv'
  BY <1>1, <1>10 DEF Main, HandleSyncOnline, HandleCnxn, HandleSyncOffline, UseTransport, ReadStart,
                     ReadPacket, ReadFails, ReadOffline, WriteRecv, WriteDone, Unplug, tvars
<1>11. CASE UNCHANGED vars
  BY <1>1, <1>11 DEF vars, tvars
<1> QED
  BY <1>2, <1>3, <1>4, <1>5, <1>6, <1>8, <1>9, <1>10, <1>11
     DEF Next, Registration, MainKicking, OtherKicking, Reader, Writer


\* Releasing: the ways a transport is let go of change one at a time.
LEMMA RequestKept ==
  ASSUME TypeOK, Safe, Orderly, [Next]_vars
  PROVE  RequestInv'
<1>0. /\ reg \in Seq(Message) /\ phase \in [Transports -> Phase]
      /\ wpc \in [Transports -> Write] /\ rpc \in [Transports -> Read]
      /\ ref \in [Transports -> 0..2]
      /\ \A u \in Transports :
           /\ Once(reg, <<"remove", u>>)
           /\ ReleasedOf(u)
  BY DEF TypeOK, Message, Orderly, RequestInv
\* Nothing of the life's end changes.
<1>1. ASSUME reg' = reg, phase' = phase, ref' = ref,
             \A u \in Transports :
               /\ Releases(rpc'[u]) <=> Releases(rpc[u])
               /\ Releases(wpc'[u]) <=> Releases(wpc[u])
               /\ (wpc'[u] = "none" <=> wpc[u] = "none")
               /\ (main' = <<"free", u>> <=> main = <<"free", u>>)
      PROVE  RequestInv'
  <2> SUFFICES ASSUME NEW u \in Transports
               PROVE  /\ Once(reg', <<"remove", u>>)
                      /\ ReleasedOf(u)'
    BY DEF RequestInv
  <2>1. (Ended(u)' <=> Ended(u)) /\ (Queued(u)' <=> Queued(u))
    BY <1>1 DEF Ended, Queued
  <2> QED BY <1>0, <1>1, <2>1 DEF ReleasedOf, OneOf
<1>2. ASSUME NEW t \in Transports,
             \/ Main(t) \/ UseTransport(t) \/ ReadPacket(t) \/ Unplug(t)
             \/ MainKick(t) \/ MainKickLock(t) \/ MainKickFunc(t)
             \/ OtherKick(t) \/ OtherKickLock(t) \/ OtherKickFunc(t)
      PROVE  RequestInv'
  <2>1. /\ reg' = reg /\ phase' = phase /\ ref' = ref /\ rpc' = rpc /\ wpc' = wpc
    BY <1>2 DEF Main, HandleSyncOnline, HandleCnxn, HandleSyncOffline, UseTransport, ReadPacket,
                Unplug, MainKick, MainKickLock, MainKickFunc, OtherKick, OtherKickLock,
                OtherKickFunc, tvars
  <2>2. \A u \in Transports : (main # <<"free", u>> /\ main' # <<"free", u>>) \/ main' = main
    <3>1. CASE MainKick(t) \/ MainKickLock(t) \/ MainKickFunc(t)
      BY <3>1 DEF MainKick, MainKickLock, MainKickFunc, Idle
    <3>2. CASE Main(t)
      BY <3>2 DEF Main, HandleSyncOnline, HandleCnxn, HandleSyncOffline
    <3> QED
      BY <1>2, <3>1, <3>2
         DEF UseTransport, ReadPacket, Unplug, OtherKick, OtherKickLock, OtherKickFunc
  <2> QED BY <1>1, <2>1, <2>2
<1>3. ASSUME NEW t \in Transports, ReadStart(t) \/ ReadFails(t) \/ ReadOffline(t)
      PROVE  RequestInv'
  <2>1. /\ reg' = reg /\ phase' = phase /\ ref' = ref /\ wpc' = wpc /\ main' = main
        /\ rpc[t] \in {"start", "read", "offline"}
        /\ \E x \in {"read", "offline", "kick"} : rpc' = [rpc EXCEPT ![t] = x]
    BY <1>3 DEF ReadStart, ReadFails, ReadOffline, tvars
  <2>2. \A u \in Transports : Releases(rpc'[u]) <=> Releases(rpc[u])
    BY <1>0, <2>1 DEF Releases
  <2> QED BY <1>1, <2>1, <2>2
<1>4. ASSUME NEW t \in Transports, WriteRecv(t) \/ WriteDone(t) PROVE RequestInv'
  <2>1. /\ reg' = reg /\ phase' = phase /\ ref' = ref /\ rpc' = rpc /\ main' = main
        /\ wpc[t] \in {"recv", "write"}
        /\ \E x \in {"recv", "write", "kick"} : wpc' = [wpc EXCEPT ![t] = x]
    BY <1>4 DEF WriteRecv, WriteDone, tvars
  <2>2. \A u \in Transports : /\ Releases(wpc'[u]) <=> Releases(wpc[u])
                              /\ (wpc'[u] = "none" <=> wpc[u] = "none")
    BY <1>0, <2>1 DEF Releases
  <2> QED BY <1>1, <2>1, <2>2
<1>5. CASE UNCHANGED vars
  BY <1>1, <1>5 DEF vars, tvars
\* The message queue.
<1>6. ASSUME NEW t \in Transports, NEW m \in Message, reg' = Append(reg, m),
             \A u \in Transports : m = <<"remove", u>> => ~Queued(u)
      PROVE  \A u \in Transports :
               /\ Once(reg', <<"remove", u>>)
               /\ Queued(u)' <=> (Queued(u) \/ m = <<"remove", u>>)
  <2> SUFFICES ASSUME NEW u \in Transports
               PROVE  /\ Once(reg', <<"remove", u>>)
                      /\ Queued(u)' <=> (Queued(u) \/ m = <<"remove", u>>)
    OBVIOUS
  <2>1. <<"remove", u>> \in Message
    BY DEF Message
  <2>2. Once(reg', <<"remove", u>>)
    BY <1>0, <1>6, <2>1, OnceAppend DEF Queued
  <2>3. /\ \A x \in Range(reg') : x \in Range(reg) \/ x = m
        /\ Range(reg) \subseteq Range(reg') /\ m \in Range(reg')
    BY <1>0, <1>6, RangeAppend, RangeSplit
  <2> QED BY <2>2, <2>3 DEF Queued
<1>7. ASSUME NEW m \in Message, reg # <<>>, Head(reg) = m, reg' = Tail(reg)
      PROVE  \A u \in Transports :
               /\ Once(reg', <<"remove", u>>)
               /\ Queued(u)' <=> (Queued(u) /\ m # <<"remove", u>>)
               /\ m = <<"remove", u>> => Queued(u)
  <2> SUFFICES ASSUME NEW u \in Transports
               PROVE  /\ Once(reg', <<"remove", u>>)
                      /\ Queued(u)' <=> (Queued(u) /\ m # <<"remove", u>>)
                      /\ m = <<"remove", u>> => Queued(u)
    OBVIOUS
  <2>1. <<"remove", u>> \in Message
    BY DEF Message
  <2>2. Once(reg', <<"remove", u>>) /\ (m = <<"remove", u>> => ~Queued(u)')
    BY <1>0, <1>7, <2>1, OnceTail DEF Queued
  <2> QED BY <1>0, <1>7, <2>2, RangeTail, RangeSplit DEF Queued
\* One transport's end moves on.
<1>8. ASSUME NEW t \in Transports,
             \A u \in Transports : Once(reg', <<"remove", u>>),
             \A u \in Transports \ {t} :
               /\ (Queued(u)' <=> Queued(u)) /\ phase'[u] = phase[u] /\ ref'[u] = ref[u]
               /\ rpc'[u] = rpc[u] /\ wpc'[u] = wpc[u]
               /\ (main' = <<"free", u>> <=> main = <<"free", u>>),
             ReleasedOf(t)'
      PROVE  RequestInv'
  <2> SUFFICES ASSUME NEW u \in Transports
               PROVE  ReleasedOf(u)'
    BY <1>8 DEF RequestInv
  <2>1. CASE u # t
    BY <1>0, <1>8, <2>1 DEF ReleasedOf, OneOf, Ended
  <2> QED BY <1>8, <2>1
<1>9. ASSUME NEW t \in Transports, Register(t) PROVE RequestInv'
  <2>1. /\ reg' = Append(reg, <<"add", t>>) /\ <<"add", t>> \in Message
        /\ phase[t] = "new" /\ phase' = [phase EXCEPT ![t] = "pending"]
        /\ UNCHANGED <<ref, rpc, wpc, main>>
    BY <1>9 DEF Register, Message
  <2>2. \A u \in Transports : Once(reg', <<"remove", u>>) /\ (Queued(u)' <=> Queued(u))
    BY <1>6, <2>1
  <2>3. phase'[t] # "freed" /\ phase[t] # "freed"
    BY <1>0, <2>1
  <2>4. ReleasedOf(t)'
    BY <1>0, <2>1, <2>2, <2>3 DEF ReleasedOf, OneOf, Ended
  <2> QED BY <1>0, <1>8, <2>1, <2>2, <2>3, <2>4
<1>10. ASSUME NEW t \in Transports, Unregister(t) \/ MainList(t) PROVE RequestInv'
  <2>1. /\ phase[t] # "freed" /\ UNCHANGED <<ref, rpc, wpc, reg>>
        /\ \E x \in {"leaked", "listed"} : phase' = [phase EXCEPT ![t] = x]
    BY <1>10 DEF Unregister, MainList, Orderly, ListingInv
  <2>2. \A u \in Transports : (main # <<"free", u>> /\ main' # <<"free", u>>) \/ main' = main
    BY <1>10 DEF Unregister, MainList, Idle
  <2>3. phase'[t] # "freed" /\ \A u \in Transports : (Queued(u)' <=> Queued(u))
    BY <1>0, <2>1 DEF Queued
  <2>4. ReleasedOf(t)'
    BY <1>0, <2>1, <2>2, <2>3 DEF ReleasedOf, OneOf, Ended
  <2> QED BY <1>0, <1>8, <2>1, <2>2, <2>3, <2>4
<1>11. ASSUME NEW t \in Transports, MainAdd(t) PROVE RequestInv'
  <2>1. /\ reg # <<>> /\ Head(reg) = <<"add", t>> /\ reg' = Tail(reg)
        /\ main = Idle /\ main' = <<"list", t>> /\ phase' = phase /\ <<"add", t>> \in Message
    BY <1>11 DEF MainAdd, MainGets, Message
  <2>2. \A u \in Transports : Once(reg', <<"remove", u>>) /\ (Queued(u)' <=> Queued(u))
    BY <1>7, <2>1
  <2>3. \A u \in Transports : main # <<"free", u>> /\ main' # <<"free", u>>
    BY <2>1 DEF Idle
  <2>4. wpc[t] = "none" /\ rpc[t] = "none"
    <3>1. <<"add", t>> \in Range(reg)
      BY <1>0, <2>1, RangeTail
    <3> QED BY <3>1 DEF Safe, AddInv, StartInv
  <2>5. \/ UNCHANGED <<ref, rpc, wpc>>
        \/ /\ ref' = [ref EXCEPT ![t] = 2] /\ wpc' = [wpc EXCEPT ![t] = "recv"]
           /\ rpc' = [rpc EXCEPT ![t] = "start"]
    BY <1>11 DEF MainAdd
  <2>6. CASE UNCHANGED <<ref, rpc, wpc>>
    <3>1. ReleasedOf(t)'
      BY <1>0, <2>1, <2>2, <2>3, <2>6 DEF ReleasedOf, OneOf, Ended
    <3> QED BY <1>8, <2>1, <2>2, <2>3, <2>6, <3>1
  <2>7. CASE /\ ref' = [ref EXCEPT ![t] = 2] /\ wpc' = [wpc EXCEPT ![t] = "recv"]
             /\ rpc' = [rpc EXCEPT ![t] = "start"]
    <3>1. /\ ref'[t] = 2 /\ wpc'[t] = "recv" /\ rpc'[t] = "start"
          /\ \A u \in Transports \ {t} : ref'[u] = ref[u] /\ wpc'[u] = wpc[u] /\ rpc'[u] = rpc[u]
      BY <1>0, <2>7
    <3>2. ~Ended(t) /\ ~Queued(t) /\ phase[t] # "freed"
      BY <1>0, <2>4 DEF ReleasedOf, OneOf, Ended, Releases
    <3>3. /\ ~Ended(t)' /\ ~Queued(t)' /\ phase'[t] # "freed"
          /\ ~Releases(rpc'[t]) /\ ~Releases(wpc'[t])
      <4>1. ~Ended(t)'
        BY <3>1 DEF Ended
      <4>2. ~Queued(t)' /\ phase'[t] # "freed"
        BY <2>1, <2>2, <3>2
      <4>3. ~Releases(rpc'[t]) /\ ~Releases(wpc'[t])
        BY <3>1 DEF Releases
      <4> QED BY <4>1, <4>2, <4>3
    <3>4. ReleasedOf(t)'
      BY <2>3, <3>3 DEF ReleasedOf, OneOf
    <3> QED BY <1>8, <2>1, <2>2, <2>3, <3>1, <3>4
  <2> QED BY <2>5, <2>6, <2>7
<1>12. ASSUME NEW t \in Transports, MainRemove(t) PROVE RequestInv'
  <2>1. /\ reg # <<>> /\ Head(reg) = <<"remove", t>> /\ reg' = Tail(reg)
        /\ main = Idle /\ main' = <<"free", t>> /\ UNCHANGED <<phase, ref, rpc, wpc>>
        /\ <<"remove", t>> \in Message
    BY <1>12 DEF MainRemove, MainGets, Message, tvars
  <2>2. /\ \A u \in Transports : Once(reg', <<"remove", u>>)
        /\ \A u \in Transports \ {t} : (Queued(u)' <=> Queued(u))
        /\ Queued(t) /\ ~Queued(t)'
    BY <1>7, <2>1
  <2>3. \A u \in Transports : main # <<"free", u>> /\ (main' = <<"free", u>> <=> u = t)
    BY <2>1 DEF Idle
  <2>4. ReleasedOf(t)'
    BY <1>0, <2>1, <2>2, <2>3 DEF ReleasedOf, OneOf, Ended
  <2> QED BY <1>8, <2>1, <2>2, <2>3, <2>4
<1>13. ASSUME NEW t \in Transports, MainFree(t) PROVE RequestInv'
  <2>1. /\ main = <<"free", t>> /\ main' = Idle /\ phase' = [phase EXCEPT ![t] = "freed"]
        /\ UNCHANGED <<ref, rpc, wpc, reg>>
    BY <1>13 DEF MainFree
  <2>2. /\ \A u \in Transports : main' # <<"free", u>> /\ (main = <<"free", u>> <=> u = t)
        /\ phase'[t] = "freed" /\ \A u \in Transports : (Queued(u)' <=> Queued(u))
    BY <1>0, <2>1 DEF Idle, Queued
  <2>3. phase[t] # "freed"
    BY <1>0, <2>1 DEF ReleasedOf, OneOf, Ended
  <2>4. ReleasedOf(t)'
    BY <1>0, <2>1, <2>2, <2>3 DEF ReleasedOf, OneOf, Ended
  <2> QED BY <1>0, <1>8, <2>1, <2>2, <2>4
<1>14. ASSUME NEW t \in Transports, ReadLeave(t) PROVE RequestInv'
  <2>0. wpc' = wpc /\ main' = main
    BY <1>14 DEF ReadLeave
  <2>1. CASE LeaveKick(rpc, "read", t) \/ LeaveKickFunc(rpc, t) \/ LeaveClose(rpc, t)
    <3>1. /\ reg' = reg /\ phase' = phase /\ ref' = ref
          /\ \/ rpc[t] \in {"kick", "kick_func"} /\ rpc' = [rpc EXCEPT ![t] = "kick_func"]
             \/ rpc[t] \in {"kick", "kick_func"} /\ rpc' = [rpc EXCEPT ![t] = "unref"]
             \/ rpc[t] = "close" /\ rpc' = [rpc EXCEPT ![t] = "remove"]
      BY <2>1 DEF LeaveKick, LeaveKickFunc, LeaveClose
    <3>2. \A u \in Transports : /\ Releases(rpc'[u]) <=> Releases(rpc[u])
                                /\ (rpc'[u] = "none" <=> rpc[u] = "none")
      BY <1>0, <3>1 DEF Releases
    <3> QED BY <1>1, <2>0, <3>1, <3>2
  <2>2. CASE LeaveUnref(rpc, t)
    <3> DEFINE x == IF ref[t] = 1 THEN "close" ELSE "done"
    <3>1. /\ rpc[t] = "unref" /\ ref' = [ref EXCEPT ![t] = ref[t] - 1]
          /\ rpc' = [rpc EXCEPT ![t] = x] /\ UNCHANGED <<phase, reg>>
      BY <2>2 DEF LeaveUnref
    <3>2. ref[t] = One(Holds(rpc[t])) + One(Holds(wpc[t])) /\ rpc[t] # "none" /\ wpc[t] # "none"
      BY <3>1 DEF Safe, RefCounts, StartInv
    <3>3. ref[t] \in 1..2 /\ (ref[t] = 1 => ~Holds(wpc[t]))
      BY <3>1, <3>2 DEF One, Holds
    <3>4. /\ rpc'[t] = x /\ ref'[t] = ref[t] - 1
          /\ \A u \in Transports \ {t} : ref'[u] = ref[u] /\ rpc'[u] = rpc[u]
      BY <1>0, <3>1
    <3>5. /\ ~Releases(wpc[t]) /\ ~Queued(t) /\ main # <<"free", t>> /\ phase[t] # "freed"
      <4>1. ~Ended(t)
        BY <3>3 DEF Ended
      <4> QED BY <1>0, <4>1 DEF ReleasedOf, OneOf
    <3>6. \A u \in Transports : (Queued(u)' <=> Queued(u)) /\ Once(reg', <<"remove", u>>)
      BY <1>0, <3>1 DEF Queued
    <3>7. ReleasedOf(t)'
      <4>1. ~Releases(wpc'[t]) /\ ~Queued(t)' /\ main' # <<"free", t>> /\ phase'[t] # "freed"
        BY <2>0, <3>1, <3>5, <3>6
      <4>2. wpc'[t] # "none"
        BY <2>0, <3>2, <3>4
      <4>3. CASE ref[t] = 1
        <5>1. Releases(rpc'[t]) /\ Ended(t)'
          BY <3>4, <4>2, <4>3 DEF Releases, Ended
        <5> QED BY <4>1, <5>1 DEF ReleasedOf, OneOf
      <4>4. CASE ref[t] = 2
        <5>1. ~Releases(rpc'[t]) /\ ~Ended(t)'
          BY <3>4, <4>4 DEF Releases, Ended
        <5> QED BY <4>1, <5>1 DEF ReleasedOf, OneOf
      <4> QED BY <3>3, <4>3, <4>4
    <3> QED BY <1>8, <2>0, <3>1, <3>4, <3>6, <3>7
  <2>3. CASE LeaveRemove(rpc, t)
    <3>1. /\ rpc[t] = "remove" /\ rpc' = [rpc EXCEPT ![t] = "done"]
          /\ reg' = Append(reg, <<"remove", t>>) /\ <<"remove", t>> \in Message
          /\ UNCHANGED <<phase, ref>>
      BY <2>3 DEF LeaveRemove, tvars, Message
    <3>2. Releases(rpc[t])
      BY <3>1 DEF Releases
    <3>3. ~Queued(t) /\ Ended(t) /\ ~Releases(wpc[t]) /\ main # <<"free", t>> /\ phase[t] # "freed"
      BY <1>0, <3>2 DEF ReleasedOf, OneOf, Ended
    <3>4. /\ \A u \in Transports : Once(reg', <<"remove", u>>)
          /\ \A u \in Transports \ {t} : (Queued(u)' <=> Queued(u))
          /\ Queued(t)'
      BY <1>6, <3>1, <3>3
    <3>5. rpc'[t] = "done" /\ \A u \in Transports \ {t} : rpc'[u] = rpc[u]
      BY <1>0, <3>1
    <3>6. ref[t] = 0 /\ rpc[t] # "none" /\ wpc[t] # "none" /\ wpc'[t] # "none"
      BY <2>0, <3>1, <3>3, <3>5 DEF Safe, StartInv, Ended
    <3>7. ReleasedOf(t)'
      BY <2>0, <3>1, <3>3, <3>4, <3>5, <3>6 DEF ReleasedOf, OneOf, Ended, Releases
    <3> QED BY <1>8, <2>0, <3>1, <3>4, <3>5, <3>7
  <2> QED BY <1>14, <2>1, <2>2, <2>3 DEF ReadLeave, Leave
<1>15. ASSUME NEW t \in Transports, WriteLeave(t) PROVE RequestInv'
  <2>0. rpc' = rpc /\ main' = main
    BY <1>15 DEF WriteLeave
  <2>1. CASE LeaveKick(wpc, "write", t) \/ LeaveKickFunc(wpc, t) \/ LeaveClose(wpc, t)
    <3>1. /\ reg' = reg /\ phase' = phase /\ ref' = ref
          /\ \/ wpc[t] \in {"kick", "kick_func"} /\ wpc' = [wpc EXCEPT ![t] = "kick_func"]
             \/ wpc[t] \in {"kick", "kick_func"} /\ wpc' = [wpc EXCEPT ![t] = "unref"]
             \/ wpc[t] = "close" /\ wpc' = [wpc EXCEPT ![t] = "remove"]
      BY <2>1 DEF LeaveKick, LeaveKickFunc, LeaveClose
    <3>2. \A u \in Transports : /\ Releases(wpc'[u]) <=> Releases(wpc[u])
                                /\ (wpc'[u] = "none" <=> wpc[u] = "none")
      BY <1>0, <3>1 DEF Releases
    <3> QED BY <1>1, <2>0, <3>1, <3>2
  <2>2. CASE LeaveUnref(wpc, t)
    <3> DEFINE x == IF ref[t] = 1 THEN "close" ELSE "done"
    <3>1. /\ wpc[t] = "unref" /\ ref' = [ref EXCEPT ![t] = ref[t] - 1]
          /\ wpc' = [wpc EXCEPT ![t] = x] /\ UNCHANGED <<phase, reg>>
      BY <2>2 DEF LeaveUnref
    <3>2. ref[t] = One(Holds(rpc[t])) + One(Holds(wpc[t])) /\ rpc[t] # "none" /\ wpc[t] # "none"
      BY <3>1 DEF Safe, RefCounts, StartInv
    <3>3. ref[t] \in 1..2 /\ (ref[t] = 1 => ~Holds(rpc[t]))
      BY <3>1, <3>2 DEF One, Holds
    <3>4. /\ wpc'[t] = x /\ ref'[t] = ref[t] - 1
          /\ \A u \in Transports \ {t} : ref'[u] = ref[u] /\ wpc'[u] = wpc[u]
      BY <1>0, <3>1
    <3>5. /\ ~Releases(rpc[t]) /\ ~Queued(t) /\ main # <<"free", t>> /\ phase[t] # "freed"
      <4>1. ~Ended(t)
        BY <3>3 DEF Ended
      <4> QED BY <1>0, <4>1 DEF ReleasedOf, OneOf
    <3>6. \A u \in Transports : (Queued(u)' <=> Queued(u)) /\ Once(reg', <<"remove", u>>)
      BY <1>0, <3>1 DEF Queued
    <3>7. ReleasedOf(t)'
      <4>1. ~Releases(rpc'[t]) /\ ~Queued(t)' /\ main' # <<"free", t>> /\ phase'[t] # "freed"
        BY <2>0, <3>1, <3>5, <3>6
      <4>2. wpc'[t] # "none"
        BY <2>0, <3>2, <3>4
      <4>3. CASE ref[t] = 1
        <5>1. Releases(wpc'[t]) /\ Ended(t)'
          BY <3>4, <4>2, <4>3 DEF Releases, Ended
        <5> QED BY <4>1, <5>1 DEF ReleasedOf, OneOf
      <4>4. CASE ref[t] = 2
        <5>1. ~Releases(wpc'[t]) /\ ~Ended(t)'
          BY <3>4, <4>4 DEF Releases, Ended
        <5> QED BY <4>1, <5>1 DEF ReleasedOf, OneOf
      <4> QED BY <3>3, <4>3, <4>4
    <3> QED BY <1>8, <2>0, <3>1, <3>4, <3>6, <3>7
  <2>3. CASE LeaveRemove(wpc, t)
    <3>1. /\ wpc[t] = "remove" /\ wpc' = [wpc EXCEPT ![t] = "done"]
          /\ reg' = Append(reg, <<"remove", t>>) /\ <<"remove", t>> \in Message
          /\ UNCHANGED <<phase, ref>>
      BY <2>3 DEF LeaveRemove, tvars, Message
    <3>2. Releases(wpc[t])
      BY <3>1 DEF Releases
    <3>3. ~Queued(t) /\ Ended(t) /\ ~Releases(rpc[t]) /\ main # <<"free", t>> /\ phase[t] # "freed"
      BY <1>0, <3>2 DEF ReleasedOf, OneOf, Ended
    <3>4. /\ \A u \in Transports : Once(reg', <<"remove", u>>)
          /\ \A u \in Transports \ {t} : (Queued(u)' <=> Queued(u))
          /\ Queued(t)'
      BY <1>6, <3>1, <3>3
    <3>5. wpc'[t] = "done" /\ \A u \in Transports \ {t} : wpc'[u] = wpc[u]
      BY <1>0, <3>1
    <3>6. ref[t] = 0 /\ rpc[t] # "none" /\ wpc[t] # "none" /\ wpc'[t] # "none"
      BY <2>0, <3>1, <3>3, <3>5 DEF Safe, StartInv, Ended
    <3>7. ReleasedOf(t)'
      BY <2>0, <3>1, <3>3, <3>4, <3>5, <3>6 DEF ReleasedOf, OneOf, Ended, Releases
    <3> QED BY <1>8, <2>0, <3>1, <3>4, <3>5, <3>7
  <2> QED BY <1>15, <2>1, <2>2, <2>3 DEF WriteLeave, Leave
<1> QED
  BY <1>2, <1>3, <1>4, <1>5, <1>9, <1>10, <1>11, <1>12, <1>13, <1>14, <1>15
     DEF Next, Registration, MainKicking, OtherKicking, Reader, Writer

LEMMA InitOrderly == Init => Orderly
<1> SUFFICES ASSUME Init PROVE Orderly
  OBVIOUS
<1>1. PumpInv
  BY CoveredEmpty DEF Init, PumpInv, PumpOf
<1>2. ListingInv /\ RequestInv
  BY DEF Init, ListingInv, RequestInv, Once, Range, Releases, ReleasedOf, OneOf, Queued, Ended, Idle
<1> QED BY <1>1, <1>2 DEF Orderly

\* The inductive form counts the "remove" messages without Cardinality.
LEMMA OrderlyIsEnough == TypeOK /\ Orderly => OrderlyLife
<1> SUFFICES ASSUME TypeOK, Orderly PROVE OrderlyLife
  OBVIOUS
<1>0. reg \in Seq(Message)
  BY DEF TypeOK, Message
<1>1. ReleasedOnce
  <2> SUFFICES ASSUME NEW t \in Transports
               PROVE  One(Releases(rpc[t])) + One(Releases(wpc[t]))
                        + Cardinality({n \in 1..Len(reg) : reg[n] = <<"remove", t>>})
                        + One(main = <<"free", t>>) + One(phase[t] = "freed")
                      = One(ref[t] = 0 /\ wpc[t] # "none")
    BY DEF ReleasedOnce
  <2> DEFINE requests == {n \in 1..Len(reg) : reg[n] = <<"remove", t>>}
  <2>1. Once(reg, <<"remove", t>>)
    BY DEF Orderly, RequestInv
  <2>2. Cardinality(requests) = One(Queued(t))
    <3>1. CASE requests = {}
      <4>1. <<"remove", t>> \notin Range(reg)
        BY <1>0, <3>1 DEF Range
      <4>2. Cardinality(requests) = 0
        BY <3>1, FS_EmptySet
      <4> QED BY <4>1, <4>2 DEF One, Queued
    <3>2. CASE requests # {}
      <4>1. PICK n : n \in requests
        BY <3>2
      <4>2. requests = {n}
        BY <2>1, <4>1 DEF Once
      <4>3. Cardinality(requests) = 1
        <5> HIDE DEF requests
        <5>1. Cardinality({n}) = 1
          BY FS_Singleton
        <5> QED BY <4>2, <5>1
      <4>4. <<"remove", t>> \in Range(reg)
        <5>1. n \in DOMAIN reg /\ reg[n] = <<"remove", t>>
          BY <1>0, <4>1
        <5> QED BY <5>1, Zenon DEF Range
      <4> QED BY <4>3, <4>4 DEF One, Queued
    <3> QED BY <3>1, <3>2
  <2>3. ReleasedOf(t)
    BY DEF Orderly, RequestInv
  <2>4. One(Releases(rpc[t])) + One(Releases(wpc[t])) + One(Queued(t))
          + One(main = <<"free", t>>) + One(phase[t] = "freed") = One(Ended(t))
    BY <2>3 DEF ReleasedOf, OneOf, One
  <2> QED BY <2>2, <2>4 DEF Ended
<1>2. ConnectNotDropped
  <2> SUFFICES ASSUME NEW t \in Transports, down[t] # <<>>, Head(down[t]) = "CNXN"
               PROVE  active[t] = TRUE
    BY DEF ConnectNotDropped
  <2>1. down[t] \in Seq(Down) /\ PumpOf(t)
    BY DEF TypeOK, Orderly, PumpInv
  <2> QED BY <2>1, CoveredTail DEF PumpOf
<1> QED BY <1>1, <1>2 DEF OrderlyLife

\* A transport is started and released exactly once: the packet that opens a
\* session is never dropped as "offline", and when both threads are gone one
\* of them, and only one, has the main thread free the object (transport.cpp).
THEOREM LifeIsOrderly == Spec => []OrderlyLife
<1>1. Init => Inv /\ Orderly
  BY InitType, InitSafe, InitOrderly DEF Inv
<1>2. Inv /\ Orderly /\ [Next]_vars => (Inv /\ Orderly)'
  <2>1. Inv => TypeOK /\ Safe /\ RefCounts
    BY DEF Inv, Safe
  <2>2. TypeOK /\ Safe /\ Orderly /\ [Next]_vars => Orderly'
    BY PumpKept, ListingKept, RequestKept DEF Orderly
  <2> QED BY <2>1, <2>2, NextType, NextSafe DEF Inv
<1>3. Inv /\ Orderly => OrderlyLife
  BY OrderlyIsEnough DEF Inv
<1> QED BY <1>1, <1>2, <1>3, PTL DEF Spec

-----------------------------------------------------------------------------
(* Auth *)

\* AuthTypeOK, variable by variable, and that a retry has its transport.
AuthInv ==
  /\ hstate \in {"offline", "unauthorized", "device"}
  /\ keys \in Seq(KeySet \cup {"PUBLIC"})
  /\ dstate \in {"offline", "host"}
  /\ resent \in BOOLEAN /\ dOnline \in BOOLEAN /\ confirm \in BOOLEAN /\ needs_retry \in BOOLEAN
  /\ framework \in BOOLEAN /\ asked \in BOOLEAN
  /\ known \subseteq KeySet
  /\ toHost \in Seq(ToHost) /\ toDevice \in Seq(ToDevice)
  /\ link \in {"up", "broken"}
  /\ restarts \in Nat /\ breaks \in Nat /\ hangs \in Nat /\ data \in Nat
  /\ needs_retry => confirm

\* What AuthInv is for.
LEMMA AuthInvTyped == AuthInv => AuthTypeOK /\ RetryHasTransport
BY DEF AuthInv, AuthTypeOK, RetryHasTransport

\* The packets that are sent.
LEMMA AuthPackets ==
  /\ Cnxn \in ToHost /\ Cnxn \in ToDevice /\ Offline \in ToHost /\ Offline \in ToDevice
  /\ Token \in ToHost /\ [cmd |-> "DATA"] \in ToHost /\ PublicKey \in ToDevice
  /\ \A k \in KeySet, b \in BOOLEAN : [cmd |-> "SIGNATURE", key |-> k, fresh |-> b] \in ToDevice
BY DEF ToHost, ToDevice, Cnxn, Offline, Token, PublicKey

\* What is sent comes behind a queue, or is lost.
LEMMA AuthSent ==
  ASSUME NEW S, NEW q \in Seq(S), NEW p \in S
  PROVE  Send(q, <<p>>) \in Seq(S)
BY DEF Send

\* A new token makes the packets that carry older ones stale.
LEMMA AuthAged ==
  /\ \A q \in Seq(ToHost) : Age(q) \in Seq(ToHost)
  /\ \A q \in Seq(ToDevice) : Age(q) \in Seq(ToDevice)
<1>1. ASSUME NEW p \in ToHost PROVE Aged(p) \in ToHost
  <2>1. CASE p \in [cmd : {"TOKEN"}, fresh : BOOLEAN]
    BY <2>1 DEF Aged, ToHost
  <2>2. CASE p \in [cmd : {"CNXN", "DATA", "SYNC"}]
    BY <2>2 DEF Aged, ToHost
  <2> QED BY <2>1, <2>2 DEF ToHost
<1>2. ASSUME NEW p \in ToDevice PROVE Aged(p) \in ToDevice
  <2>1. CASE p \in [cmd : {"SIGNATURE"}, key : KeySet, fresh : BOOLEAN]
    BY <2>1 DEF Aged, ToDevice
  <2>2. CASE p \in [cmd : {"CNXN", "RSAPUBLICKEY", "SYNC"}]
    BY <2>2 DEF Aged, ToDevice
  <2> QED BY <2>1, <2>2 DEF ToDevice
<1>3. ASSUME NEW q \in Seq(ToHost) PROVE Age(q) \in Seq(ToHost)
  <2>1. \A n \in 1..Len(q) : q[n] \in ToHost
    OBVIOUS
  <2> QED BY <1>1, <2>1 DEF Age
<1>4. ASSUME NEW q \in Seq(ToDevice) PROVE Age(q) \in Seq(ToDevice)
  <2>1. \A n \in 1..Len(q) : q[n] \in ToDevice
    OBVIOUS
  <2> QED BY <1>2, <2>1 DEF Age
<1> QED BY <1>3, <1>4

\* send_auth_request sends a new token.
LEMMA AuthRequested ==
  ASSUME AuthInv, NEW q \in Seq(ToDevice), SendAuthRequest(q)
  PROVE  toHost' \in Seq(ToHost) /\ toDevice' \in Seq(ToDevice)
<1>1. Age(toHost) \in Seq(ToHost) /\ Age(q) \in Seq(ToDevice)
  BY AuthAged DEF AuthInv
<1> QED BY <1>1, AuthSent, AuthPackets DEF SendAuthRequest

\* The initial states.
LEMMA AuthInvInit == AuthInit => AuthInv
<1> SUFFICES ASSUME AuthInit PROVE AuthInv
  OBVIOUS
<1>1. <<>> \in Seq(KeySet \cup {"PUBLIC"}) /\ <<>> \in Seq(ToHost) /\ 0 \in Nat
  OBVIOUS
<1>2. <<Cnxn>> \in Seq(ToDevice)
  BY AuthPackets
<1> QED BY <1>1, <1>2 DEF AuthInit, AuthInv

\* The parts of a queue.
LEMMA AuthParts ==
  ASSUME NEW S, NEW q \in Seq(S)
  PROVE  /\ q # <<>> => Head(q) \in S /\ Tail(q) \in Seq(S)
         /\ \A h \in 0..Len(q), p \in S : Append(SubSeq(q, 1, h), p) \in Seq(S)
         /\ \A h \in 0..Len(q) : SubSeq(q, h + 1, Len(q)) \in Seq(S)
<1>1. q # <<>> => Head(q) \in S /\ Tail(q) \in Seq(S)
  OBVIOUS
<1>2. ASSUME NEW h \in 0..Len(q)
      PROVE  SubSeq(q, 1, h) \in Seq(S) /\ SubSeq(q, h + 1, Len(q)) \in Seq(S)
  <2>1. \A n \in 1..Len(q) : q[n] \in S
    OBVIOUS
  <2>2. Len(q) \in Nat
    OBVIOUS
  <2> QED BY <2>1, <2>2
<1>3. ASSUME NEW h \in 0..Len(q), NEW p \in S PROVE Append(SubSeq(q, 1, h), p) \in Seq(S)
  <2>1. SubSeq(q, 1, h) \in Seq(S)
    BY <1>2
  <2> QED BY <2>1
<1> QED BY <1>1, <1>2, <1>3

\* The steps of the server.
LEMMA AuthHostOK == ASSUME AuthInv, Host PROVE AuthInv'
<1>1. toHost # <<>> /\ toHost' = Tail(toHost)
  BY DEF Host, HostToken, HostCnxn, HostData, HostOffline, HostReceives
<1>2. toHost \in Seq(ToHost) /\ toDevice \in Seq(ToDevice) /\ keys \in Seq(KeySet \cup {"PUBLIC"})
  BY DEF AuthInv
<1>3. toHost' \in Seq(ToHost) /\ Head(toHost) \in ToHost
  BY <1>1, <1>2, AuthParts
<1>4. CASE HostToken
  <2>1. NextKeys \in Seq(KeySet \cup {"PUBLIC"}) /\ NextKeys # <<>>
    <3>1. Keys \in Seq(KeySet \cup {"PUBLIC"})
      BY AuthAssumption
    <3>2. PrivateKeys \in Seq(KeySet \cup {"PUBLIC"}) /\ PrivateKeys # <<>>
      BY <3>1 DEF PrivateKeys
    <3> QED BY <1>2, <3>2 DEF NextKeys
  <2>2. PICK k : k = Head(NextKeys)
    OBVIOUS
  <2>3. k \in KeySet \cup {"PUBLIC"} /\ keys' \in Seq(KeySet \cup {"PUBLIC"})
    BY <1>4, <2>1, <2>2, AuthParts DEF HostToken
  <2>4. Head(toHost).fresh \in BOOLEAN
    <3>1. Head(toHost).cmd = "TOKEN"
      BY <1>4 DEF HostToken, HostReceives
    <3> QED BY <1>3, <3>1 DEF ToHost
  <2>5. PICK p \in ToDevice : toDevice' = Send(toDevice, <<p>>)
    <3>1. CASE k = "PUBLIC"
      BY <1>4, <2>2, <3>1, AuthPackets DEF HostToken
    <3>2. CASE k # "PUBLIC"
      <4>1. PICK p : p = [cmd |-> "SIGNATURE", key |-> k, fresh |-> Head(toHost).fresh]
        OBVIOUS
      <4>2. p \in ToDevice
        BY <2>3, <2>4, <3>2, <4>1, AuthPackets
      <4>3. toDevice' = Send(toDevice, <<p>>)
        BY <1>4, <2>2, <3>2, <4>1 DEF HostToken
      <4> QED BY <4>2, <4>3
    <3> QED BY <3>1, <3>2
  <2>6. toDevice' \in Seq(ToDevice)
    BY <1>2, <2>5, AuthSent
  <2> QED BY <1>3, <1>4, <2>3, <2>6 DEF HostToken, AuthInv, auth, env
<1>5. CASE HostCnxn
  BY <1>3, <1>5 DEF HostCnxn, AuthInv, auth, env
<1>6. CASE HostData
  <2>1. toDevice' \in Seq(ToDevice) /\ resent' \in BOOLEAN
    BY <1>2, <1>6, AuthSent, AuthPackets DEF HostData, AuthInv
  <2> QED BY <1>3, <1>6, <2>1 DEF HostData, AuthInv, auth, env
<1>7. CASE HostOffline
  BY <1>3, <1>7 DEF HostOffline, AuthInv, auth, env
<1> QED BY <1>4, <1>5, <1>6, <1>7 DEF Host

\* The steps of adbd on the packets it receives.
LEMMA AuthDeviceOK == ASSUME AuthInv, Device PROVE AuthInv'
<1>1. toHost \in Seq(ToHost) /\ toDevice \in Seq(ToDevice) /\ toDevice # <<>>
  BY DEF AuthInv, Device, DeviceCnxn, DeviceSignature, DevicePublicKey, DeviceOffline,
         DeviceReceives
<1>2. Head(toDevice) \in ToDevice /\ Tail(toDevice) \in Seq(ToDevice)
  BY <1>1, AuthParts
<1>3. CASE DeviceCnxn
  <2>1. toHost' \in Seq(ToHost) /\ toDevice' \in Seq(ToDevice)
    BY <1>2, <1>3, AuthRequested DEF DeviceCnxn
  <2> QED BY <1>3, <2>1 DEF DeviceCnxn, UsbDisconnected, AuthInv, auth, env, host
<1>4. CASE DeviceSignature
  <2>1. toHost' \in Seq(ToHost) /\ toDevice' \in Seq(ToDevice) /\ dOnline' \in BOOLEAN
    <3>1. CASE AuthVerified /\ toDevice' = Tail(toDevice)
      BY <1>1, <1>2, <3>1, AuthSent, AuthPackets DEF AuthVerified
    <3>2. CASE SendAuthRequest(Tail(toDevice)) /\ UNCHANGED dOnline
      BY <1>2, <3>2, AuthRequested DEF AuthInv
    <3> QED BY <1>4, <3>1, <3>2 DEF DeviceSignature
  <2> QED BY <1>4, <2>1 DEF DeviceSignature, AuthInv, auth, env, host
<1>5. CASE DevicePublicKey
  BY <1>2, <1>5 DEF DevicePublicKey, ConfirmKey, AuthInv, env, host
<1>6. CASE DeviceOffline
  BY <1>2, <1>6 DEF DeviceOffline, UsbDisconnected, AuthInv, env, host
<1> QED BY <1>3, <1>4, <1>5, <1>6 DEF Device

\* The framework comes, goes and answers.
LEMMA AuthFrameworkOK ==
  ASSUME AuthInv, FrameworkConnects \/ FrameworkDisconnects \/ FrameworkOk PROVE AuthInv'
<1>1. toHost \in Seq(ToHost) /\ toDevice \in Seq(ToDevice)
  BY DEF AuthInv
<1>2. CASE FrameworkConnects
  <2>1. toHost' \in Seq(ToHost) /\ toDevice' \in Seq(ToDevice)
    BY <1>1, <1>2, AuthRequested DEF FrameworkConnects
  <2>2. hangs' \in Nat
    BY <1>2 DEF FrameworkConnects, AuthInv
  <2> QED BY <1>2, <2>1, <2>2 DEF FrameworkConnects, AuthInv, host
<1>3. CASE FrameworkDisconnects
  <2>1. hangs' \in Nat
    BY <1>3 DEF FrameworkDisconnects, AuthInv
  <2> QED BY <1>3, <2>1 DEF FrameworkDisconnects, AuthInv, host, auth
<1>4. CASE FrameworkOk
  <2>1. toHost' \in Seq(ToHost) /\ dOnline' \in BOOLEAN
    BY <1>1, <1>4, AuthSent, AuthPackets DEF FrameworkOk, AuthVerified, AuthInv
  <2>2. known' \subseteq KeySet
    BY <1>4, AuthAssumption DEF FrameworkOk, AuthInv
  <2> QED BY <1>4, <2>1, <2>2 DEF FrameworkOk, AuthInv, host, auth, env
<1> QED BY <1>2, <1>3, <1>4

\* Data, and the wire and the server failing.
LEMMA AuthWorldOK ==
  ASSUME AuthInv, DeviceData \/ Break \/ Reconnect \/ HostRestart PROVE AuthInv'
<1>1. toHost \in Seq(ToHost) /\ toDevice \in Seq(ToDevice)
  BY DEF AuthInv
<1>2. CASE DeviceData
  <2>1. toHost' \in Seq(ToHost)
    BY <1>1, <1>2, AuthSent, AuthPackets DEF DeviceData
  <2> QED BY <1>2, <2>1 DEF DeviceData, AuthInv, host, auth
<1>3. CASE Break
  <2>1. toHost' \in Seq(ToHost) /\ toDevice' \in Seq(ToDevice)
    BY <1>1, <1>3, AuthParts, AuthPackets DEF Break
  <2> QED BY <1>3, <2>1 DEF Break, AuthInv, host, auth
<1>4. CASE Reconnect
  <2>1. toDevice' \in Seq(ToDevice) /\ keys' \in Seq(KeySet \cup {"PUBLIC"})
    <3>1. <<>> \in Seq(KeySet \cup {"PUBLIC"})
      OBVIOUS
    <3>2. <<Cnxn>> \in Seq(ToDevice)
      BY AuthPackets
    <3> QED BY <1>4, <3>1, <3>2 DEF Reconnect
  <2> QED BY <1>4, <2>1 DEF Reconnect, AuthInv, auth
<1>5. CASE HostRestart
  <2>1. toHost' \in Seq(ToHost) /\ toDevice' \in Seq(ToDevice)
    BY <1>1, <1>5, AuthParts, AuthPackets DEF HostRestart
  <2>2. keys' \in Seq(KeySet \cup {"PUBLIC"})
    <3>1. <<>> \in Seq(KeySet \cup {"PUBLIC"})
      OBVIOUS
    <3> QED BY <1>5, <3>1 DEF HostRestart
  <2>3. restarts' \in Nat
    BY <1>5 DEF HostRestart, AuthInv
  <2> QED BY <1>5, <2>1, <2>2, <2>3 DEF HostRestart, AuthInv, auth
<1> QED BY <1>2, <1>3, <1>4, <1>5

\* AuthInv is inductive.
LEMMA AuthAlways == AuthSpec => []AuthInv
<1>1. AuthInv /\ [AuthNext]_authVars => AuthInv'
  <2> SUFFICES ASSUME AuthInv, [AuthNext]_authVars PROVE AuthInv'
    OBVIOUS
  <2>1. CASE UNCHANGED authVars
    BY <2>1 DEF AuthInv, authVars, host, auth, env
  <2> QED BY <2>1, AuthHostOK, AuthDeviceOK, AuthFrameworkOK, AuthWorldOK DEF AuthNext
<1> QED BY <1>1, AuthInvInit, PTL DEF AuthSpec

\* The states of the server, of adbd and of the framework, and the packets of
\* the handshake, keep their types.
THEOREM AuthTypeCorrect == AuthSpec => []AuthTypeOK
BY AuthAlways, AuthInvTyped, PTL

\* adbd_auth_listener never passes a null usb_transport to send_auth_request:
\* when a key has to be asked for again the transport that sent it is there,
\* for any order of handshakes, failures of the wire and connections of the
\* framework.
THEOREM RetriesHaveTransports == AuthSpec => []RetryHasTransport
BY AuthAlways, AuthInvTyped, PTL

-----------------------------------------------------------------------------
(* UsbLibusb *)

\* The devices connecting_devices counts: those that arrived and whose
\* process_device is not over.
LbConnecting == {d \in LbDevices : lbDev[d] # "new" /\ lbProc[d] # "over"}

\* An arrival waits in hotplug_queue once, until device_connected takes it.
LbArrivals ==
  /\ \A i \in 1..Len(lbQueue) :
       lbQueue[i][1] = "arrived" => lbDev[lbQueue[i][2]] # "new" /\ lbProc[lbQueue[i][2]] = "none"
  /\ \A i, j \in 1..Len(lbQueue) :
       lbQueue[i][1] = "arrived" /\ lbQueue[j] = lbQueue[i] => i = j
  /\ \A d \in LbDevices : lbProc[d] # "none" => lbDev[d] # "new"

LbCounted == IsFiniteSet(LbConnecting) /\ lbCount = Cardinality(LbConnecting)

LbInv == UsbLibusbTypeOK /\ LbArrivals /\ LbCounted

\* The devices, the queue and the threads of process_device.
lbArrival == <<lbDev, lbQueue, lbCount, lbScan, lbProc>>

\* A new state of a handle is one of the handles.
LEMMA LbHandleSet ==
  ASSUME lbH \in [LbDevices -> LbHandle], NEW d \in LbDevices,
         NEW r \in LbHandle
  PROVE  [lbH EXCEPT ![d] = r] \in [LbDevices -> LbHandle]
OBVIOUS

\* A transfer that ends.
LEMMA LbEndedOK == \A x \in LbTransferState : LbEnded(x) \in LbTransferState
BY DEF LbEnded, LbTransferState

\* usb_handle::Close, and the end of both transfers.
LEMMA LbClosed ==
  ASSUME NEW r \in LbHandle
  PROVE  LbClose(r) \in LbHandle
         /\ [r EXCEPT !.in = LbEnded(r.in), !.out = LbEnded(r.out)] \in LbHandle
<1>1. PICK x \in LbTransferState, y \in LbTransferState : x = LbEnded(r.in) /\ y = LbEnded(r.out)
  BY LbEndedOK DEF LbHandle
<1>2. [r EXCEPT !.in = x, !.out = y] \in LbHandle
  BY DEF LbHandle
<1>3. [r EXCEPT !.open = FALSE, !.in = x, !.out = y] \in LbHandle
  BY DEF LbHandle
<1> QED BY <1>1, <1>2, <1>3 DEF LbClose

\* A thread of a transport goes on.
LEMMA LbThreadOK ==
  ASSUME UsbLibusbTypeOK, NEW d \in LbDevices, NEW who, NEW from, NEW to \in LbThreadPc,
         LbThread(d, who, from, to)
  PROVE  lbRd' \in [LbDevices -> LbThreadPc] /\ lbWr' \in [LbDevices -> LbThreadPc]
BY DEF LbThread, UsbLibusbTypeOK

\* A step of the threads of the transports and of the main thread.
LEMMA LbQuiet ==
  ASSUME LbInv, UNCHANGED lbArrival, UsbLibusbTypeOK' PROVE LbInv'
<1>1. LbArrivals'
  BY DEF LbInv, LbArrivals, lbArrival
<1>2. LbConnecting' = LbConnecting
  BY DEF LbConnecting, lbArrival
<1>3. LbCounted'
  BY <1>2 DEF LbInv, LbCounted, lbArrival
<1> QED BY <1>1, <1>3 DEF LbInv

\* The initial states.
LEMMA LbInvInit == UsbLibusbInit => LbInv
<1> SUFFICES ASSUME UsbLibusbInit PROVE LbInv
  OBVIOUS
<1>1. LbNew \in LbHandle
  BY DEF LbNew, LbHandle, LbTransferState
<1>2. <<>> \in Seq({"arrived", "left"} \X LbDevices) /\ Len(lbQueue) = 0
  BY DEF UsbLibusbInit
<1>3. UsbLibusbTypeOK
  <2>1. lbKicks \in 0..LbMaxKicks /\ lbCount \in Nat
    BY UsbLibusbAssumption DEF UsbLibusbInit
  <2>2. "none" \in LbThreadPc
    BY DEF LbThreadPc
  <2>3. lbH \in [LbDevices -> LbHandle]
    BY <1>1 DEF UsbLibusbInit
  <2>4. lbRd \in [LbDevices -> LbThreadPc] /\ lbWr \in [LbDevices -> LbThreadPc]
    BY <2>2 DEF UsbLibusbInit
  <2> QED BY <1>2, <2>1, <2>3, <2>4 DEF UsbLibusbInit, UsbLibusbTypeOK
<1>4. LbArrivals
  BY <1>2 DEF UsbLibusbInit, LbArrivals
<1>5. LbConnecting = {}
  BY DEF UsbLibusbInit, LbConnecting
<1> QED BY <1>3, <1>4, <1>5, FS_EmptySet DEF LbInv, LbCounted, UsbLibusbInit

\* The bus: a device that arrives is counted, one that leaves has been.
LEMMA LbPlugOK ==
  ASSUME LbInv, NEW d \in LbDevices, NEW a \in {"rw", "ro"}, LbPlug(d, a) PROVE LbInv'
<1>1. lbDev \in [LbDevices -> {"new", "rw", "ro", "left"}]
      /\ lbQueue \in Seq({"arrived", "left"} \X LbDevices) /\ lbCount \in Nat
      /\ lbProc \in [LbDevices -> {"none", "sleep", "open", "insert", "register", "over"}]
  BY DEF LbInv, UsbLibusbTypeOK
<1>2. lbDev' = [lbDev EXCEPT ![d] = a] /\ lbProc' = lbProc /\ lbDev[d] = "new"
      /\ lbQueue' = Append(lbQueue, <<"arrived", d>>) /\ lbCount' = lbCount + 1
  BY DEF LbPlug
<1>3. lbProc[d] = "none"
  BY <1>2 DEF LbInv, LbArrivals
<1>4. UsbLibusbTypeOK'
  <2>1. lbDev' \in [LbDevices -> {"new", "rw", "ro", "left"}] /\ lbCount' \in Nat
        /\ lbQueue' \in Seq({"arrived", "left"} \X LbDevices)
    BY <1>1, <1>2
  <2> QED BY <2>1 DEF LbPlug, LbInv, UsbLibusbTypeOK
<1>5. LbArrivals'
  <2>1. \A i \in 1..Len(lbQueue') :
          \/ i \in 1..Len(lbQueue) /\ lbQueue'[i] = lbQueue[i]
          \/ i = Len(lbQueue) + 1 /\ lbQueue'[i] = <<"arrived", d>>
    BY <1>1, <1>2
  <2>2. \A i \in 1..Len(lbQueue) : lbQueue[i] \in {"arrived", "left"} \X LbDevices
    BY <1>1
  <2>3. \A i \in 1..Len(lbQueue) : lbQueue[i] # <<"arrived", d>>
    BY <1>2, <2>2 DEF LbInv, LbArrivals
  <2>4. \A i \in 1..Len(lbQueue') :
          lbQueue'[i][1] = "arrived"
            => lbDev'[lbQueue'[i][2]] # "new" /\ lbProc'[lbQueue'[i][2]] = "none"
    BY <1>1, <1>2, <1>3, <2>1, <2>2 DEF LbInv, LbArrivals
  <2>5. \A i, j \in 1..Len(lbQueue') :
          lbQueue'[i][1] = "arrived" /\ lbQueue'[j] = lbQueue'[i] => i = j
    BY <2>1, <2>3 DEF LbInv, LbArrivals
  <2>6. \A c \in LbDevices : lbProc'[c] # "none" => lbDev'[c] # "new"
    BY <1>1, <1>2, <1>3 DEF LbInv, LbArrivals
  <2> QED BY <2>4, <2>5, <2>6 DEF LbArrivals
<1>6. LbConnecting' = LbConnecting \cup {d} /\ d \notin LbConnecting
  BY <1>1, <1>2, <1>3 DEF LbConnecting
<1> QED BY <1>2, <1>4, <1>5, <1>6, FS_AddElement DEF LbInv, LbCounted

\* A device that leaves was counted when it arrived.
LEMMA LbUnplugOK ==
  ASSUME LbInv, NEW d \in LbDevices, LbUnplug(d) PROVE LbInv'
<1>1. lbDev \in [LbDevices -> {"new", "rw", "ro", "left"}]
      /\ lbQueue \in Seq({"arrived", "left"} \X LbDevices) /\ lbH \in [LbDevices -> LbHandle]
  BY DEF LbInv, UsbLibusbTypeOK
<1>2. lbDev' = [lbDev EXCEPT ![d] = "left"] /\ lbProc' = lbProc /\ lbDev[d] # "new"
      /\ lbQueue' = Append(lbQueue, <<"left", d>>) /\ lbCount' = lbCount
  BY DEF LbUnplug, LbPresent
<1>3. UsbLibusbTypeOK'
  <2>1. lbDev' \in [LbDevices -> {"new", "rw", "ro", "left"}]
        /\ lbQueue' \in Seq({"arrived", "left"} \X LbDevices)
    BY <1>1, <1>2
  <2>2. lbH' \in [LbDevices -> LbHandle]
    <3>1. PICK r \in LbHandle :
            r = [lbH[d] EXCEPT !.in = LbEnded(lbH[d].in), !.out = LbEnded(lbH[d].out)]
      BY <1>1, LbClosed
    <3>2. lbH' = [lbH EXCEPT ![d] = r]
      BY <1>1, <3>1 DEF LbUnplug
    <3> QED BY <1>1, <3>2
  <2> QED BY <2>1, <2>2 DEF LbUnplug, LbInv, UsbLibusbTypeOK
<1>4. LbArrivals'
  <2>1. \A i \in 1..Len(lbQueue') :
          \/ i \in 1..Len(lbQueue) /\ lbQueue'[i] = lbQueue[i]
          \/ i = Len(lbQueue) + 1 /\ lbQueue'[i] = <<"left", d>>
    BY <1>1, <1>2
  <2>2. \A i \in 1..Len(lbQueue) : lbQueue[i] \in {"arrived", "left"} \X LbDevices
    BY <1>1
  <2>4. \A i \in 1..Len(lbQueue') :
          lbQueue'[i][1] = "arrived"
            => lbDev'[lbQueue'[i][2]] # "new" /\ lbProc'[lbQueue'[i][2]] = "none"
    BY <1>1, <1>2, <2>1, <2>2 DEF LbInv, LbArrivals
  <2>5. \A i, j \in 1..Len(lbQueue') :
          lbQueue'[i][1] = "arrived" /\ lbQueue'[j] = lbQueue'[i] => i = j
    BY <2>1 DEF LbInv, LbArrivals
  <2>6. \A c \in LbDevices : lbProc'[c] # "none" => lbDev'[c] # "new"
    BY <1>1, <1>2 DEF LbInv, LbArrivals
  <2> QED BY <2>4, <2>5, <2>6 DEF LbArrivals
<1>5. LbConnecting' = LbConnecting
  BY <1>1, <1>2 DEF LbConnecting
<1> QED BY <1>2, <1>3, <1>4, <1>5 DEF LbInv, LbCounted

\* hotplug_thread takes the oldest entry of the queue.
LEMMA LbTaken ==
  ASSUME LbInv, lbQueue # <<>>, lbQueue' = Tail(lbQueue), lbDev' = lbDev,
         \A i \in 1..Len(lbQueue') :
           lbQueue'[i][1] = "arrived" => lbProc'[lbQueue'[i][2]] = lbProc[lbQueue'[i][2]],
         \A c \in LbDevices : lbProc'[c] # "none" => lbDev[c] # "new"
  PROVE  LbArrivals' /\ lbQueue' \in Seq({"arrived", "left"} \X LbDevices)
<1>1. lbQueue \in Seq({"arrived", "left"} \X LbDevices)
  BY DEF LbInv, UsbLibusbTypeOK
<1>2. lbQueue' \in Seq({"arrived", "left"} \X LbDevices)
  BY <1>1
<1>3. \A i \in 1..Len(lbQueue') : i + 1 \in 1..Len(lbQueue) /\ lbQueue'[i] = lbQueue[i + 1]
  BY <1>1
<1>4. \A i \in 1..Len(lbQueue') :
        lbQueue'[i][1] = "arrived"
          => lbDev'[lbQueue'[i][2]] # "new" /\ lbProc'[lbQueue'[i][2]] = "none"
  BY <1>3 DEF LbInv, LbArrivals
<1>5. \A i, j \in 1..Len(lbQueue') :
        lbQueue'[i][1] = "arrived" /\ lbQueue'[j] = lbQueue'[i] => i = j
  <2> SUFFICES ASSUME NEW i \in 1..Len(lbQueue'), NEW j \in 1..Len(lbQueue'),
                      lbQueue'[i][1] = "arrived", lbQueue'[j] = lbQueue'[i]
               PROVE  i = j
    OBVIOUS
  <2>1. i + 1 = j + 1
    BY <1>3 DEF LbInv, LbArrivals
  <2> QED BY <2>1
<1> QED BY <1>2, <1>4, <1>5 DEF LbArrivals

\* hotplug_thread keeps the invariant.
LEMMA LbHotplugOK ==
  ASSUME LbInv, LbHotplug PROVE LbInv'
<1>1. lbQueue \in Seq({"arrived", "left"} \X LbDevices) /\ lbH \in [LbDevices -> LbHandle]
      /\ lbProc \in [LbDevices -> {"none", "sleep", "open", "insert", "register", "over"}]
  BY DEF LbInv, UsbLibusbTypeOK
<1>2. CASE LbConnected
  <2>1. lbQueue # <<>> /\ 1 \in 1..Len(lbQueue) /\ Head(lbQueue) = lbQueue[1]
        /\ lbQueue[1] \in {"arrived", "left"} \X LbDevices
    BY <1>1, <1>2 DEF LbConnected
  <2>2. PICK d \in LbDevices : lbQueue[1] = <<"arrived", d>>
    BY <1>2, <2>1 DEF LbConnected
  <2>3. lbDev[d] # "new" /\ lbProc[d] = "none"
    BY <2>1, <2>2 DEF LbInv, LbArrivals
  <2>4. lbProc' = [lbProc EXCEPT ![d] = "sleep"] /\ lbQueue' = Tail(lbQueue)
        /\ lbDev' = lbDev /\ lbCount' = lbCount
    <3>1. Head(lbQueue)[2] = d
      BY <2>1, <2>2
    <3> QED BY <1>2, <3>1 DEF LbConnected
  <2>5. \A i \in 1..Len(lbQueue') : i + 1 \in 1..Len(lbQueue) /\ lbQueue'[i] = lbQueue[i + 1]
    BY <1>1, <2>1, <2>4
  <2>6. \A i \in 1..Len(lbQueue') :
          lbQueue'[i][1] = "arrived" => lbProc'[lbQueue'[i][2]] = lbProc[lbQueue'[i][2]]
    <3> SUFFICES ASSUME NEW i \in 1..Len(lbQueue'), lbQueue'[i][1] = "arrived"
                 PROVE  lbProc'[lbQueue'[i][2]] = lbProc[lbQueue'[i][2]]
      OBVIOUS
    <3>1. lbQueue[i + 1] \in {"arrived", "left"} \X LbDevices /\ i + 1 # 1
      BY <1>1, <2>5
    <3>2. lbQueue[i + 1] # lbQueue[1]
      BY <2>1, <2>2, <2>5, <3>1 DEF LbInv, LbArrivals
    <3>3. lbQueue'[i][2] # d /\ lbQueue'[i][2] \in LbDevices
      BY <2>2, <2>5, <3>1, <3>2
    <3> QED BY <1>1, <2>4, <3>3
  <2>7. \A c \in LbDevices : lbProc'[c] # "none" => lbDev[c] # "new"
    BY <1>1, <2>3, <2>4 DEF LbInv, LbArrivals
  <2>8. LbArrivals' /\ lbQueue' \in Seq({"arrived", "left"} \X LbDevices)
    BY <2>1, <2>4, <2>6, <2>7, LbTaken
  <2>9. UsbLibusbTypeOK'
    BY <1>1, <1>2, <2>4, <2>8 DEF LbConnected, LbInv, UsbLibusbTypeOK
  <2>10. LbConnecting' = LbConnecting
    BY <1>1, <2>3, <2>4 DEF LbConnecting
  <2> QED BY <2>4, <2>8, <2>9, <2>10 DEF LbInv, LbCounted
<1>3. CASE LbDisconnected
  <2>1. lbQueue # <<>> /\ Head(lbQueue)[2] \in LbDevices
    <3>1. lbQueue # <<>> /\ Head(lbQueue) \in {"arrived", "left"} \X LbDevices
      BY <1>1, <1>3 DEF LbDisconnected
    <3> QED BY <3>1
  <2>2. lbQueue' = Tail(lbQueue) /\ lbDev' = lbDev /\ lbProc' = lbProc /\ lbCount' = lbCount
    BY <1>3 DEF LbDisconnected
  <2>3. LbArrivals' /\ lbQueue' \in Seq({"arrived", "left"} \X LbDevices)
    BY <2>1, <2>2, LbTaken DEF LbInv, LbArrivals
  <2>4. lbHot' \in LbDevices \cup {LbNobody} /\ lbG' \in BOOLEAN
    BY <1>3, <2>1 DEF LbDisconnected
  <2>5. UsbLibusbTypeOK'
    BY <1>3, <2>3, <2>4 DEF LbDisconnected, LbInv, UsbLibusbTypeOK
  <2>6. LbConnecting' = LbConnecting
    BY <2>2 DEF LbConnecting
  <2> QED BY <2>2, <2>3, <2>5, <2>6 DEF LbInv, LbCounted
<1>4. CASE LbUnregister
  <2>1. lbHot \in LbDevices
    BY <1>4 DEF LbUnregister, LbInv, UsbLibusbTypeOK
  <2>2. lbH' \in [LbDevices -> LbHandle]
    <3>1. lbH[lbHot] \in LbHandle
      BY <1>1, <2>1
    <3>2. PICK t \in {"none", "pending", "listed", "gone"} :
            t = IF lbH[lbHot].tr = "listed" /\ ~lbH[lbHot].writable THEN "gone" ELSE lbH[lbHot].tr
      BY <3>1 DEF LbHandle
    <3>3. [lbH[lbHot] EXCEPT !.place = "deleted", !.tr = t] \in LbHandle
      BY <3>1 DEF LbHandle
    <3>4. lbH' = [lbH EXCEPT ![lbHot] = [lbH[lbHot] EXCEPT !.place = "deleted", !.tr = t]]
      BY <1>1, <1>4, <2>1, <3>2 DEF LbUnregister
    <3> QED BY <1>1, <3>3, <3>4
  <2>3. UsbLibusbTypeOK'
    BY <1>4, <2>2 DEF LbUnregister, LbInv, UsbLibusbTypeOK
  <2> QED BY <1>4, <2>3, LbQuiet DEF LbUnregister, lbArrival
<1> QED BY <1>2, <1>3, <1>4 DEF LbHotplug

\* A thread of process_device goes on: its device stays counted.
LEMMA LbGoesOn ==
  ASSUME LbInv, NEW d \in LbDevices, NEW pc \in {"open", "insert", "register"},
         lbProc[d] \notin {"none", "over"}, lbProc' = [lbProc EXCEPT ![d] = pc],
         UNCHANGED <<lbDev, lbQueue, lbCount>>
  PROVE  LbArrivals' /\ LbCounted'
<1>1. lbProc \in [LbDevices -> {"none", "sleep", "open", "insert", "register", "over"}]
      /\ lbQueue \in Seq({"arrived", "left"} \X LbDevices)
  BY DEF LbInv, UsbLibusbTypeOK
<1>2. \A i \in 1..Len(lbQueue) : lbQueue[i] \in {"arrived", "left"} \X LbDevices
  BY <1>1
<1>3. \A i \in 1..Len(lbQueue) :
        lbQueue[i][1] = "arrived" => lbDev[lbQueue[i][2]] # "new" /\ lbProc'[lbQueue[i][2]] = "none"
  BY <1>1, <1>2 DEF LbInv, LbArrivals
<1>4. LbArrivals'
  BY <1>1, <1>3 DEF LbInv, LbArrivals
<1>5. LbConnecting' = LbConnecting
  BY <1>1 DEF LbConnecting
<1> QED BY <1>4, <1>5 DEF LbInv, LbCounted

\* It ends: its device is not counted any more.
LEMMA LbEnds ==
  ASSUME LbInv, NEW d \in LbDevices, lbProc[d] \notin {"none", "over"}, LbProcessed(d),
         UNCHANGED <<lbDev, lbQueue>>
  PROVE  LbArrivals' /\ LbCounted' /\ lbCount' \in Nat
         /\ lbProc' \in [LbDevices -> {"none", "sleep", "open", "insert", "register", "over"}]
         /\ (lbCount = 1 => LbConnecting = {d})
<1>1. lbProc \in [LbDevices -> {"none", "sleep", "open", "insert", "register", "over"}]
      /\ lbQueue \in Seq({"arrived", "left"} \X LbDevices) /\ lbCount \in Nat
  BY DEF LbInv, UsbLibusbTypeOK
<1>2. lbProc' = [lbProc EXCEPT ![d] = "over"] /\ lbCount' = lbCount - 1
  BY DEF LbProcessed
<1>3. \A i \in 1..Len(lbQueue) : lbQueue[i] \in {"arrived", "left"} \X LbDevices
  BY <1>1
<1>4. \A i \in 1..Len(lbQueue) :
        lbQueue[i][1] = "arrived" => lbDev[lbQueue[i][2]] # "new" /\ lbProc'[lbQueue[i][2]] = "none"
  BY <1>1, <1>2, <1>3 DEF LbInv, LbArrivals
<1>5. LbArrivals'
  BY <1>1, <1>2, <1>4 DEF LbInv, LbArrivals
<1>6. LbConnecting' = LbConnecting \ {d} /\ d \in LbConnecting
  BY <1>1, <1>2 DEF LbConnecting, LbInv, LbArrivals
<1>7. IsFiniteSet(LbConnecting) /\ lbCount = Cardinality(LbConnecting)
  BY DEF LbInv, LbCounted
<1>8. IsFiniteSet(LbConnecting') /\ Cardinality(LbConnecting') = lbCount - 1
  BY <1>6, <1>7, FS_RemoveElement
<1>9. lbCount' \in Nat
  BY <1>2, <1>8, FS_CardinalityType
<1>10. lbCount = 1 => LbConnecting = {d}
  <2> SUFFICES ASSUME lbCount = 1 PROVE LbConnecting \ {d} = {}
    BY <1>6
  <2>1. Cardinality(LbConnecting') = 0
    BY <1>8
  <2>2. LbConnecting' = {}
    BY <1>8, <2>1, FS_EmptySet
  <2> QED BY <1>6, <2>2
<1> QED BY <1>1, <1>2, <1>5, <1>8, <1>9, <1>10 DEF LbCounted

\* The threads of process_device.
LEMMA LbProcessOK ==
  ASSUME LbInv, NEW d \in LbDevices, LbProcess(d) PROVE LbInv'
<1>1. lbProc \in [LbDevices -> {"none", "sleep", "open", "insert", "register", "over"}]
      /\ lbH \in [LbDevices -> LbHandle] /\ lbH[d] \in LbHandle
  BY DEF LbInv, UsbLibusbTypeOK
<1>2. CASE LbDescribe(d)
  <2>1. LbArrivals' /\ LbCounted'
    BY <1>2, LbGoesOn DEF LbDescribe
  <2>2. UsbLibusbTypeOK'
    BY <1>1, <1>2 DEF LbDescribe, LbInv, UsbLibusbTypeOK
  <2> QED BY <2>1, <2>2 DEF LbInv
<1>3. CASE LbReject(d)
  <2>1. LbArrivals' /\ LbCounted' /\ lbCount' \in Nat
        /\ lbProc' \in [LbDevices -> {"none", "sleep", "open", "insert", "register", "over"}]
    BY <1>3, LbEnds DEF LbReject
  <2>2. lbScan' \in BOOLEAN
    BY <1>3 DEF LbReject, LbProcessed, LbInv, UsbLibusbTypeOK
  <2>3. UsbLibusbTypeOK'
    BY <1>3, <2>1, <2>2 DEF LbReject, LbInv, UsbLibusbTypeOK
  <2> QED BY <2>1, <2>3 DEF LbInv
<1>4. CASE LbOpen(d)
  <2>1. LbArrivals' /\ LbCounted'
    BY <1>4, LbGoesOn DEF LbOpen
  <2>2. PICK w \in BOOLEAN : w = (lbDev[d] = "rw")
    OBVIOUS
  <2>3. [lbH[d] EXCEPT !.open = w, !.writable = w] \in LbHandle
    BY <1>1 DEF LbHandle
  <2>4. lbH' = [lbH EXCEPT ![d] = [lbH[d] EXCEPT !.open = w, !.writable = w]]
    BY <1>1, <1>4, <2>2 DEF LbOpen
  <2>5. lbH' \in [LbDevices -> LbHandle]
    BY <1>1, <2>3, <2>4
  <2>6. UsbLibusbTypeOK'
    BY <1>1, <1>4, <2>5 DEF LbOpen, LbInv, UsbLibusbTypeOK
  <2> QED BY <2>1, <2>6 DEF LbInv
<1>5. CASE LbInsert(d)
  <2>1. LbArrivals' /\ LbCounted'
    BY <1>5, LbGoesOn DEF LbInsert
  <2>2. lbH' \in [LbDevices -> LbHandle]
    BY <1>1, <1>5 DEF LbInsert, LbHandle
  <2>3. UsbLibusbTypeOK'
    BY <1>1, <1>5, <2>2 DEF LbInsert, LbInv, UsbLibusbTypeOK
  <2> QED BY <2>1, <2>3 DEF LbInv
<1>6. CASE LbRegister(d)
  <2>1. LbArrivals' /\ LbCounted' /\ lbCount' \in Nat
        /\ lbProc' \in [LbDevices -> {"none", "sleep", "open", "insert", "register", "over"}]
    BY <1>6, LbEnds DEF LbRegister
  <2>2. lbScan' \in BOOLEAN
    BY <1>6 DEF LbRegister, LbProcessed, LbInv, UsbLibusbTypeOK
  <2>3. lbH' \in [LbDevices -> LbHandle]
    BY <1>1, <1>6 DEF LbRegister, LbHandle
  <2>4. UsbLibusbTypeOK'
    BY <1>6, <2>1, <2>2, <2>3 DEF LbRegister, LbInv, UsbLibusbTypeOK
  <2> QED BY <2>1, <2>4 DEF LbInv
<1> QED BY <1>2, <1>3, <1>4, <1>5, <1>6 DEF LbProcess

\* The bus, the transfers and adb reconnect.
LEMMA LbEnvironmentOK ==
  ASSUME LbInv, LbEnvironment PROVE LbInv'
<1>1. PICK d \in LbDevices :
        \/ \E a \in {"rw", "ro"} : LbPlug(d, a)
        \/ LbUnplug(d)
        \/ \E r \in {"ok", "failed"} : LbTransfer(d, r)
        \/ LbReconnect(d)
  BY DEF LbEnvironment
<1>2. lbH \in [LbDevices -> LbHandle] /\ lbH[d] \in LbHandle
  BY DEF LbInv, UsbLibusbTypeOK
<1>3. ASSUME NEW r \in {"ok", "failed"}, LbTransfer(d, r) PROVE LbInv'
  <2>1. r \in LbTransferState
    BY DEF LbTransferState
  <2>2. lbH' \in [LbDevices -> LbHandle]
    BY <1>2, <1>3, <2>1 DEF LbTransfer, LbHandle
  <2>3. UsbLibusbTypeOK'
    BY <1>3, <2>2 DEF LbTransfer, LbInv, UsbLibusbTypeOK
  <2> QED BY <1>3, <2>3, LbQuiet DEF LbTransfer, lbArrival
<1>4. ASSUME LbReconnect(d) PROVE LbInv'
  <2>1. lbH' \in [LbDevices -> LbHandle]
    BY <1>2, <1>4 DEF LbReconnect, LbHandle
  <2>2. lbKicks' \in 0..LbMaxKicks
    BY <1>4, UsbLibusbAssumption DEF LbReconnect, LbInv, UsbLibusbTypeOK
  <2>3. UsbLibusbTypeOK'
    BY <1>4, <2>1, <2>2 DEF LbReconnect, LbInv, UsbLibusbTypeOK
  <2> QED BY <1>4, <2>3, LbQuiet DEF LbReconnect, lbArrival
<1> QED BY <1>1, <1>3, <1>4, LbPlugOK, LbUnplugOK

\* The main thread.
LEMMA LbMainThreadOK ==
  ASSUME LbInv, LbMainThread PROVE LbInv'
<1>1. lbH \in [LbDevices -> LbHandle]
      /\ lbRd \in [LbDevices -> LbThreadPc] /\ lbWr \in [LbDevices -> LbThreadPc]
  BY DEF LbInv, UsbLibusbTypeOK
<1>2. ASSUME NEW d \in LbDevices, LbList(d) PROVE LbInv'
  <2>1. PICK n \in 0..2 : n = IF lbH[d].writable THEN 2 ELSE 0
    OBVIOUS
  <2>2. [lbH[d] EXCEPT !.tr = "listed", !.refs = n] \in LbHandle
    BY <1>1 DEF LbHandle
  <2>3. lbH' = [lbH EXCEPT ![d] = [lbH[d] EXCEPT !.tr = "listed", !.refs = n]]
    BY <1>1, <1>2, <2>1 DEF LbList
  <2>4. lbH' \in [LbDevices -> LbHandle]
    BY <1>1, <2>2, <2>3
  <2>5. "idle" \in LbThreadPc
    BY DEF LbThreadPc
  <2>6. lbRd' \in [LbDevices -> LbThreadPc] /\ lbWr' \in [LbDevices -> LbThreadPc]
    BY <1>1, <1>2, <2>5 DEF LbList
  <2>7. UsbLibusbTypeOK'
    BY <1>2, <2>4, <2>6 DEF LbList, LbInv, UsbLibusbTypeOK
  <2> QED BY <1>2, <2>7, LbQuiet DEF LbList, lbArrival
<1>3. ASSUME NEW d \in LbDevices, LbRemove(d) PROVE LbInv'
  <2>1. lbH' \in [LbDevices -> LbHandle]
    BY <1>1, <1>3 DEF LbRemove, LbHandle
  <2>2. UsbLibusbTypeOK'
    BY <1>3, <2>1 DEF LbRemove, LbInv, UsbLibusbTypeOK
  <2> QED BY <1>3, <2>2, LbQuiet DEF LbRemove, lbArrival
<1>4. CASE LbKicking
  <2>1. lbMain \in LbDevices
    BY <1>4 DEF LbKicking, LbInv, UsbLibusbTypeOK
  <2>2. lbH' \in [LbDevices -> LbHandle]
    BY <1>1, <1>4, <2>1, LbClosed DEF LbKicking
  <2>3. UsbLibusbTypeOK'
    BY <1>4, <2>2 DEF LbKicking, LbInv, UsbLibusbTypeOK
  <2> QED BY <1>4, <2>3, LbQuiet DEF LbKicking, lbArrival
<1> QED BY <1>2, <1>3, <1>4 DEF LbMainThread

\* usb_read and usb_write.
LEMMA LbIoOK ==
  ASSUME LbInv, NEW d \in LbDevices,
         LbRead(d) \/ LbReadDone(d) \/ LbWrite(d) \/ LbWriteDone(d) \/ LbWriterEof(d)
  PROVE  LbInv'
<1>1. lbH \in [LbDevices -> LbHandle] /\ lbH[d] \in LbHandle
      /\ lbRd \in [LbDevices -> LbThreadPc] /\ lbWr \in [LbDevices -> LbThreadPc]
  BY DEF LbInv, UsbLibusbTypeOK
<1>2. {"idle", "wait", "kick"} \subseteq LbThreadPc /\ {"idle", "flying"} \subseteq LbTransferState
  BY DEF LbThreadPc, LbTransferState
<1>3. \A x \in LbTransferState : [lbH[d] EXCEPT !.in = x] \in LbHandle
                                 /\ [lbH[d] EXCEPT !.out = x] \in LbHandle
  BY <1>1 DEF LbHandle
<1>4. lbH[d].in \in LbTransferState /\ lbH[d].out \in LbTransferState
  BY <1>1 DEF LbHandle
<1>5. CASE LbRead(d)
  <2>1. PICK x \in LbTransferState : x = IF LbSubmits(d) THEN "flying" ELSE lbH[d].in
    BY <1>2, <1>4
  <2>2. lbH' = [lbH EXCEPT ![d] = [lbH[d] EXCEPT !.in = x]]
    BY <1>1, <1>5, <2>1 DEF LbRead
  <2>3. lbH' \in [LbDevices -> LbHandle]
    BY <1>1, <1>3, <2>2
  <2>4. lbRd' \in [LbDevices -> LbThreadPc]
    BY <1>1, <1>2, <1>5 DEF LbRead
  <2>5. UsbLibusbTypeOK'
    BY <1>5, <2>3, <2>4 DEF LbRead, LbInv, UsbLibusbTypeOK
  <2> QED BY <1>5, <2>5, LbQuiet DEF LbRead, lbArrival
<1>6. CASE LbReadDone(d)
  <2>1. lbH' = [lbH EXCEPT ![d] = [lbH[d] EXCEPT !.in = "idle"]]
    BY <1>1, <1>6 DEF LbReadDone
  <2>2. lbH' \in [LbDevices -> LbHandle]
    BY <1>1, <1>2, <1>3, <2>1
  <2>3. lbRd' \in [LbDevices -> LbThreadPc]
    BY <1>1, <1>2, <1>6 DEF LbReadDone
  <2>4. UsbLibusbTypeOK'
    BY <1>6, <2>2, <2>3 DEF LbReadDone, LbInv, UsbLibusbTypeOK
  <2> QED BY <1>6, <2>4, LbQuiet DEF LbReadDone, lbArrival
<1>7. CASE LbWrite(d)
  <2>1. PICK x \in LbTransferState : x = IF LbSubmits(d) THEN "flying" ELSE lbH[d].out
    BY <1>2, <1>4
  <2>2. lbH' = [lbH EXCEPT ![d] = [lbH[d] EXCEPT !.out = x]]
    BY <1>1, <1>7, <2>1 DEF LbWrite
  <2>3. lbH' \in [LbDevices -> LbHandle]
    BY <1>1, <1>3, <2>2
  <2>4. lbWr' \in [LbDevices -> LbThreadPc]
    BY <1>1, <1>2, <1>7 DEF LbWrite
  <2>5. UsbLibusbTypeOK'
    BY <1>7, <2>3, <2>4 DEF LbWrite, LbInv, UsbLibusbTypeOK
  <2> QED BY <1>7, <2>5, LbQuiet DEF LbWrite, lbArrival
<1>8. CASE LbWriteDone(d)
  <2>1. lbH' = [lbH EXCEPT ![d] = [lbH[d] EXCEPT !.out = "idle"]]
    BY <1>1, <1>8 DEF LbWriteDone
  <2>2. lbH' \in [LbDevices -> LbHandle]
    BY <1>1, <1>2, <1>3, <2>1
  <2>3. lbWr' \in [LbDevices -> LbThreadPc]
    BY <1>1, <1>2, <1>8 DEF LbWriteDone
  <2>4. UsbLibusbTypeOK'
    BY <1>8, <2>2, <2>3 DEF LbWriteDone, LbInv, UsbLibusbTypeOK
  <2> QED BY <1>8, <2>4, LbQuiet DEF LbWriteDone, lbArrival
<1>9. CASE LbWriterEof(d)
  <2>1. lbWr' \in [LbDevices -> LbThreadPc]
    BY <1>1, <1>2, <1>9 DEF LbWriterEof
  <2>2. UsbLibusbTypeOK'
    BY <1>9, <2>1 DEF LbWriterEof, LbInv, UsbLibusbTypeOK
  <2> QED BY <1>9, <2>2, LbQuiet DEF LbWriterEof, lbArrival
<1> QED BY <1>5, <1>6, <1>7, <1>8, <1>9

\* The end of a thread of a transport.
LEMMA LbEndOK ==
  ASSUME LbInv, NEW d \in LbDevices, NEW who \in {"r", "w"},
         LbThreadKick(d, who) \/ LbThreadKicking(d, who) \/ LbUnref(d, who)
  PROVE  LbInv'
<1>1. lbH \in [LbDevices -> LbHandle] /\ lbH[d] \in LbHandle /\ UsbLibusbTypeOK
  BY DEF LbInv, UsbLibusbTypeOK
<1>2. {"kicking", "unref", "over"} \subseteq LbThreadPc
  BY DEF LbThreadPc
<1>3. CASE LbThreadKick(d, who)
  <2>1. lbRd' \in [LbDevices -> LbThreadPc] /\ lbWr' \in [LbDevices -> LbThreadPc]
    <3>1. PICK to \in LbThreadPc : to = IF LbWillKick(d) THEN "kicking" ELSE "unref"
      BY <1>2
    <3>2. LbThread(d, who, "kick", to)
      BY <1>3, <3>1 DEF LbThreadKick
    <3> QED BY <1>1, <3>2, LbThreadOK
  <2>2. PICK k \in BOOLEAN : k = LbWillKick(d)
    BY DEF LbWillKick
  <2>3. PICK b \in BOOLEAN : b = (lbH[d].kicked \/ LbWillKick(d))
    OBVIOUS
  <2>4. [lbH[d] EXCEPT !.kicked = b] \in LbHandle
    BY <1>1 DEF LbHandle
  <2>5. lbH' = [lbH EXCEPT ![d] = [lbH[d] EXCEPT !.kicked = b]]
    BY <1>1, <1>3, <2>3 DEF LbThreadKick
  <2>6. lbH' \in [LbDevices -> LbHandle]
    BY <1>1, <2>4, <2>5
  <2>7. lbTL' \in BOOLEAN
    BY <1>3, <2>2 DEF LbThreadKick
  <2>8. UsbLibusbTypeOK'
    BY <1>3, <2>1, <2>6, <2>7 DEF LbThreadKick, LbInv, UsbLibusbTypeOK
  <2> QED BY <1>3, <2>8, LbQuiet DEF LbThreadKick, lbArrival
<1>4. CASE LbThreadKicking(d, who)
  <2>1. lbRd' \in [LbDevices -> LbThreadPc] /\ lbWr' \in [LbDevices -> LbThreadPc]
    BY <1>1, <1>2, <1>4, LbThreadOK DEF LbThreadKicking
  <2>2. lbH' \in [LbDevices -> LbHandle]
    BY <1>1, <1>4, LbClosed DEF LbThreadKicking
  <2>3. UsbLibusbTypeOK'
    BY <1>4, <2>1, <2>2 DEF LbThreadKicking, LbInv, UsbLibusbTypeOK
  <2> QED BY <1>4, <2>3, LbQuiet DEF LbThreadKicking, lbArrival
<1>5. CASE LbUnref(d, who)
  <2>1. lbRd' \in [LbDevices -> LbThreadPc] /\ lbWr' \in [LbDevices -> LbThreadPc]
    BY <1>1, <1>2, <1>5, LbThreadOK DEF LbUnref
  <2>2. lbH' \in [LbDevices -> LbHandle] /\ lbUp' \in BOOLEAN
    <3>1. CASE lbH' = [lbH EXCEPT ![d].refs = 1] /\ UNCHANGED lbUp
      <4>1. [lbH[d] EXCEPT !.refs = 1] \in LbHandle
        BY <1>1 DEF LbHandle
      <4> QED BY <1>1, <3>1, <4>1 DEF UsbLibusbTypeOK
    <3>2. CASE /\ lbH' = [lbH EXCEPT ![d] = [LbClose(@) EXCEPT !.refs = 0, !.place = "deleted"]]
               /\ lbUp' = (lbH[d].place = "map")
      <4>1. PICK r \in LbHandle : r = LbClose(lbH[d])
        BY <1>1, LbClosed
      <4>2. [r EXCEPT !.refs = 0, !.place = "deleted"] \in LbHandle
        <5>1. 0 \in 0..2
          OBVIOUS
        <5>2. PICK q \in LbHandle : q = [r EXCEPT !.refs = 0]
          BY <5>1 DEF LbHandle
        <5>3. [q EXCEPT !.place = "deleted"] \in LbHandle
          BY DEF LbHandle
        <5> QED BY <5>2, <5>3
      <4>3. lbH' = [lbH EXCEPT ![d] = [r EXCEPT !.refs = 0, !.place = "deleted"]]
        BY <3>2, <4>1
      <4> QED BY <1>1, <3>2, <4>2, <4>3
    <3> QED BY <1>5, <3>1, <3>2 DEF LbUnref
  <2>3. UsbLibusbTypeOK'
    BY <1>5, <2>1, <2>2 DEF LbUnref, LbInv, UsbLibusbTypeOK
  <2> QED BY <1>5, <2>3, LbQuiet DEF LbUnref, lbArrival
<1> QED BY <1>3, <1>4, <1>5

\* LbInv is inductive.
LEMMA LbInvNext == LbInv /\ [UsbLibusbNext]_lbVars => LbInv'
<1> SUFFICES ASSUME LbInv, [UsbLibusbNext]_lbVars PROVE LbInv'
  OBVIOUS
<1>1. CASE UNCHANGED lbVars
  <2>1. UsbLibusbTypeOK'
    BY <1>1 DEF lbVars, LbInv, UsbLibusbTypeOK
  <2> QED BY <1>1, <2>1, LbQuiet DEF lbVars, lbArrival
<1>2. ASSUME NEW d \in LbDevices, LbReader(d) \/ LbWriter(d) \/ LbWrite(d) PROVE LbInv'
  BY <1>2, LbIoOK, LbEndOK DEF LbReader, LbWriter
<1> QED
  BY <1>1, <1>2, LbEnvironmentOK, LbHotplugOK, LbMainThreadOK, LbProcessOK DEF UsbLibusbNext

\* LbInv holds always.
LEMMA LbAlways == UsbLibusbSpec => []LbInv
BY LbInvInit, LbInvNext, PTL DEF UsbLibusbSpec

\* The handles, the hotplug queue and the threads of the libusb transport keep
\* their types: connecting_devices is never decremented below zero.
THEOREM UsbLibusbTypeCorrect == UsbLibusbSpec => []UsbLibusbTypeOK
<1>1. LbInv => UsbLibusbTypeOK
  BY DEF LbInv
<1> QED BY <1>1, LbAlways, PTL

\* The step that completes the scan is that of the last device being connected.
LEMMA LbScanStep ==
  ASSUME LbInv, UsbLibusbNext, lbScan' # lbScan, NEW d \in LbDevices, lbDev[d] # "new"
  PROVE  lbProc'[d] = "over"
<1>1. PICK c \in LbDevices : LbReject(c) \/ LbRegister(c)
  BY DEF UsbLibusbNext, LbEnvironment, LbHotplug, LbMainThread, LbProcess, LbReader, LbWriter,
         LbPlug, LbUnplug, LbTransfer, LbReconnect, LbConnected, LbDisconnected, LbUnregister,
         LbDescribe, LbOpen, LbInsert, LbList, LbRemove, LbKicking, LbRead, LbReadDone,
         LbThreadKick, LbThreadKicking, LbUnref, LbWriteDone, LbWriterEof, LbWrite
<1>2. LbProcessed(c) /\ lbProc[c] \notin {"none", "over"} /\ UNCHANGED <<lbDev, lbQueue>>
  BY <1>1 DEF LbReject, LbRegister
<1>3. lbProc \in [LbDevices -> {"none", "sleep", "open", "insert", "register", "over"}]
      /\ lbScan \in BOOLEAN
  BY DEF LbInv, UsbLibusbTypeOK
<1>4. lbCount = 1
  BY <1>2, <1>3 DEF LbProcessed
<1>5. LbConnecting = {c}
  BY <1>2, <1>4, LbEnds
<1> QED BY <1>2, <1>3, <1>5 DEF LbConnecting, LbProcessed

\* The scan of the bus is complete only when every device that arrived has
\* been processed (connecting_devices, process_device), however arrivals,
\* departures and the threads of the devices interleave.
THEOREM ScanWaitsForAll == UsbLibusbSpec => ScanIsComplete
<1>1. LbInv /\ [UsbLibusbNext]_lbVars
        => [lbScan' # lbScan => \A d \in LbDevices : lbDev[d] # "new" => lbProc'[d] = "over"]_lbVars
  BY LbScanStep DEF lbVars
<1> QED BY <1>1, LbAlways, PTL DEF UsbLibusbSpec, ScanIsComplete

-----------------------------------------------------------------------------
(* The session's components together *)

\* What one component does leaves the others alone, so the composition that
\* TLC checks behaves as each component does.
THEOREM SessionImplementsParts == SessionSpec => Spec /\ AuthSpec /\ UsbLibusbSpec
<1>1. SessionInit => Init /\ AuthInit /\ UsbLibusbInit
  BY DEF SessionInit
<1>2. [SessionNext]_sessionVars => [Next]_vars
  BY DEF SessionNext, sessionVars
<1>3. [SessionNext]_sessionVars => [AuthNext]_authVars
  BY DEF SessionNext, sessionVars
<1>4. [SessionNext]_sessionVars => [UsbLibusbNext]_lbVars
  BY DEF SessionNext, sessionVars
<1> QED BY <1>1, <1>2, <1>3, <1>4, PTL DEF SessionSpec, Spec, AuthSpec, UsbLibusbSpec

\* The states of the authentication and of the USB devices keep their types
\* in the composition.
THEOREM SessionTypeCorrect == SessionSpec => []SessionTypeOK
BY SessionImplementsParts, AuthTypeCorrect, UsbLibusbTypeCorrect, PTL DEF SessionTypeOK

\* The safety of the transport, of the authentication and of the scan of the
\* bus, together.
THEOREM SessionIsSafe ==
  SessionSpec => /\ [](NoUseAfterFree /\ CloseAfterKick /\ OrderlyLife /\ RetryHasTransport)
                 /\ ScanIsComplete
<1>1. SessionSpec => ScanIsComplete
  BY SessionImplementsParts, ScanWaitsForAll, PTL
<1>2. SessionSpec => [](NoUseAfterFree /\ CloseAfterKick /\ OrderlyLife /\ RetryHasTransport)
  BY SessionImplementsParts, FreedIsUnused, ClosedIsKicked, LifeIsOrderly,
     RetriesHaveTransports, PTL
<1> QED BY <1>1, <1>2
=============================================================================
