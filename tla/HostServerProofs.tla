-------------------------- MODULE HostServerProofs --------------------------
(***************************************************************************)
(* Theorems about HostServer, for any sets of transports, clients and      *)
(* names and any number of requests.                                       *)
(***************************************************************************)
EXTENDS HostServer, FiniteSetTheorems, TLAPS

-----------------------------------------------------------------------------
(* The inductive invariant *)

HsTransportSet == [st : {"none", "pending", "listed"}, cs : HsStates, kicked : BOOLEAN,
                   down : BOOLEAN]
HsClientSet == [st : {"none", "smart", "remote", "open", "service", "track"},
                via : HsRefs, got : {HsNone, "OKAY", "FAIL", "due"},
                seen : HsLists, hung : BOOLEAN]

\* Transport t is on the list, can be opened, and its connection has not
\* ended.
HsUsable(t) == hsT[t].st = "listed" /\ hsT[t].down = FALSE /\ hsT[t].cs # "noperm"

\* A connection that has ended is that of a listed transport, offline.
HsDownInv == \A t \in HsTs : hsT[t].down = TRUE => hsT[t].st = "listed" /\ hsT[t].cs = "offline"

\* A listener with a transport forwards to it, the transport can be used,
\* and the callback is there and nowhere else; a reference that is stale has
\* no callback.
HsListenerInv ==
  /\ \A n \in HsNames : hsL[n].t \in HsTs =>
       /\ hsL[n].to = "remote" /\ HsUsable(hsL[n].t)
       /\ \A t \in HsTs : n \in hsD[t] <=> t = hsL[n].t
  /\ \A t \in HsTs : \A n \in hsD[t] : hsL[n].t = t

\* What a client's socket says: only a smart socket or a stream has a
\* transport, only a stream that is not open yet has no status.
HsClientOf(r) ==
  /\ r.via # HsNone => r.st \in {"smart", "remote", "open"}
  /\ r.got = "due" => r.st = "remote"

HsClientInv ==
  \A c \in HsClients : HsClientOf(hsC[c]) /\ (hsC[c].via \in HsTs => HsUsable(hsC[c].via))

\* device_tracker_list holds the trackers.
HsTrackerInv == \A c \in HsClients : hsTrackers[c] # 0 <=> hsC[c].st = "track"

\* The list says which accessible transports there are.
HsKnows(list, T) ==
  \A t \in HsTs : (\E cs \in HsStates \ {"noperm"} : <<t, cs>> \in list)
                  <=> T[t].st = "listed" /\ T[t].cs # "noperm"

HsKnowInv == \A c \in HsClients : hsC[c].st = "track" => HsKnows(hsC[c].seen, hsT)

HsInductive ==
  /\ HostServerTypeOK
  /\ HsDownInv /\ HsListenerInv /\ HsClientInv /\ HsTrackerInv /\ HsKnowInv

-----------------------------------------------------------------------------
(* Lemmas about the operators *)

\* What a pointer to a transport may be.
LEMMA HsRefsAre ==
  /\ HsNone \in HsRefs /\ HsStale \in HsRefs /\ HsTs \subseteq HsRefs
  /\ HsNone \notin HsTs /\ HsStale \notin HsTs /\ HsNone # HsStale
  /\ \A x \in HsRefs : x \in HsTs \/ x = HsNone \/ x = HsStale
BY HostServerAssumption DEF HsRefs, HsNone, HsStale, HsTs

\* The type of the state, with names for its parts.
LEMMA HsTypes ==
  HostServerTypeOK <=>
    /\ hsT \in [HsTs -> HsTransportSet]
    /\ hsL \in [HsNames -> [to : {HsNone, "smart", "remote"}, t : HsRefs]]
    /\ hsD \in [HsTs -> SUBSET HsNames]
    /\ hsC \in [HsClients -> HsClientSet]
    /\ hsW \in [HsClients -> [pc : {"none", "poll", "read", "connect"},
                              t : HsTs \cup {HsNone}, tgt : HsTargets \cup {"any"},
                              want : {"device", "any"}]]
    /\ hsTrackers \in [HsClients -> 0..HsMaxRequests]
    /\ hsSent \in 0..HsMaxRequests /\ hsPlugs \in 0..HsMaxPlugs
BY DEF HostServerTypeOK, HsTransportSet, HsClientSet

\* list_transports gives a list that says which transports there are.
LEMMA HsListKnows ==
  ASSUME NEW T \in [HsTs -> HsTransportSet]
  PROVE  HsList(T) \in HsLists /\ HsKnows(HsList(T), T)
<1>1. HsList(T) \in HsLists
  BY DEF HsList, HsLists, HsTransportSet
<1>2. \A t \in HsTs, cs \in HsStates :
        <<t, cs>> \in HsList(T) <=> T[t].st = "listed" /\ T[t].cs = cs
  BY DEF HsList
<1> QED BY <1>1, <1>2 DEF HsKnows, HsTransportSet

\* acquire_one_transport gives nothing or a transport that can be used: one
\* that is online has not gone down.
LEMMA HsAcquireUsable ==
  ASSUME HsInductive, NEW tgt, HsAcquire(tgt) # HsNone
  PROVE  HsAcquire(tgt) \in HsTs /\ HsUsable(HsAcquire(tgt))
<1> DEFINE m == HsMatches(tgt)
<1>1. /\ Cardinality(m) = 1 /\ \A t \in m : hsT[t].cs \in HsOnline
      /\ HsAcquire(tgt) = CHOOSE t \in m : TRUE
  BY DEF HsAcquire, HsAcquired
<1>2. m # {}
  BY <1>1, FS_EmptySet
<1>3. HsAcquire(tgt) \in m
  BY <1>1, <1>2
<1>4. \A t \in m : t \in HsTs /\ hsT[t].st = "listed" /\ hsT[t].cs # "noperm"
  BY DEF HsMatches
<1>5. \A t \in m : hsT[t].down = FALSE
  <2>1. \A t \in HsTs : hsT[t] \in HsTransportSet
    BY HsTypes DEF HsInductive
  <2> QED BY <1>1, <1>4, <2>1 DEF HsInductive, HsDownInv, HsOnline, HsTransportSet
<1> QED BY <1>3, <1>4, <1>5 DEF HsUsable

\* The invariant says what the properties do.
LEMMA HsInductiveIsEnough ==
  HsInductive => NoDanglingTransport /\ NoSilentClose /\ TrackersKnowDevices
<1> SUFFICES ASSUME HsInductive PROVE NoDanglingTransport /\ NoSilentClose /\ TrackersKnowDevices
  OBVIOUS
<1>1. NoDanglingTransport
  BY DEF HsInductive, HsListenerInv, HsClientInv, HsUsable, NoDanglingTransport
<1>2. NoSilentClose
  BY DEF HsInductive, HsClientInv, HsClientOf, NoSilentClose
<1>3. TrackersKnowDevices
  BY DEF HsInductive, HsKnowInv, HsKnows, TrackersKnowDevices
<1> QED BY <1>1, <1>2, <1>3

\* The state the server starts in.
LEMMA HsInitially == HostServerInit => HsInductive
<1> SUFFICES ASSUME HostServerInit PROVE HsInductive
  OBVIOUS
<1> USE HostServerAssumption DEF HostServerInit, HsNone
<1>1. hsT \in [HsTs -> HsTransportSet]
  BY DEF HsTransportSet, HsStates
<1>2. hsC \in [HsClients -> HsClientSet]
  BY HsRefsAre DEF HsClientSet, HsFresh, HsLists
<1>3. hsW \in [HsClients -> [pc : {"none", "poll", "read", "connect"},
                             t : HsTs \cup {HsNone}, tgt : HsTargets \cup {"any"},
                             want : {"device", "any"}]]
  BY DEF HsIdleThread
<1>4. /\ hsL \in [HsNames -> [to : {HsNone, "smart", "remote"}, t : HsRefs]]
      /\ hsD \in [HsTs -> SUBSET HsNames] /\ hsTrackers \in [HsClients -> 0..HsMaxRequests]
      /\ hsSent \in 0..HsMaxRequests /\ hsPlugs \in 0..HsMaxPlugs
  BY HsRefsAre
<1>5. HostServerTypeOK
  BY <1>1, <1>2, <1>3, <1>4, HsTypes
<1>6. HsDownInv /\ HsListenerInv
  BY HsRefsAre DEF HsDownInv, HsListenerInv
<1>7. HsClientInv /\ HsTrackerInv /\ HsKnowInv
  BY HsRefsAre DEF HsClientInv, HsClientOf, HsTrackerInv, HsKnowInv, HsFresh
<1> QED BY <1>5, <1>6, <1>7 DEF HsInductive

-----------------------------------------------------------------------------
(* What a client does *)

\* Nothing that clients see of the transports changes.
HsQuiet ==
  /\ hsT' \in [HsTs -> HsTransportSet]
  /\ \A t \in HsTs : /\ hsT'[t].st = "listed" <=> hsT[t].st = "listed"
                     /\ hsT[t].st = "listed" => hsT'[t].cs = hsT[t].cs
                     /\ hsT'[t].down = hsT[t].down

HsThreadSet == [pc : {"none", "poll", "read", "connect"}, t : HsTs \cup {HsNone},
                tgt : HsTargets \cup {"any"}, want : {"device", "any"}]

\* What else the step of a client may change: the listeners, as long as
\* their part of the invariant holds, and the threads and counters.
HsRest ==
  /\ hsL' \in [HsNames -> [to : {HsNone, "smart", "remote"}, t : HsRefs]]
  /\ hsD' \in [HsTs -> SUBSET HsNames]
  /\ hsW' \in [HsClients -> HsThreadSet]
  /\ hsSent' \in 0..HsMaxRequests /\ hsPlugs' \in 0..HsMaxPlugs
  /\ HsListenerInv'

\* The step of one client keeps the invariant if its new record r is fit,
\* whatever it does to the listeners within HsRest.
LEMMA HsOneClient ==
  ASSUME HsInductive, NEW c \in HsClients, NEW r \in HsClientSet, HsQuiet, HsRest,
         hsC' = [hsC EXCEPT ![c] = r],
         HsClientOf(r), r.via \in HsTs => HsUsable(r.via),
         r.st = "track" => HsKnows(r.seen, hsT),
         NEW k \in 0..HsMaxRequests, hsTrackers' = [hsTrackers EXCEPT ![c] = k],
         k # 0 <=> r.st = "track"
  PROVE  HsInductive'
<1>1. hsC'[c] = r /\ \A d \in HsClients \ {c} : hsC'[d] = hsC[d]
  BY HsTypes DEF HsInductive
<1>2. hsTrackers'[c] = k /\ \A d \in HsClients \ {c} : hsTrackers'[d] = hsTrackers[d]
  BY HsTypes DEF HsInductive
<1>3. HostServerTypeOK'
  BY HsTypes DEF HsInductive, HsQuiet, HsRest, HostServerTypeOK, HsTransportSet, HsClientSet,
                 HsThreadSet
<1>4. HsDownInv'
  BY DEF HsInductive, HsDownInv, HsQuiet
<1>5. \A d \in HsClients : hsC[d].via \in HsRefs
  BY HsTypes DEF HsInductive, HsClientSet
<1>6. \A t \in HsTs : HsUsable(t)' <=> HsUsable(t)
  BY DEF HsUsable, HsQuiet
<1>7. r.via \in HsRefs
  BY DEF HsClientSet
<1>8. HsClientInv'
  BY <1>1, <1>5, <1>6, <1>7 DEF HsInductive, HsClientInv
<1>9. HsTrackerInv'
  BY <1>1, <1>2 DEF HsInductive, HsTrackerInv
<1>10. \A l : HsKnows(l, hsT)' <=> HsKnows(l, hsT)
  BY DEF HsKnows, HsQuiet
<1>11. HsKnowInv'
  BY <1>1, <1>10 DEF HsInductive, HsKnowInv
<1> QED BY <1>3, <1>4, <1>8, <1>9, <1>11 DEF HsInductive, HsRest

\* A transport that is kicked stays what it was for clients.
LEMMA HsQuietSteps ==
  ASSUME HsInductive
  PROVE  /\ UNCHANGED hsT => HsQuiet
         /\ \A ts : hsT' = HsKicked(ts) => HsQuiet
<1>1. UNCHANGED hsT => HsQuiet
  BY HsTypes DEF HsInductive, HsQuiet
<1>2. ASSUME NEW ts, hsT' = HsKicked(ts) PROVE HsQuiet
  <2>1. \A t \in HsTs : hsT[t] \in HsTransportSet
    BY HsTypes DEF HsInductive
  <2>2. \A t \in HsTs : [hsT[t] EXCEPT !.kicked = TRUE] \in HsTransportSet
    BY <2>1 DEF HsTransportSet
  <2>3. \A t \in HsTs : hsT'[t] = hsT[t] \/ hsT'[t] = [hsT[t] EXCEPT !.kicked = TRUE]
    BY <1>2 DEF HsKicked
  <2>4. hsT' \in [HsTs -> HsTransportSet]
    BY <1>2, <2>1, <2>2 DEF HsKicked
  <2>5. \A t \in HsTs : LET k == [hsT[t] EXCEPT !.kicked = TRUE]
                        IN k.st = hsT[t].st /\ k.cs = hsT[t].cs /\ k.down = hsT[t].down
    BY <2>1 DEF HsTransportSet
  <2> QED BY <2>3, <2>4, <2>5 DEF HsQuiet
<1> QED BY <1>1, <1>2

\* Steps that leave the listeners alone.
LEMMA HsRestSame ==
  ASSUME HsInductive, HsQuiet, UNCHANGED <<hsL, hsD>>,
         hsW' \in [HsClients -> HsThreadSet],
         hsSent' \in 0..HsMaxRequests, hsPlugs' \in 0..HsMaxPlugs
  PROVE  HsRest
<1>1. \A n \in HsNames : hsL[n].t \in HsRefs
  BY HsTypes DEF HsInductive
<1>2. \A t \in HsTs : HsUsable(t)' <=> HsUsable(t)
  BY DEF HsUsable, HsQuiet
<1>3. HsListenerInv'
  BY <1>1, <1>2 DEF HsInductive, HsListenerInv
<1> QED BY <1>3, HsTypes DEF HsInductive, HsRest

\* The record of a closed socket.
LEMMA HsOverIs ==
  ASSUME NEW s \in {HsNone, "OKAY", "FAIL", "due"}
  PROVE  /\ HsOver(s) \in HsClientSet
         /\ HsOver(s).st = "none" /\ HsOver(s).via = HsNone /\ HsOver(s).got = s
BY HsRefsAre DEF HsOver, HsFresh, HsClientSet, HsLists, HsNone

\* A request that is answered at once and closes the client's socket.
LEMMA HsReplyKeeps ==
  ASSUME HsInductive, NEW c \in HsClients, NEW s \in {HsNone, "OKAY", "FAIL"},
         HsReply(c, s), hsC[c].st # "track", HsQuiet, HsRest, UNCHANGED hsTrackers
  PROVE  HsInductive'
<1>1. /\ HsOver(s) \in HsClientSet
      /\ HsOver(s).st = "none" /\ HsOver(s).via = HsNone /\ HsOver(s).got = s
  BY HsOverIs
<1>2. hsTrackers[c] = 0 /\ hsTrackers' = [hsTrackers EXCEPT ![c] = 0] /\ 0 \in 0..HsMaxRequests
  BY HsTypes, HostServerAssumption DEF HsInductive, HsTrackerInv
<1>3. HsClientOf(HsOver(s))
  BY <1>1 DEF HsClientOf, HsNone
<1> QED BY HsRefsAre, <1>1, <1>2, <1>3, HsOneClient DEF HsReply

\* What HsAsks gives.
LEMMA HsAsksIs ==
  ASSUME HsInductive, NEW c \in HsClients, HsAsks(c)
  PROVE  /\ hsC[c].st = "smart" /\ hsC[c].st # "track" /\ hsTrackers[c] = 0
         /\ hsSent' \in 1..HsMaxRequests /\ hsSent' \in 0..HsMaxRequests
         /\ hsTrackers = [hsTrackers EXCEPT ![c] = 0] /\ 0 \in 0..HsMaxRequests
<1>1. hsC[c].st = "smart" /\ hsC[c].st # "track" /\ hsTrackers[c] = 0
  BY DEF HsAsks, HsInductive, HsTrackerInv
<1>2. hsSent' \in 1..HsMaxRequests /\ hsSent' \in 0..HsMaxRequests
  BY HostServerAssumption, HsTypes DEF HsAsks, HsInductive
<1> QED BY <1>1, <1>2, HsTypes, HostServerAssumption DEF HsInductive

\* Requests that touch neither listeners nor threads and are answered at
\* once.
LEMMA HsAnswered ==
  ASSUME HsInductive, NEW c \in HsClients, NEW tgt \in HsTargets,
         HsSimple(c) \/ HsAskState(c, tgt) \/ HsDisconnect(c, tgt) \/ HsReconnect(c, tgt)
  PROVE  HsInductive'
<1>0. HsAsks(c) /\ UNCHANGED <<hsL, hsD, hsW, hsTrackers, hsPlugs>>
  BY DEF HsSimple, HsAskState, HsDisconnect, HsReconnect
<1>1. HsQuiet
  BY HsQuietSteps DEF HsSimple, HsAskState, HsDisconnect, HsReconnect
<1>2. \E s \in {HsNone, "OKAY", "FAIL"} : HsReply(c, s)
  <2>1. CASE HsSimple(c)
    BY <2>1 DEF HsSimple
  <2>2. CASE HsAskState(c, tgt)
    BY <2>2 DEF HsAskState
  <2>3. CASE HsDisconnect(c, tgt)
    BY <2>3 DEF HsDisconnect
  <2>4. CASE HsReconnect(c, tgt)
    BY <2>4 DEF HsReconnect
  <2> QED BY <2>1, <2>2, <2>3, <2>4
<1>3. HsRest
  BY <1>0, <1>1, HsRestSame, HsAsksIs, HsTypes DEF HsInductive, HsThreadSet
<1> QED BY <1>0, <1>1, <1>2, <1>3, HsAsksIs, HsReplyKeeps

\* transport: the smart socket keeps a transport that can be used.
LEMMA HsTransportKeeps ==
  ASSUME HsInductive, NEW c \in HsClients, NEW tgt \in HsTargets, HsTransport(c, tgt)
  PROVE  HsInductive'
<1> DEFINE t == HsAcquire(tgt)
           r == [hsC[c] EXCEPT !.got = IF t = HsNone THEN "FAIL" ELSE "OKAY",
                               !.via = IF t = HsNone THEN hsC[c].via ELSE t]
<1>0. HsAsks(c) /\ UNCHANGED <<hsT, hsL, hsD, hsW, hsTrackers, hsPlugs>>
  BY DEF HsTransport
<1>1. hsC[c] \in HsClientSet /\ hsC[c].st = "smart"
  BY <1>0, HsTypes, HsAsksIs DEF HsInductive
<1>2. t # HsNone => t \in HsTs /\ HsUsable(t)
  BY HsAcquireUsable
<1>3. hsC' = [hsC EXCEPT ![c] = r]
  BY HsTypes DEF HsInductive, HsTransport
<1> HIDE DEF t
<1>4. r \in HsClientSet
  BY HsRefsAre, <1>1, <1>2 DEF HsClientSet
<1>5. /\ r.st = "smart" /\ r.got \in {"OKAY", "FAIL"}
      /\ (r.via = hsC[c].via \/ (t # HsNone /\ r.via = t))
  BY <1>1 DEF HsClientSet
<1> HIDE DEF r
<1>6. HsClientOf(r) /\ (r.via \in HsTs => HsUsable(r.via))
  BY <1>2, <1>5 DEF HsClientOf, HsInductive, HsClientInv
<1>7. HsQuiet
  BY <1>0, HsQuietSteps
<1>8. HsRest
  BY <1>0, <1>7, HsRestSame, HsAsksIs, HsTypes DEF HsInductive, HsThreadSet
<1> QED BY <1>0, <1>3, <1>4, <1>5, <1>6, <1>7, <1>8, HsAsksIs, HsOneClient

\* forward: the listener and its callback go to a transport that can be
\* used.
LEMMA HsForwardKeeps ==
  ASSUME HsInductive, NEW c \in HsClients, NEW tgt \in HsTargets, NEW n \in HsNames,
         HsForward(c, tgt, n)
  PROVE  HsInductive'
<1> DEFINE t == HsAcquire(tgt)
<1>0. HsAsks(c) /\ UNCHANGED <<hsT, hsW, hsTrackers, hsPlugs>>
  BY DEF HsForward
<1>1. HsQuiet
  BY <1>0, HsQuietSteps
<1>2. CASE HsReply(c, "FAIL") /\ UNCHANGED <<hsL, hsD>>
  <2>1. HsRest
    BY <1>0, <1>1, <1>2, HsRestSame, HsAsksIs, HsTypes DEF HsInductive, HsThreadSet
  <2> QED BY <1>0, <1>1, <1>2, <2>1, HsAsksIs, HsReplyKeeps
<1>3. CASE /\ t # HsNone /\ hsD' = HsBound(n, t) /\ HsReply(c, "OKAY")
           /\ hsL' = [hsL EXCEPT ![n] = [to |-> "remote", t |-> t]]
  <2>1. t \in HsTs /\ HsUsable(t)
    BY <1>3, HsAcquireUsable
  <2> HIDE DEF t
  <2>2. /\ hsL' \in [HsNames -> [to : {HsNone, "smart", "remote"}, t : HsRefs]]
        /\ hsD' \in [HsTs -> SUBSET HsNames]
    BY HsRefsAre, <1>3, <2>1, HsTypes DEF HsInductive, HsBound
  <2>3. /\ hsL'[n].to = "remote" /\ hsL'[n].t = t
        /\ \A m \in HsNames \ {n} : hsL'[m] = hsL[m]
    BY <1>3, HsTypes DEF HsInductive
  <2>4. /\ \A u \in HsTs : n \in hsD'[u] <=> u = t
        /\ \A u \in HsTs : \A m \in HsNames \ {n} : m \in hsD'[u] <=> m \in hsD[u]
    BY <1>3 DEF HsBound
  <2>5. \A m \in HsNames : hsL[m].t \in HsRefs
    BY HsTypes DEF HsInductive
  <2>7. HsListenerInv'
    <3>1. \A m \in HsNames : hsL'[m].t \in HsTs =>
            /\ hsL'[m].to = "remote" /\ HsUsable(hsL'[m].t)
            /\ \A u \in HsTs : m \in hsD'[u] <=> u = hsL'[m].t
      BY <2>1, <2>3, <2>4, <2>5 DEF HsInductive, HsListenerInv
    <3>2. \A u \in HsTs : \A m \in hsD'[u] : m \in HsNames
      BY <2>2
    <3>3. \A u \in HsTs : \A m \in hsD'[u] : hsL'[m].t = u
      BY <2>3, <2>4, <3>2 DEF HsInductive, HsListenerInv
    <3> QED BY <1>0, <3>1, <3>3 DEF HsListenerInv, HsUsable
  <2>8. HsRest
    BY <1>0, <2>2, <2>7, HsAsksIs, HsTypes DEF HsInductive, HsRest, HsThreadSet
  <2> QED BY <1>0, <1>1, <1>3, <2>8, HsAsksIs, HsReplyKeeps
<1> QED BY <1>2, <1>3 DEF HsForward

\* killforward, killforward-all: a listener goes with its callback.
LEMMA HsEraseKeeps ==
  ASSUME HsInductive, NEW c \in HsClients, NEW ns \in SUBSET HsNames, HsErase(ns),
         NEW s \in {"OKAY", "FAIL"}, HsReply(c, s), HsAsks(c),
         UNCHANGED <<hsT, hsW, hsTrackers, hsPlugs>>
  PROVE  HsInductive'
<1> USE DEF HsNone
<1>1. HsQuiet
  BY HsQuietSteps
<1>2. /\ hsL' \in [HsNames -> [to : {HsNone, "smart", "remote"}, t : HsRefs]]
      /\ hsD' \in [HsTs -> SUBSET HsNames]
  BY HsRefsAre, HsTypes DEF HsInductive, HsErase
<1>3. /\ \A m \in ns : hsL'[m].t = HsNone
      /\ \A m \in HsNames \ ns : hsL'[m] = hsL[m]
      /\ \A u \in HsTs : \A m \in HsNames : m \in hsD'[u] <=> m \in hsD[u] /\ m \notin ns
  BY DEF HsErase
<1>4. \A m \in HsNames : hsL[m].t \in HsRefs
  BY HsTypes DEF HsInductive
<1>6. HsListenerInv'
  <2>1. \A m \in HsNames : hsL'[m].t \in HsTs =>
          /\ hsL'[m].to = "remote" /\ HsUsable(hsL'[m].t)
          /\ \A u \in HsTs : m \in hsD'[u] <=> u = hsL'[m].t
    BY HsRefsAre, <1>3, <1>4 DEF HsInductive, HsListenerInv
  <2>2. \A u \in HsTs : \A m \in hsD'[u] : m \in HsNames
    BY <1>2
  <2>3. \A u \in HsTs : \A m \in hsD'[u] : hsL'[m].t = u
    BY <1>3, <2>2 DEF HsInductive, HsListenerInv
  <2> QED BY <2>1, <2>3 DEF HsListenerInv, HsUsable
<1>7. HsRest
  BY <1>2, <1>6, HsAsksIs, HsTypes DEF HsInductive, HsRest, HsThreadSet
<1> QED BY <1>1, <1>7, HsAsksIs, HsReplyKeeps

\* Nothing changes for any client.
LEMMA HsNoClient ==
  ASSUME HsInductive, HsQuiet, HsRest, UNCHANGED <<hsC, hsTrackers>>
  PROVE  HsInductive'
<1>1. HostServerTypeOK'
  BY HsTypes DEF HsInductive, HsQuiet, HsRest, HostServerTypeOK, HsTransportSet, HsClientSet,
                 HsThreadSet
<1>2. HsDownInv'
  BY DEF HsInductive, HsDownInv, HsQuiet
<1>3. \A d \in HsClients : hsC[d].via \in HsRefs
  BY HsTypes DEF HsInductive, HsClientSet
<1>4. \A t \in HsTs : HsUsable(t)' <=> HsUsable(t)
  BY DEF HsUsable, HsQuiet
<1>5. HsClientInv' /\ HsTrackerInv'
  BY <1>3, <1>4 DEF HsInductive, HsClientInv, HsTrackerInv
<1>6. \A l : HsKnows(l, hsT)' <=> HsKnows(l, hsT)
  BY DEF HsKnows, HsQuiet
<1>7. HsKnowInv'
  BY <1>6 DEF HsInductive, HsKnowInv
<1> QED BY <1>1, <1>2, <1>5, <1>7 DEF HsInductive, HsRest

\* The requests that leave the client's socket open: a service of the
\* device, the tracker, the services with a thread.
LEMMA HsStays ==
  ASSUME HsInductive, NEW c \in HsClients, HsAsks(c),
         UNCHANGED <<hsT, hsL, hsD, hsPlugs>>, hsW' \in [HsClients -> HsThreadSet],
         NEW r \in HsClientSet, hsC' = [hsC EXCEPT ![c] = r],
         HsClientOf(r), r.via # HsNone => r.via = hsC[c].via,
         r.st = "track" => r.seen = HsList(hsT),
         hsTrackers' = IF r.st = "track" THEN [hsTrackers EXCEPT ![c] = hsSent'] ELSE hsTrackers
  PROVE  HsInductive'
<1>1. HsQuiet
  BY HsQuietSteps
<1>2. HsRest
  BY <1>1, HsAsksIs, HsRestSame, HsTypes DEF HsInductive
<1>3. r.via \in HsTs => HsUsable(r.via)
  BY HsRefsAre DEF HsInductive, HsClientInv
<1>4. r.st = "track" => HsKnows(r.seen, hsT)
  BY HsListKnows, HsTypes DEF HsInductive
<1>5. CASE r.st = "track"
  <2>1. hsSent' \in 0..HsMaxRequests /\ hsSent' # 0
    BY HsAsksIs, HostServerAssumption
  <2> QED BY <1>1, <1>2, <1>3, <1>4, <1>5, <2>1, HsOneClient
<1>6. CASE r.st # "track"
  BY <1>1, <1>2, <1>3, <1>6, HsAsksIs, HsOneClient
<1> QED BY <1>5, <1>6

\* Every request keeps the invariant.
LEMMA HsHandleKeeps ==
  ASSUME HsInductive, NEW c \in HsClients, HsHandle(c)
  PROVE  HsInductive'
<1>0. /\ hsC[c] \in HsClientSet /\ hsW \in [HsClients -> HsThreadSet]
      /\ hsC \in [HsClients -> HsClientSet] /\ hsT \in [HsTs -> HsTransportSet]
  BY HsTypes DEF HsInductive, HsThreadSet
<1>1. CASE HsSimple(c)
  <2>1. HsAsks(c) /\ UNCHANGED <<hsT, hsL, hsD, hsW, hsTrackers, hsPlugs>>
    BY <1>1 DEF HsSimple
  <2>2. HsQuiet
    BY <2>1, HsQuietSteps
  <2>3. HsRest
    BY <1>0, <2>1, <2>2, HsRestSame, HsAsksIs, HsTypes DEF HsInductive
  <2> QED BY <1>1, <2>1, <2>2, <2>3, HsAsksIs, HsReplyKeeps DEF HsSimple
<1>2. CASE HsKillForwardAll(c)
  <2>1. {n \in HsNames : hsL[n].to = "remote"} \in SUBSET HsNames
    OBVIOUS
  <2> QED BY <1>2, <2>1, HsEraseKeeps DEF HsKillForwardAll
<1>3. CASE HsService(c)
  <2>0. HsAsks(c) /\ hsC[c].st = "smart" /\ UNCHANGED <<hsT, hsL, hsD, hsW, hsTrackers, hsPlugs>>
    BY <1>3 DEF HsService, HsAsks
  <2>1. CASE HsReply(c, "FAIL")
    <3>1. HsQuiet
      BY <2>0, HsQuietSteps
    <3>2. HsRest
      BY <1>0, <2>0, <3>1, HsRestSame, HsAsksIs, HsTypes DEF HsInductive
    <3> QED BY <2>0, <2>1, <3>1, <3>2, HsAsksIs, HsReplyKeeps
  <2>2. CASE hsC' = [hsC EXCEPT ![c].st = "remote", ![c].got = "due"]
    <3> DEFINE r == [hsC[c] EXCEPT !.st = "remote", !.got = "due"]
    <3>1. r \in HsClientSet /\ r.st = "remote" /\ r.got = "due" /\ r.via = hsC[c].via
      BY <1>0 DEF HsClientSet
    <3>2. hsC' = [hsC EXCEPT ![c] = r]
      BY <1>0, <2>2
    <3> HIDE DEF r
    <3>3. HsClientOf(r)
      BY <3>1 DEF HsClientOf
    <3> QED BY <1>0, <2>0, <3>1, <3>2, <3>3, HsStays
  <2> QED BY <1>3, <2>1, <2>2 DEF HsService
<1>4. CASE HsTrack(c)
  <2> DEFINE r == [HsFresh EXCEPT !.st = "track", !.got = "OKAY", !.seen = HsList(hsT)]
  <2>1. HsList(hsT) \in HsLists
    BY <1>0, HsListKnows
  <2>2. /\ r \in HsClientSet /\ r.st = "track" /\ r.got = "OKAY" /\ r.via = HsNone
        /\ r.seen = HsList(hsT)
    BY HsRefsAre, <2>1 DEF HsClientSet, HsFresh, HsNone
  <2>3. hsC' = [hsC EXCEPT ![c] = r]
    BY <1>4 DEF HsTrack
  <2> HIDE DEF r
  <2>4. HsClientOf(r)
    BY <2>2 DEF HsClientOf
  <2> QED BY <1>0, <1>4, <2>2, <2>3, <2>4, HsStays DEF HsTrack
<1>5. ASSUME NEW pc \in {"poll", "connect"}, NEW tgt \in HsTargets \cup {"any"},
             NEW want \in {"device", "any"}, HsStartThread(c, pc, tgt, want)
      PROVE  HsInductive'
  <2> DEFINE r == [HsFresh EXCEPT !.st = "service", !.got = "OKAY"]
  <2>1. r \in HsClientSet /\ r.st = "service" /\ r.got = "OKAY" /\ r.via = HsNone
    BY HsRefsAre DEF HsClientSet, HsFresh, HsNone, HsLists
  <2>2. hsC' = [hsC EXCEPT ![c] = r]
    BY <1>5 DEF HsStartThread
  <2> HIDE DEF r
  <2>3. HsClientOf(r)
    BY <2>1 DEF HsClientOf
  <2>4. hsW' \in [HsClients -> HsThreadSet]
    BY <1>0, <1>5 DEF HsStartThread, HsThreadSet
  <2> QED BY <1>5, <2>1, <2>2, <2>3, <2>4, HsStays DEF HsStartThread
<1>6. ASSUME NEW tgt \in HsTargets,
             HsAskState(c, tgt) \/ HsDisconnect(c, tgt) \/ HsReconnect(c, tgt)
      PROVE  HsInductive'
  BY <1>6, HsAnswered
<1>7. ASSUME NEW tgt \in HsTargets, NEW n \in HsNames, HsKillForward(c, tgt, n)
      PROVE  HsInductive'
  BY <1>7, HsEraseKeeps DEF HsKillForward
<1> QED BY <1>1, <1>2, <1>3, <1>4, <1>5, <1>6, <1>7, HsTransportKeeps, HsForwardKeeps DEF HsHandle

\* A socket is accepted or hung up, and the stream behind it opens or ends.
LEMMA HsSocketKeeps ==
  ASSUME HsInductive, NEW c \in HsClients,
         HsAccept(c) \/ HsHangUp(c) \/ HsGone(c) \/ HsRemote(c)
           \/ \E n \in HsNames : HsAcceptForward(c, n)
  PROVE  HsInductive'
<1> USE HostServerAssumption
<1>0. /\ hsC[c] \in HsClientSet /\ hsW \in [HsClients -> HsThreadSet]
      /\ hsC \in [HsClients -> HsClientSet] /\ hsTrackers \in [HsClients -> 0..HsMaxRequests]
      /\ hsSent \in 0..HsMaxRequests /\ hsPlugs \in 0..HsMaxPlugs
  BY HsTypes DEF HsInductive, HsThreadSet
<1>1. HsQuiet
  <2>1. UNCHANGED hsT
    BY DEF HsAccept, HsHangUp, HsGone, HsRemote, HsAcceptForward
  <2> QED BY <2>1, HsQuietSteps
<1>2. HsRest
  <2>1. UNCHANGED <<hsL, hsD, hsW, hsPlugs>> /\ hsSent' \in 0..HsMaxRequests
    <3>1. /\ UNCHANGED <<hsL, hsD, hsW, hsPlugs>>
          /\ hsSent' = hsSent \/ (hsSent < HsMaxRequests /\ hsSent' = hsSent + 1)
      BY DEF HsAccept, HsHangUp, HsGone, HsRemote, HsAcceptForward
    <3> QED BY <1>0, <3>1
  <2> QED BY <1>0, <1>1, <2>1, HsRestSame
<1>3. /\ hsC[c].st # "track" => hsTrackers[c] = 0 /\ hsTrackers = [hsTrackers EXCEPT ![c] = 0]
      /\ 0 \in 0..HsMaxRequests
  BY <1>0 DEF HsInductive, HsTrackerInv
<1>4. HsClientOf(hsC[c]) /\ (hsC[c].via \in HsTs => HsUsable(hsC[c].via))
  BY DEF HsInductive, HsClientInv
<1>5. CASE HsAccept(c)
  <2> DEFINE r == [HsFresh EXCEPT !.st = "smart"]
  <2>1. r \in HsClientSet /\ r.st = "smart" /\ r.via = HsNone /\ r.got = HsNone
    BY HsRefsAre DEF HsClientSet, HsFresh, HsLists
  <2>2. hsC' = [hsC EXCEPT ![c] = r] /\ hsTrackers' = hsTrackers /\ hsC[c].st = "none"
    BY <1>5 DEF HsAccept
  <2> HIDE DEF r
  <2>3. HsClientOf(r)
    BY <2>1 DEF HsClientOf, HsNone
  <2> QED BY HsRefsAre, <1>1, <1>2, <1>3, <2>1, <2>2, <2>3, HsOneClient
<1>6. ASSUME NEW n \in HsNames, HsAcceptForward(c, n) PROVE HsInductive'
  <2> DEFINE r == [HsFresh EXCEPT !.st = "open", !.via = hsL[n].t]
  <2>0. hsL[n].t \in HsRefs /\ (hsL[n].t \in HsTs => HsUsable(hsL[n].t))
    BY HsTypes DEF HsInductive, HsListenerInv
  <2>1. r \in HsClientSet /\ r.st = "open" /\ r.via = hsL[n].t /\ r.got = HsNone
    BY <2>0 DEF HsClientSet, HsFresh, HsLists
  <2>2. hsC' = [hsC EXCEPT ![c] = r] /\ hsTrackers' = hsTrackers /\ hsC[c].st = "none"
    BY <1>6 DEF HsAcceptForward
  <2> HIDE DEF r
  <2>3. HsClientOf(r)
    BY <2>1 DEF HsClientOf, HsNone
  <2> QED BY <1>1, <1>2, <1>3, <2>0, <2>1, <2>2, <2>3, HsOneClient
<1>7. CASE HsHangUp(c)
  <2> DEFINE r == [hsC[c] EXCEPT !.hung = TRUE]
  <2>1. /\ r \in HsClientSet /\ r.st = hsC[c].st /\ r.via = hsC[c].via /\ r.got = hsC[c].got
        /\ r.seen = hsC[c].seen
    BY <1>0 DEF HsClientSet
  <2>2. hsC' = [hsC EXCEPT ![c] = r]
    BY <1>0, <1>7 DEF HsHangUp
  <2>3. hsTrackers' = [hsTrackers EXCEPT ![c] = hsTrackers[c]] /\ hsTrackers[c] \in 0..HsMaxRequests
    BY <1>0, <1>7 DEF HsHangUp
  <2> HIDE DEF r
  <2>4. HsClientOf(r)
    BY <1>4, <2>1 DEF HsClientOf
  <2>5. r.st = "track" => HsKnows(r.seen, hsT)
    BY <2>1 DEF HsInductive, HsKnowInv
  <2>6. hsTrackers[c] # 0 <=> r.st = "track"
    BY <2>1 DEF HsInductive, HsTrackerInv
  <2> QED BY <1>1, <1>2, <1>4, <2>1, <2>2, <2>3, <2>4, <2>5, <2>6, HsOneClient
<1>8. CASE HsGone(c)
  <2>1. /\ HsOver(HsNone) \in HsClientSet /\ HsOver(HsNone).st = "none"
        /\ HsOver(HsNone).via = HsNone /\ HsClientOf(HsOver(HsNone))
    BY HsOverIs DEF HsClientOf, HsNone
  <2>2. /\ hsC' = [hsC EXCEPT ![c] = HsOver(HsNone)]
        /\ hsTrackers' = [hsTrackers EXCEPT ![c] = 0] /\ 0 \in 0..HsMaxRequests
    BY <1>8 DEF HsGone
  <2> QED BY HsRefsAre, <1>1, <1>2, <2>1, <2>2, HsOneClient
<1>9. CASE HsRemote(c)
  <2>0. hsC[c].st \in {"remote", "open"} /\ UNCHANGED hsTrackers
    BY <1>9 DEF HsRemote
  <2>1. CASE hsC' = [hsC EXCEPT ![c].st = "open", ![c].got = "OKAY"]
    <3> DEFINE r == [hsC[c] EXCEPT !.st = "open", !.got = "OKAY"]
    <3>1. r \in HsClientSet /\ r.st = "open" /\ r.via = hsC[c].via /\ r.got = "OKAY"
      BY <1>0 DEF HsClientSet
    <3>2. hsC' = [hsC EXCEPT ![c] = r]
      BY <1>0, <2>1
    <3> HIDE DEF r
    <3>3. HsClientOf(r)
      BY <3>1 DEF HsClientOf
    <3> QED BY <1>1, <1>2, <1>3, <1>4, <2>0, <3>1, <3>2, <3>3, HsOneClient
  <2>2. CASE HsReply(c, IF hsC[c].st = "remote" THEN "FAIL" ELSE hsC[c].got)
    <3>1. hsC[c].st # "remote" => hsC[c].got \in {HsNone, "OKAY", "FAIL"}
      BY <1>0, <1>4 DEF HsClientOf, HsClientSet
    <3> QED BY <1>1, <1>2, <2>0, <2>2, <3>1, HsReplyKeeps
  <2> QED BY <1>9, <2>1, <2>2 DEF HsRemote
<1> QED BY <1>5, <1>6, <1>7, <1>8, <1>9

\* The end of a service thread answers a client that still listens.
LEMMA HsEndKeeps ==
  ASSUME HsInductive, NEW c \in HsClients, NEW s \in {HsNone, "OKAY", "FAIL"}, HsEnd(c, s),
         HsQuiet, UNCHANGED <<hsL, hsD, hsTrackers, hsSent>>, hsPlugs' \in 0..HsMaxPlugs
  PROVE  HsInductive'
<1>1. hsW' \in [HsClients -> HsThreadSet]
  BY HsTypes DEF HsInductive, HsThreadSet, HsEnd, HsIdleThread
<1>2. HsRest
  BY <1>1, HsTypes, HsRestSame DEF HsInductive
<1>3. CASE hsC[c].st = "service"
  BY <1>2, <1>3, HsReplyKeeps DEF HsEnd, HsReply
<1>4. CASE hsC[c].st # "service"
  BY <1>2, <1>4, HsNoClient DEF HsEnd
<1> QED BY <1>3, <1>4

\* The threads behind wait-for- and connect.
LEMMA HsThreadKeeps ==
  ASSUME HsInductive, NEW c \in HsClients, HsThread(c)
  PROVE  HsInductive'
<1> USE HostServerAssumption
<1>0. /\ hsW \in [HsClients -> HsThreadSet] /\ hsT \in [HsTs -> HsTransportSet]
      /\ hsSent \in 0..HsMaxRequests /\ hsPlugs \in 0..HsMaxPlugs
  BY HsTypes DEF HsInductive, HsThreadSet
<1>1. ASSUME UNCHANGED <<hsT, hsL, hsD, hsC, hsTrackers, hsSent, hsPlugs>>,
             hsW' \in [HsClients -> HsThreadSet]
      PROVE  HsInductive'
  <2>1. HsQuiet
    BY <1>1, HsQuietSteps
  <2>2. HsRest
    BY <1>0, <1>1, <2>1, HsRestSame
  <2> QED BY <1>1, <2>1, <2>2, HsNoClient
<1>2. CASE HsPoll(c)
  <2> DEFINE m == HsMatches(hsW[c].tgt)
  <2>0. HsQuiet
    BY <1>2, HsQuietSteps DEF HsPoll
  <2>1. CASE Cardinality(m) > 1 /\ HsEnd(c, "FAIL")
    BY <1>0, <1>2, <2>0, <2>1, HsEndKeeps DEF HsPoll
  <2>2. CASE HsEnd(c, HsNone)
    BY <1>0, <1>2, <2>0, <2>2, HsEndKeeps DEF HsPoll
  <2>3. CASE /\ Cardinality(m) = 1 /\ UNCHANGED hsC
             /\ hsW' = [hsW EXCEPT ![c].pc = "read", ![c].t = CHOOSE t \in m : TRUE]
    <3>1. m # {}
      <4> HIDE DEF m
      <4> QED BY <2>3, FS_EmptySet
    <3>2. (CHOOSE t \in m : TRUE) \in HsTs
      BY <3>1 DEF HsMatches
    <3> DEFINE u == CHOOSE t \in m : TRUE
    <3> HIDE DEF u
    <3>3. hsW' \in [HsClients -> HsThreadSet]
      <4>1. [hsW[c] EXCEPT !.pc = "read", !.t = u] \in HsThreadSet
        BY <1>0, <3>2 DEF HsThreadSet, u
      <4>2. hsW' = [hsW EXCEPT ![c] = [hsW[c] EXCEPT !.pc = "read", !.t = u]]
        <5>1. hsW' = [hsW EXCEPT ![c].pc = "read", ![c].t = u]
          BY <2>3, Zenon DEF u
        <5> QED BY <1>0, <5>1
      <4> QED BY <1>0, <4>1, <4>2
    <3> QED BY <1>1, <1>2, <2>3, <3>3 DEF HsPoll
  <2> QED BY <1>2, <2>1, <2>2, <2>3 DEF HsPoll
<1>3. CASE HsRead(c)
  <2>0. HsQuiet
    BY <1>3, HsQuietSteps DEF HsRead
  <2>1. CASE HsEnd(c, "OKAY") \/ HsEnd(c, HsNone)
    BY <1>0, <1>3, <2>0, <2>1, HsEndKeeps DEF HsRead
  <2>2. CASE hsW' = [hsW EXCEPT ![c].pc = "poll", ![c].t = HsNone] /\ UNCHANGED hsC
    <3>1. hsW' \in [HsClients -> HsThreadSet]
      <4>1. [hsW[c] EXCEPT !.pc = "poll", !.t = HsNone] \in HsThreadSet
        BY <1>0 DEF HsThreadSet
      <4>2. hsW' = [hsW EXCEPT ![c] = [hsW[c] EXCEPT !.pc = "poll", !.t = HsNone]]
        BY <1>0, <2>2
      <4> QED BY <1>0, <4>1, <4>2
    <3> QED BY <1>1, <1>3, <2>2, <3>1 DEF HsRead
  <2> QED BY <1>3, <2>1, <2>2 DEF HsRead
<1>4. CASE HsConnectEnd(c)
  <2>1. CASE UNCHANGED <<hsT, hsPlugs>>
    BY <1>0, <1>4, <2>1, HsQuietSteps, HsEndKeeps DEF HsConnectEnd
  <2>2. ASSUME NEW t \in HsTcp, hsT[t].st = "none", hsPlugs < HsMaxPlugs,
               hsT' = [hsT EXCEPT ![t].st = "pending", ![t].cs = "offline"],
               hsPlugs' = hsPlugs + 1
        PROVE  HsInductive'
    <3>1. t \in HsTs
      BY DEF HsTs
    <3>2. hsT' \in [HsTs -> HsTransportSet]
      <4>1. [hsT[t] EXCEPT !.st = "pending", !.cs = "offline"] \in HsTransportSet
        BY <1>0, <3>1 DEF HsTransportSet, HsStates
      <4>2. hsT' = [hsT EXCEPT ![t] = [hsT[t] EXCEPT !.st = "pending", !.cs = "offline"]]
        BY <1>0, <2>2, <3>1
      <4> QED BY <1>0, <3>1, <4>1, <4>2
    <3>3. /\ \A u \in HsTs \ {t} : hsT'[u] = hsT[u]
          /\ hsT'[t].st = "pending" /\ hsT'[t].down = hsT[t].down
      BY <1>0, <2>2, <3>1 DEF HsTransportSet
    <3>4. HsQuiet
      BY <2>2, <3>1, <3>2, <3>3 DEF HsQuiet
    <3>5. hsPlugs' \in 0..HsMaxPlugs
      BY <1>0, <2>2
    <3> QED BY <1>4, <3>4, <3>5, HsEndKeeps DEF HsConnectEnd
  <2> QED BY <1>4, <2>1, <2>2 DEF HsConnectEnd
<1> QED BY <1>2, <1>3, <1>4 DEF HsThread

-----------------------------------------------------------------------------
(* What happens to a transport *)

\* register_usb_transport, register_socket_transport: nobody sees it yet.
LEMMA HsRegisterKeeps ==
  ASSUME HsInductive, NEW t \in HsTs, HsRegister(t)
  PROVE  HsInductive'
<1> USE HostServerAssumption
<1>0. hsT \in [HsTs -> HsTransportSet] /\ hsPlugs \in 0..HsMaxPlugs
  BY HsTypes DEF HsInductive
<1>1. PICK cs \in {"offline", "noperm"} :
        hsT' = [hsT EXCEPT ![t] = [st |-> "pending", cs |-> cs, kicked |-> FALSE, down |-> FALSE]]
  BY DEF HsRegister
<1>2. hsT' \in [HsTs -> HsTransportSet]
  BY <1>0, <1>1 DEF HsTransportSet, HsStates
<1>3. /\ \A u \in HsTs \ {t} : hsT'[u] = hsT[u]
      /\ hsT'[t].st = "pending" /\ hsT'[t].down = FALSE
  BY <1>0, <1>1
<1>4. hsT[t].st = "none" /\ hsT[t].down = FALSE
  <2>1. hsT[t] \in HsTransportSet /\ hsT[t].st = "none"
    BY <1>0 DEF HsRegister
  <2> QED BY <2>1 DEF HsInductive, HsDownInv, HsTransportSet
<1>5. HsQuiet
  BY <1>2, <1>3, <1>4 DEF HsQuiet
<1>6. UNCHANGED <<hsL, hsD, hsC, hsW, hsTrackers, hsSent>> /\ hsPlugs' \in 0..HsMaxPlugs
  BY <1>0 DEF HsRegister
<1>7. HsRest
  BY <1>5, <1>6, HsTypes, HsRestSame DEF HsInductive, HsThreadSet
<1> QED BY <1>5, <1>6, <1>7, HsNoClient

\* An event of one transport leaves the records of the others alone.
HsOnly(t) ==
  /\ hsT' \in [HsTs -> HsTransportSet]
  /\ \A u \in HsTs \ {t} : hsT'[u] = hsT[u]

\* The listeners are the same, or those with a callback at t are deleted, or
\* t is deleted before them.
HsListenersOf(t) ==
  \/ /\ hsL' = [n \in HsNames |-> [hsL[n] EXCEPT !.t = IF @ = t THEN HsStale ELSE @]]
     /\ hsD' = [hsD EXCEPT ![t] = {}]
  \/ UNCHANGED <<hsL, hsD>>
  \/ hsL' = HsDropped(t) /\ hsD' = [hsD EXCEPT ![t] = {}]

\* The listeners after an event of t, if t can be used or nobody refers to
\* it any more.
LEMMA HsListenersKeep ==
  ASSUME HsInductive, NEW t \in HsTs, HsOnly(t), HsListenersOf(t),
         HsUsable(t)' \/ \A n \in HsNames : hsL'[n].t # t
  PROVE  /\ hsL' \in [HsNames -> [to : {HsNone, "smart", "remote"}, t : HsRefs]]
         /\ hsD' \in [HsTs -> SUBSET HsNames]
         /\ HsListenerInv'
<1>0. /\ hsL \in [HsNames -> [to : {HsNone, "smart", "remote"}, t : HsRefs]]
      /\ hsD \in [HsTs -> SUBSET HsNames]
  BY HsTypes DEF HsInductive
<1>1. /\ hsL' \in [HsNames -> [to : {HsNone, "smart", "remote"}, t : HsRefs]]
      /\ hsD' \in [HsTs -> SUBSET HsNames]
  <2>1. CASE UNCHANGED <<hsL, hsD>>
    BY <1>0, <2>1
  <2>2. CASE hsL' = HsDropped(t) /\ hsD' = [hsD EXCEPT ![t] = {}]
    BY <1>0, <2>2, HsRefsAre DEF HsDropped
  <2>3. CASE /\ hsL' = [n \in HsNames |-> [hsL[n] EXCEPT !.t = IF @ = t THEN HsStale ELSE @]]
             /\ hsD' = [hsD EXCEPT ![t] = {}]
    BY <1>0, <2>3, HsRefsAre
  <2> QED BY <2>1, <2>2, <2>3 DEF HsListenersOf
<1>2. /\ \A n \in HsNames : hsL'[n].t \notin HsTs \/ (hsL'[n] = hsL[n] /\ \A u \in HsTs : n \in hsD'[u] <=> n \in hsD[u])
      /\ \A u \in HsTs : \A n \in hsD'[u] : n \in hsD[u] /\ hsL'[n] = hsL[n]
  <2>1. CASE UNCHANGED <<hsL, hsD>>
    BY <2>1
  <2>3. CASE /\ hsL' = [n \in HsNames |-> [hsL[n] EXCEPT !.t = IF @ = t THEN HsStale ELSE @]]
             /\ hsD' = [hsD EXCEPT ![t] = {}]
    <3>1. hsD'[t] = {} /\ \A u \in HsTs \ {t} : hsD'[u] = hsD[u]
      BY <1>0, <2>3
    <3>2. \A n \in HsNames : IF hsL[n].t = t THEN hsL'[n].t = HsStale ELSE hsL'[n] = hsL[n]
      BY <1>0, <2>3
    <3>3. HsStale \notin HsTs
      BY HostServerAssumption DEF HsStale, HsTs
    <3>4. \A u \in HsTs : \A n \in hsD[u] : n \in HsNames /\ hsL[n].t = u
      BY <1>0 DEF HsInductive, HsListenerInv
    <3> QED BY <3>1, <3>2, <3>3, <3>4
  <2>2. CASE hsL' = HsDropped(t) /\ hsD' = [hsD EXCEPT ![t] = {}]
    <3>1. hsD'[t] = {} /\ \A u \in HsTs \ {t} : hsD'[u] = hsD[u]
      BY <1>0, <2>2
    <3>2. \A n \in HsNames : IF n \in hsD[t] /\ hsL[n].to # HsNone
                             THEN hsL'[n].t \notin HsTs ELSE hsL'[n] = hsL[n]
      BY <2>2, HostServerAssumption DEF HsDropped, HsNone, HsTs
    <3>3. \A n \in HsNames : n \in hsD[t] => hsL[n].to # HsNone
      BY HostServerAssumption DEF HsInductive, HsListenerInv, HsNone, HsTs
    <3>4. \A u \in HsTs \ {t} : \A n \in hsD[u] : n \in HsNames /\ n \notin hsD[t]
      BY <1>0 DEF HsInductive, HsListenerInv
    <3> QED BY <3>1, <3>2, <3>3, <3>4
  <2> QED BY <2>1, <2>2, <2>3 DEF HsListenersOf
<1>5. \A n \in HsNames : hsL'[n].t \in HsTs =>
        /\ hsL'[n].to = "remote" /\ hsL'[n].t \in HsTs
        /\ hsL'[n].t # t => HsUsable(hsL'[n].t)
        /\ \A u \in HsTs : n \in hsD'[u] <=> u = hsL'[n].t
  BY <1>1, <1>2 DEF HsInductive, HsListenerInv
<1>6. \A u \in HsTs : \A n \in hsD'[u] : hsL'[n].t = u
  BY <1>2 DEF HsInductive, HsListenerInv
<1>7. HsListenerInv'
  <2> SUFFICES ASSUME NEW n \in HsNames, hsL'[n].t \in HsTs
               PROVE  /\ hsT'[hsL'[n].t].st = "listed" /\ hsT'[hsL'[n].t].down = FALSE
                      /\ hsT'[hsL'[n].t].cs # "noperm"
    BY <1>5, <1>6 DEF HsListenerInv, HsUsable
  <2>1. CASE hsL'[n].t = t
    BY <2>1 DEF HsUsable
  <2>2. CASE hsL'[n].t # t
    BY <1>5, <2>2 DEF HsOnly, HsUsable
  <2> QED BY <2>1, <2>2
<1> QED BY <1>1, <1>7

\* A client's socket after an event: the same but for what a tracker has
\* seen and a reference that became stale, or closed with a status that is
\* not due.
HsAfter(r, q) ==
  \/ q.st = r.st /\ q.got = r.got /\ (q.via = r.via \/ (q.via = HsStale /\ r.via # HsNone))
  \/ q.st = "none" /\ q.via = HsNone /\ q.got # "due"

\* An event of one transport keeps the invariant if t can be used after it
\* or nobody refers to it any more.
LEMMA HsEventOf ==
  ASSUME HsInductive, NEW t \in HsTs, HsOnly(t), HsListenersOf(t),
         hsT'[t].down = TRUE => hsT'[t].st = "listed" /\ hsT'[t].cs = "offline",
         HsUsable(t)' \/ (/\ \A n \in HsNames : hsL'[n].t # t
                          /\ \A c \in HsClients : hsC'[c].via # t),
         UNCHANGED <<hsW, hsSent, hsPlugs>>,
         hsC' \in [HsClients -> HsClientSet],
         \A c \in HsClients : HsAfter(hsC[c], hsC'[c]),
         hsTrackers' \in [HsClients -> 0..HsMaxRequests],
         HsTrackerInv', HsKnowInv'
  PROVE  HsInductive'
<1>1. /\ hsL' \in [HsNames -> [to : {HsNone, "smart", "remote"}, t : HsRefs]]
      /\ hsD' \in [HsTs -> SUBSET HsNames]
      /\ HsListenerInv'
  BY HsListenersKeep
<1>2. HostServerTypeOK'
  BY <1>1, HsTypes DEF HsInductive, HsOnly, HostServerTypeOK, HsTransportSet, HsClientSet
<1>3. HsDownInv'
  BY DEF HsInductive, HsDownInv, HsOnly
<1>4. HsClientInv'
  <2> SUFFICES ASSUME NEW c \in HsClients
               PROVE  /\ HsClientOf(hsC'[c])
                      /\ hsC'[c].via \in HsTs =>
                           /\ hsT'[hsC'[c].via].st = "listed" /\ hsT'[hsC'[c].via].down = FALSE
                           /\ hsT'[hsC'[c].via].cs # "noperm"
    BY DEF HsClientInv, HsUsable, HsClientOf
  <2>1. HsClientOf(hsC[c]) /\ (hsC[c].via \in HsTs => HsUsable(hsC[c].via))
    BY DEF HsInductive, HsClientInv
  <2>2. HsClientOf(hsC'[c])
    BY <2>1 DEF HsAfter, HsClientOf
  <2>3. CASE hsC'[c].via = t
    BY <2>2, <2>3 DEF HsUsable
  <2>4. CASE hsC'[c].via # t
    <3>1. hsC'[c].via \in HsRefs
      BY DEF HsClientSet
    <3> QED BY HsRefsAre, <2>1, <2>2, <2>4, <3>1 DEF HsAfter, HsUsable, HsOnly
  <2> QED BY <2>3, <2>4
<1> QED BY <1>1, <1>2, <1>3, <1>4 DEF HsInductive

\* update_transports tells every tracker, wherever it is on the list, or
\* closes it.
LEMMA HsUpdateTells ==
  ASSUME HsInductive, NEW T \in [HsTs -> HsTransportSet], NEW C \in [HsClients -> HsClientSet],
         HsUpdate(T, C), \A c \in HsClients : HsAfter(hsC[c], C[c]),
         \A c \in HsClients : hsC[c].st = "track" => C[c] = hsC[c]
  PROVE  /\ hsC' \in [HsClients -> HsClientSet]
         /\ hsTrackers' \in [HsClients -> 0..HsMaxRequests]
         /\ \A c \in HsClients : HsAfter(hsC[c], hsC'[c]) /\ (hsC'[c].via # HsNone => hsC'[c].via = C[c].via)
         /\ HsTrackerInv' /\ HsKnowInv'
<1>0. /\ hsTrackers \in [HsClients -> 0..HsMaxRequests] /\ hsC \in [HsClients -> HsClientSet]
      /\ 0 \in 0..HsMaxRequests
  BY HsTypes, HostServerAssumption DEF HsInductive
<1>1. HsList(T) \in HsLists /\ HsKnows(HsList(T), T) /\ hsT' = T
  BY HsListKnows DEF HsUpdate
<1>2. \A c \in HsClients : c \in HsWalk <=> hsC[c].st = "track"
  BY DEF HsWalk, HsInductive, HsTrackerInv
<1>3. \A c \in HsClients \ HsWalk : hsC'[c] = C[c] /\ hsTrackers'[c] = 0 /\ hsC'[c].st # "track"
  <2>1. \A c \in HsClients \ HsWalk : hsC'[c] = C[c] /\ hsTrackers'[c] = hsTrackers[c]
    BY DEF HsUpdate
  <2>2. \A c \in HsClients \ HsWalk : hsTrackers[c] = 0 /\ C[c].st # "track"
    BY <1>2 DEF HsWalk, HsAfter
  <2> QED BY <2>1, <2>2
<1>4. ASSUME NEW c \in HsWalk, hsC[c].hung
      PROVE  /\ c \in HsClients /\ hsC'[c] \in HsClientSet /\ hsC'[c].st = "none"
             /\ hsC'[c].via = HsNone /\ hsC'[c].got # "due" /\ hsTrackers'[c] = 0
  <2>1. c \in HsClients
    BY DEF HsWalk
  <2>2. hsC'[c] = HsOver(hsC[c].got) /\ hsTrackers'[c] = 0
    BY <1>2, <1>4, <2>1 DEF HsUpdate
  <2>3. hsC[c].got \in {HsNone, "OKAY", "FAIL"}
    BY <1>0, <1>2, <2>1 DEF HsClientSet, HsInductive, HsClientInv, HsClientOf
  <2> QED BY <2>1, <2>2, <2>3, HsOverIs DEF HsNone
<1>5. ASSUME NEW c \in HsWalk, ~hsC[c].hung
      PROVE  /\ c \in HsClients /\ hsC'[c] \in HsClientSet /\ hsC'[c].st = "track"
             /\ hsC'[c].via = hsC[c].via /\ hsC'[c].got = hsC[c].got
             /\ hsC'[c].seen = HsList(T) /\ hsTrackers'[c] = hsTrackers[c] /\ hsTrackers[c] # 0
  <2>1. c \in HsClients /\ hsTrackers[c] # 0
    BY DEF HsWalk
  <2>2. hsC'[c] = [hsC[c] EXCEPT !.seen = HsList(T)] /\ hsTrackers'[c] = hsTrackers[c]
    BY <1>2, <1>5, <2>1 DEF HsUpdate
  <2>3. hsC[c] \in HsClientSet /\ hsC[c].st = "track"
    BY <1>0, <1>2, <2>1
  <2> QED BY <1>1, <2>1, <2>2, <2>3 DEF HsClientSet
<1>6. hsC' \in [HsClients -> HsClientSet] /\ hsTrackers' \in [HsClients -> 0..HsMaxRequests]
  <2>1. \A c \in HsClients : hsC'[c] \in HsClientSet /\ hsTrackers'[c] \in 0..HsMaxRequests
    BY <1>0, <1>3, <1>4, <1>5
  <2>2. hsC' = [c \in HsClients |-> hsC'[c]] /\ hsTrackers' = [c \in HsClients |-> hsTrackers'[c]]
    BY DEF HsUpdate
  <2> QED BY <2>1, <2>2
<1>7. \A c \in HsClients : HsAfter(hsC[c], hsC'[c]) /\ (hsC'[c].via # HsNone => hsC'[c].via = C[c].via)
  BY <1>2, <1>3, <1>4, <1>5 DEF HsAfter
<1>8. HsTrackerInv'
  BY <1>3, <1>4, <1>5 DEF HsTrackerInv
<1>9. HsKnowInv'
  BY <1>1, <1>3, <1>4, <1>5 DEF HsKnowInv
<1> QED BY <1>6, <1>7, <1>8, <1>9

\* A transport that cannot be used is not referred to.
LEMMA HsUnused ==
  ASSUME HsInductive, NEW t \in HsTs, ~HsUsable(t)
  PROVE  /\ \A n \in HsNames : hsL[n].t # t
         /\ \A c \in HsClients : hsC[c].via # t
<1>1. t # HsNone
  BY HostServerAssumption DEF HsTs, HsNone
<1> QED BY <1>1 DEF HsInductive, HsListenerInv, HsClientInv

\* A state that changes without update_transports leaves what the trackers
\* know true, if the transport stays accessible or was not.
LEMMA HsStillKnown ==
  ASSUME HsInductive, NEW t \in HsTs, HsOnly(t), UNCHANGED hsTrackers,
         hsT'[t].st = "listed" /\ hsT'[t].cs # "noperm" <=> hsT[t].st = "listed" /\ hsT[t].cs # "noperm",
         \A c \in HsClients : hsC[c].st = "track" => hsC'[c] = hsC[c],
         \A c \in HsClients : hsC[c].st # "track" => hsC'[c].st # "track"
  PROVE  HsTrackerInv' /\ HsKnowInv'
<1>1. \A l : HsKnows(l, hsT)' <=> HsKnows(l, hsT)
  BY DEF HsKnows, HsOnly
<1>2. HsTrackerInv'
  BY DEF HsInductive, HsTrackerInv
<1>3. HsKnowInv'
  BY <1>1 DEF HsInductive, HsKnowInv
<1> QED BY <1>2, <1>3

\* close_all_sockets: the sockets of t, and only they, are closed.
LEMMA HsClosedIs ==
  ASSUME HsInductive, NEW t \in HsTs, NEW c \in HsClients
  PROVE  /\ HsClosed(c, t) \in HsClientSet /\ HsAfter(hsC[c], HsClosed(c, t))
         /\ HsClosed(c, t).via # t
         /\ hsC[c].st = "track" => HsClosed(c, t) = hsC[c]
<1>1. t # HsNone
  BY HostServerAssumption DEF HsTs, HsNone
<1>2. hsC[c] \in HsClientSet /\ HsClientOf(hsC[c])
  BY HsTypes DEF HsInductive, HsClientInv
<1>3. CASE hsC[c].via # t
  BY <1>2, <1>3 DEF HsClosed, HsAfter
<1>4. CASE hsC[c].via = t
  <2>1. PICK s \in {HsNone, "OKAY", "FAIL"} : HsClosed(c, t) = HsOver(s)
    BY <1>2, <1>4 DEF HsClosed, HsClientOf, HsClientSet
  <2>2. hsC[c].st # "track"
    BY <1>1, <1>2, <1>4 DEF HsClientOf
  <2> QED BY <1>1, <2>1, <2>2, HsOverIs DEF HsAfter, HsNone
<1> QED BY <1>3, <1>4

\* The events that are not followed by update_transports.
LEMMA HsUntold ==
  ASSUME HsInductive, NEW t \in HsTs, HsUnauthorized(t) \/ HsOffline(t) \/ HsUnregister(t)
  PROVE  HsInductive'
<1>0. /\ hsT \in [HsTs -> HsTransportSet] /\ hsT[t] \in HsTransportSet
      /\ hsC \in [HsClients -> HsClientSet]
      /\ hsTrackers \in [HsClients -> 0..HsMaxRequests]
  BY HsTypes DEF HsInductive
<1>1. CASE HsUnauthorized(t)
  <2>1. /\ hsT[t].st = "listed" /\ hsT[t].cs = "offline" /\ hsT[t].down = FALSE
        /\ hsT' = [hsT EXCEPT ![t].cs = "unauthorized"]
        /\ UNCHANGED <<hsL, hsD, hsC, hsW, hsTrackers, hsSent, hsPlugs>>
    BY <1>0, <1>1 DEF HsUnauthorized, HsTransportSet
  <2>2. HsOnly(t) /\ hsT'[t].st = "listed" /\ hsT'[t].cs = "unauthorized" /\ hsT'[t].down = FALSE
    BY <1>0, <2>1 DEF HsOnly, HsTransportSet, HsStates
  <2>3. HsTrackerInv' /\ HsKnowInv'
    BY <2>1, <2>2, HsStillKnown
  <2>4. HsUsable(t)' /\ HsListenersOf(t)
    BY <2>1, <2>2 DEF HsUsable, HsListenersOf
  <2>5. \A c \in HsClients : HsAfter(hsC[c], hsC'[c])
    BY <2>1 DEF HsAfter
  <2> QED BY <1>0, <2>1, <2>2, <2>3, <2>4, <2>5, HsEventOf
<1>2. CASE HsOffline(t)
  <2>1. /\ hsT[t].st = "listed" /\ hsT[t].cs # "noperm"
        /\ hsT' = [hsT EXCEPT ![t].cs = "offline", ![t].down = TRUE]
        /\ hsC' = [c \in HsClients |-> HsClosed(c, t)]
        /\ hsL' = HsDropped(t) /\ hsD' = [hsD EXCEPT ![t] = {}]
        /\ UNCHANGED <<hsW, hsTrackers, hsSent, hsPlugs>>
    BY <1>2 DEF HsOffline
  <2>2. HsOnly(t) /\ hsT'[t].st = "listed" /\ hsT'[t].cs = "offline"
    <3> DEFINE r == [hsT[t] EXCEPT !.cs = "offline", !.down = TRUE]
    <3>1. r \in HsTransportSet /\ r.st = hsT[t].st /\ r.cs = "offline"
      BY <1>0 DEF HsTransportSet, HsStates
    <3>2. hsT' = [hsT EXCEPT ![t] = r]
      BY <1>0, <2>1
    <3> HIDE DEF r
    <3> QED BY <1>0, <2>1, <3>1, <3>2 DEF HsOnly
  <2>3. /\ hsC' \in [HsClients -> HsClientSet]
        /\ \A c \in HsClients : HsAfter(hsC[c], hsC'[c]) /\ hsC'[c].via # t
        /\ \A c \in HsClients : hsC[c].st = "track" => hsC'[c] = hsC[c]
    BY <2>1, HsClosedIs
  <2>4. \A c \in HsClients : hsC[c].st # "track" => hsC'[c].st # "track"
    BY <2>3 DEF HsAfter
  <2>5. HsTrackerInv' /\ HsKnowInv'
    BY <2>1, <2>2, <2>3, <2>4, HsStillKnown
  <2>6. \A n \in HsNames : hsL'[n].t # t
    <3>1. t # HsNone
      BY HostServerAssumption DEF HsTs, HsNone
    <3>2. \A n \in HsNames : hsL[n].t = t => n \in hsD[t] /\ hsL[n].to # HsNone
      BY <3>1 DEF HsInductive, HsListenerInv, HsNone
    <3> QED BY <2>1, <3>1, <3>2 DEF HsDropped
  <2> QED BY <1>0, <2>1, <2>2, <2>3, <2>5, <2>6, HsEventOf DEF HsListenersOf
<1>3. CASE HsUnregister(t)
  <2>1. /\ hsT[t].st = "listed" /\ hsT[t].cs = "noperm"
        /\ hsT' = [hsT EXCEPT ![t].st = "none", ![t].cs = "offline"]
        /\ UNCHANGED <<hsL, hsD, hsC, hsW, hsTrackers, hsSent, hsPlugs>>
    BY <1>3 DEF HsUnregister
  <2>2. hsT[t].down = FALSE
    BY <1>0, <2>1 DEF HsInductive, HsDownInv, HsTransportSet
  <2>3. HsOnly(t) /\ hsT'[t].st = "none" /\ hsT'[t].down = FALSE
    <3> DEFINE r == [hsT[t] EXCEPT !.st = "none", !.cs = "offline"]
    <3>1. r \in HsTransportSet /\ r.st = "none" /\ r.down = hsT[t].down
      BY <1>0 DEF HsTransportSet, HsStates
    <3>2. hsT' = [hsT EXCEPT ![t] = r]
      BY <1>0, <2>1
    <3> HIDE DEF r
    <3> QED BY <1>0, <2>2, <3>1, <3>2 DEF HsOnly
  <2>4. HsTrackerInv' /\ HsKnowInv'
    BY <2>1, <2>3, HsStillKnown
  <2>5. (\A n \in HsNames : hsL'[n].t # t) /\ (\A c \in HsClients : hsC'[c].via # t)
    BY <2>1, HsUnused DEF HsUsable
  <2>6. HsListenersOf(t) /\ \A c \in HsClients : HsAfter(hsC[c], hsC'[c])
    BY <2>1 DEF HsAfter, HsListenersOf
  <2> QED BY <1>0, <2>1, <2>3, <2>4, <2>5, <2>6, HsEventOf
<1> QED BY <1>1, <1>2, <1>3

\* The events that are followed by update_transports.
LEMMA HsTold ==
  ASSUME HsInductive, NEW t \in HsTs, HsAdd(t) \/ HsConnect(t) \/ HsRemove(t)
  PROVE  HsInductive'
<1>0. /\ hsT \in [HsTs -> HsTransportSet] /\ hsT[t] \in HsTransportSet
      /\ hsC \in [HsClients -> HsClientSet]
  BY HsTypes DEF HsInductive
<1>1. \A c \in HsClients : HsAfter(hsC[c], hsC[c])
  BY DEF HsAfter
<1>2. CASE HsAdd(t)
  <2> DEFINE r == [hsT[t] EXCEPT !.st = "listed"]
             T == [hsT EXCEPT ![t] = r]
  <2>1. r \in HsTransportSet /\ r.st = "listed" /\ r.down = hsT[t].down
    BY <1>0 DEF HsTransportSet
  <2>2. hsT[t].st = "pending" /\ hsT[t].down = FALSE
    BY <1>0, <1>2 DEF HsAdd, HsInductive, HsDownInv, HsTransportSet
  <2>3. HsUpdate(T, hsC) /\ UNCHANGED <<hsL, hsD, hsW, hsSent, hsPlugs>>
    BY <1>0, <1>2 DEF HsAdd
  <2> HIDE DEF r
  <2>4. T \in [HsTs -> HsTransportSet] /\ T[t] = r /\ \A u \in HsTs \ {t} : T[u] = hsT[u]
    BY <1>0, <2>1
  <2>5. hsT' = T
    BY <2>3 DEF HsUpdate
  <2> HIDE DEF T
  <2>6. /\ hsC' \in [HsClients -> HsClientSet] /\ hsTrackers' \in [HsClients -> 0..HsMaxRequests]
        /\ \A c \in HsClients : /\ HsAfter(hsC[c], hsC'[c])
                                /\ hsC'[c].via # HsNone => hsC'[c].via = hsC[c].via
        /\ HsTrackerInv' /\ HsKnowInv'
    BY <1>0, <1>1, <2>3, <2>4, HsUpdateTells
  <2>7. (\A n \in HsNames : hsL'[n].t # t) /\ (\A c \in HsClients : hsC'[c].via # t)
    <3>1. t # HsNone /\ ~HsUsable(t)
      BY <2>2, HostServerAssumption DEF HsTs, HsNone, HsUsable
    <3> QED BY <2>3, <2>6, <3>1, HsUnused
  <2>8. HsOnly(t) /\ HsListenersOf(t) /\ hsT'[t].down = FALSE
    BY <2>1, <2>2, <2>3, <2>4, <2>5 DEF HsOnly, HsListenersOf
  <2> QED BY <2>3, <2>6, <2>7, <2>8, HsEventOf
<1>3. CASE HsRemove(t)
  <2> DEFINE r == [hsT[t] EXCEPT !.st = "none", !.kicked = FALSE, !.down = FALSE]
             T == [hsT EXCEPT ![t] = r]
             C == [c \in HsClients |-> [hsC[c] EXCEPT !.via = HsLeft(t, @)]]
  <2>0. HsStale \notin HsTs /\ HsNone \notin HsTs
    BY HostServerAssumption DEF HsTs, HsStale, HsNone
  <2>1. r \in HsTransportSet /\ r.st = "none" /\ r.down = FALSE
    BY <1>0 DEF HsTransportSet
  <2>2. HsUpdate(T, C) /\ UNCHANGED <<hsW, hsSent, hsPlugs>>
    BY <1>0, <1>3 DEF HsRemove
  <2> HIDE DEF r
  <2>3. T \in [HsTs -> HsTransportSet] /\ T[t] = r /\ \A u \in HsTs \ {t} : T[u] = hsT[u]
    BY <1>0, <2>1
  <2>4. hsT' = T
    BY <2>2 DEF HsUpdate
  <2> HIDE DEF T
  <2>5. \A ref \in HsRefs : /\ HsLeft(t, ref) \in HsRefs
                            /\ HsLeft(t, ref) = ref \/ (ref = t /\ HsLeft(t, ref) = HsStale)
    BY HsRefsAre DEF HsLeft
  <2>6. \A c \in HsClients : hsC[c].via = t => hsT[t].down = FALSE
    BY DEF HsInductive, HsClientInv, HsUsable
  <2>7. /\ C \in [HsClients -> HsClientSet]
        /\ \A c \in HsClients : /\ HsAfter(hsC[c], C[c]) /\ C[c].via # t
                                /\ hsC[c].st = "track" => C[c] = hsC[c]
    <3> SUFFICES ASSUME NEW c \in HsClients
                 PROVE  /\ C[c] \in HsClientSet /\ HsAfter(hsC[c], C[c]) /\ C[c].via # t
                        /\ hsC[c].st = "track" => C[c] = hsC[c]
      OBVIOUS
    <3>1. hsC[c] \in HsClientSet /\ hsC[c].via \in HsRefs
      BY <1>0 DEF HsClientSet
    <3>2. C[c] = [hsC[c] EXCEPT !.via = HsLeft(t, hsC[c].via)]
      OBVIOUS
    <3> HIDE DEF C
    <3>3. /\ C[c] \in HsClientSet /\ C[c].st = hsC[c].st /\ C[c].got = hsC[c].got
          /\ C[c].via = HsLeft(t, hsC[c].via)
      BY <2>5, <3>1, <3>2 DEF HsClientSet
    <3>4. HsAfter(hsC[c], C[c]) /\ C[c].via # t
      BY <2>0, <2>5, <2>6, <3>1, <3>3 DEF HsAfter, HsLeft
    <3>5. hsC[c].st = "track" => C[c] = hsC[c]
      <4>1. hsC[c].st = "track" => hsC[c].via = HsNone
        BY DEF HsInductive, HsClientInv, HsClientOf
      <4>2. hsC[c].st = "track" => HsLeft(t, hsC[c].via) = hsC[c].via
        BY <2>0, <4>1 DEF HsLeft
      <4> QED BY <3>1, <3>2, <4>2 DEF HsClientSet
    <3> QED BY <3>3, <3>4, <3>5
  <2> HIDE DEF C
  <2>8. /\ hsC' \in [HsClients -> HsClientSet] /\ hsTrackers' \in [HsClients -> 0..HsMaxRequests]
        /\ \A c \in HsClients : /\ HsAfter(hsC[c], hsC'[c])
                                /\ hsC'[c].via # HsNone => hsC'[c].via = C[c].via
        /\ HsTrackerInv' /\ HsKnowInv'
    BY <2>2, <2>3, <2>7, HsUpdateTells
  <2>9. HsListenersOf(t)
    <3>1. /\ hsL \in [HsNames -> [to : {HsNone, "smart", "remote"}, t : HsRefs]]
          /\ hsD \in [HsTs -> SUBSET HsNames]
      BY HsTypes DEF HsInductive
    <3>2. \A n \in HsNames : hsL[n].t = t => hsT[t].down = FALSE
      BY DEF HsInductive, HsListenerInv, HsUsable
    <3>3. \A n \in HsNames : HsLeft(t, hsL[n].t) = IF hsL[n].t = t THEN HsStale ELSE hsL[n].t
      BY <3>2 DEF HsLeft
    <3>4. hsL' = [n \in HsNames |-> [hsL[n] EXCEPT !.t = IF @ = t THEN HsStale ELSE @]]
      BY <1>3, <3>3 DEF HsRemove
    <3>5. hsT[t].down = TRUE => hsD[t] = {}
      BY <3>1, <3>2 DEF HsInductive, HsListenerInv
    <3>6. hsD' = [hsD EXCEPT ![t] = {}]
      BY <1>0, <1>3, <3>1, <3>5 DEF HsRemove, HsTransportSet
    <3> QED BY <3>4, <3>6 DEF HsListenersOf
  <2>10. \A n \in HsNames : hsL'[n].t # t
    <3>1. \A n \in HsNames : hsL[n].t \in HsRefs /\ hsL[n] \in [to : {HsNone, "smart", "remote"}, t : HsRefs]
      BY HsTypes DEF HsInductive
    <3>2. \A n \in HsNames : hsL[n].t = t => hsT[t].down = FALSE
      BY DEF HsInductive, HsListenerInv, HsUsable
    <3>3. \A n \in HsNames : hsL'[n].t = HsLeft(t, hsL[n].t)
      BY <1>3, <3>1 DEF HsRemove
    <3> QED BY <2>0, <3>2, <3>3 DEF HsLeft
  <2>11. \A c \in HsClients : hsC'[c].via # t
    BY <2>0, <2>7, <2>8
  <2>12. HsOnly(t) /\ hsT'[t].down = FALSE
    BY <2>1, <2>3, <2>4 DEF HsOnly
  <2> QED BY <2>2, <2>8, <2>9, <2>10, <2>11, <2>12, HsEventOf
<1>4. CASE HsConnect(t)
  <2> DEFINE C == [c \in HsClients |-> IF hsT[t].cs # "offline" THEN HsClosed(c, t) ELSE hsC[c]]
  <2>0. /\ hsT[t].st = "listed" /\ hsT[t].down = FALSE
        /\ UNCHANGED <<hsW, hsSent, hsPlugs>>
    BY <1>0, <1>4 DEF HsConnect, HsTransportSet
  <2>1. PICK cs \in HsOnline : HsUpdate([hsT EXCEPT ![t].cs = cs], C)
    BY <1>4 DEF HsConnect
  <2> DEFINE T == [hsT EXCEPT ![t].cs = cs]
  <2>2. /\ T \in [HsTs -> HsTransportSet] /\ \A u \in HsTs \ {t} : T[u] = hsT[u]
        /\ T[t].st = "listed" /\ T[t].down = FALSE /\ T[t].cs = cs
    BY <1>0, <2>0 DEF HsTransportSet, HsStates, HsOnline
  <2>3. hsT' = T
    BY <2>1 DEF HsUpdate
  <2>4. /\ C \in [HsClients -> HsClientSet]
        /\ \A c \in HsClients : HsAfter(hsC[c], C[c]) /\ (hsC[c].st = "track" => C[c] = hsC[c])
    BY <1>0, <1>1, HsClosedIs
  <2> HIDE DEF T, C
  <2>5. /\ hsC' \in [HsClients -> HsClientSet] /\ hsTrackers' \in [HsClients -> 0..HsMaxRequests]
        /\ \A c \in HsClients : HsAfter(hsC[c], hsC'[c])
        /\ HsTrackerInv' /\ HsKnowInv'
    <3>1. HsUpdate(T, C)
      BY <2>1 DEF T
    <3> QED BY <2>2, <2>4, <3>1, HsUpdateTells
  <2>6. HsListenersOf(t)
    BY <1>4 DEF HsConnect, HsListenersOf
  <2>7. HsOnly(t) /\ HsUsable(t)' /\ hsT'[t].down = FALSE
    BY <2>2, <2>3 DEF HsOnly, HsUsable, HsOnline
  <2> QED BY <2>0, <2>5, <2>6, <2>7, HsEventOf
<1> QED BY <1>2, <1>3, <1>4

-----------------------------------------------------------------------------
(* The theorems *)

\* The invariant holds for ever.
LEMMA HsAlways == HostServerSpec => []HsInductive
<1>1. HsInductive /\ [HostServerNext]_hsVars => HsInductive'
  <2> SUFFICES ASSUME HsInductive, [HostServerNext]_hsVars PROVE HsInductive'
    OBVIOUS
  <2>1. CASE UNCHANGED hsVars
    <3>1. UNCHANGED <<hsT, hsL, hsD, hsC, hsW, hsTrackers, hsSent, hsPlugs>>
      BY <2>1 DEF hsVars
    <3>2. HsQuiet
      BY <3>1, HsQuietSteps
    <3>3. HsRest
      BY <3>1, <3>2, HsRestSame, HsTypes DEF HsInductive, HsThreadSet
    <3> QED BY <3>1, <3>2, <3>3, HsNoClient
  <2>2. CASE HostServerNext
    BY <2>2, HsRegisterKeeps, HsUntold, HsTold, HsSocketKeeps, HsHandleKeeps, HsThreadKeeps
       DEF HostServerNext, HsEvent
  <2> QED BY <2>1, <2>2
<1> QED BY <1>1, HsInitially, PTL DEF HostServerSpec

\* The state of the server keeps its type.
THEOREM HostServerTypeCorrect == HostServerSpec => []HostServerTypeOK
<1>1. HsInductive => HostServerTypeOK
  BY DEF HsInductive
<1> QED BY <1>1, HsAlways, PTL

\* No listener, socket or smart socket keeps a transport that has gone
\* offline for good or has been deleted after that, and the callback of a
\* listener is with the transport it forwards to and only there
\* (adb_listeners.cpp, close_all_sockets of sockets.cpp, RunDisconnects of
\* transport.cpp); what a removal that overtakes SYNC(0,0) leaves behind is
\* the stale reference and nothing else.
THEOREM NothingDangles == HostServerSpec => []NoDanglingTransport
BY HsAlways, HsInductiveIsEnough, PTL

\* A client whose request was taken up gets a status before its socket is
\* closed (local_socket_close_notify of sockets.cpp).
THEOREM ClosedWithStatus == HostServerSpec => []NoSilentClose
BY HsAlways, HsInductiveIsEnough, PTL

\* Every tracker knows which accessible devices there are, however trackers
\* come, hang up and are closed (update_transports of transport.cpp).
THEOREM DevicesKnown == HostServerSpec => []TrackersKnowDevices
BY HsAlways, HsInductiveIsEnough, PTL
=============================================================================
