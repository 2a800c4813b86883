------------------------------- MODULE FdEvent -------------------------------
(***************************************************************************)
(* The event loop of fdevent.cpp: poll, the list of pending events, and    *)
(* callbacks that install, change and remove fdevents, their own and       *)
(* others', while events that poll reported earlier are still pending.     *)
(* Everything runs on the main thread.                                     *)
(*                                                                         *)
(* On the device fdevent_subproc_event_func would call the function of the *)
(* socket whose shell has exited from inside another callback.  It never   *)
(* does: StartSubprocess takes the socket out of the Subprocess before the *)
(* thread starts, so the number that arrives is -1 and no fdevent has it.  *)
(***************************************************************************)
EXTENDS Integers, Sequences, FiniteSets

CONSTANTS
  FeFdes,   \* the fdevent objects, each with a file descriptor of its own
  FeMaxOps  \* bound on the calls of fdevent functions that callbacks make

ASSUME FdEventAssumption ==
  /\ IsFiniteSet(FeFdes)
  /\ FeMaxOps \in Nat

VARIABLES
  feActive,   \* FDE_ACTIVE: installed, and present in g_poll_node_map
  feWant,     \* the events asked for (FDE_READ, FDE_WRITE of fde->state)
  fePending,  \* FDE_PENDING
  feEvents,   \* fde->events: reported by poll and not yet delivered
  feList,     \* g_pending_list
  feHup,      \* descriptors whose other end has hung up
  feCall,    \* the callback that runs, as a sequence of at most one [fde, ev]
  feOps       \* calls made by callbacks so far

feVars == <<feActive, feWant, fePending, feEvents, feList, feHup, feCall, feOps>>

FeEv == {"READ", "WRITE", "ERROR"}

FdEventTypeOK ==
  /\ feActive \in SUBSET FeFdes
  /\ feWant \in [FeFdes -> SUBSET {"READ", "WRITE"}]
  /\ fePending \in SUBSET FeFdes
  /\ feEvents \in [FeFdes -> SUBSET FeEv]
  /\ feList \in Seq(FeFdes)
  /\ feHup \in SUBSET FeFdes
  /\ feCall \in {<<>>} \cup {<<c>> : c \in [fde : FeFdes, ev : SUBSET FeEv]}
  /\ feOps \in 0..FeMaxOps

\* Before the loop starts everything is installed and read (fdevent_loop).
FdEventInit ==
  /\ feActive = FeFdes
  /\ feWant = [f \in FeFdes |-> {"READ"}]
  /\ fePending = {}
  /\ feEvents = [f \in FeFdes |-> {}]
  /\ feList = <<>>
  /\ feHup = {}
  /\ feCall = <<>>
  /\ feOps = 0

\* g_pending_list.remove(fde).  No fdevent is on the list twice (PendingList).
FeWithout(f) ==
  LET i == CHOOSE n \in 1..Len(feList) : feList[n] = f IN
  SubSeq(feList, 1, i - 1) \o SubSeq(feList, i + 1, Len(feList))

-----------------------------------------------------------------------------

\* What poll can report on f: some of the events asked for, and a hang-up
\* always (POLLHUP, POLLRDHUP), which counts as readable.
FeReported(f, rev) ==
  IF f \in feHup THEN /\ {"READ", "ERROR"} \subseteq rev
                    /\ rev \ {"READ", "ERROR"} \subseteq feWant[f]
               ELSE rev \subseteq feWant[f]

\* fdevent_process: what poll reports is recorded and queued.  Descriptors
\* are visited in the order of a hash table: any order.
FePoll ==
  /\ feCall = <<>> /\ feList = <<>>
  /\ \E rev \in [feActive -> SUBSET FeEv] :
       LET ready == {f \in feActive : rev[f] # {}} IN
       /\ ready # {}
       /\ \A f \in feActive : FeReported(f, rev[f])
       /\ feEvents' = [f \in FeFdes |-> IF f \in ready THEN feEvents[f] \cup rev[f] ELSE feEvents[f]]
       /\ fePending' = fePending \cup ready
       /\ \E order \in [1..Cardinality(ready) -> ready] :
            /\ \A f \in ready : \E n \in DOMAIN order : order[n] = f
            /\ feList' = order
  /\ UNCHANGED <<feActive, feWant, feHup, feCall, feOps>>

\* fdevent_call_fdfunc.
FeCallFdFunc(f, ev) == feCall' = <<[fde |-> f, ev |-> ev]>>

\* The loop of fdevent_loop: deliver the first pending event.
FeDispatch ==
  /\ feCall = <<>> /\ feList # <<>>
  /\ LET f == Head(feList) IN
       /\ FeCallFdFunc(f, feEvents[f])
       /\ fePending' = fePending \ {f}
       /\ feEvents' = [feEvents EXCEPT ![f] = {}]
  /\ feList' = Tail(feList)
  /\ UNCHANGED <<feActive, feWant, feHup, feOps>>

FeReturn ==
  /\ feCall # <<>>
  /\ feCall' = <<>>
  /\ UNCHANGED <<feActive, feWant, fePending, feEvents, feList, feHup, feOps>>

-----------------------------------------------------------------------------
(* What callbacks do *)

FeInCallback == feCall # <<>> /\ feOps < FeMaxOps /\ feOps' = feOps + 1

\* Mutant: events already reported are delivered all the same.
FeSet_NoMask(f, ev) ==
  /\ FeInCallback
  /\ f \in feActive
  /\ feWant[f] # ev
  /\ feWant' = [feWant EXCEPT ![f] = ev]
  /\ UNCHANGED <<feActive, fePending, feEvents, feList, feHup, feCall>>

\* fdevent_set (fdevent_add and fdevent_del call it): a pending event that
\* is no longer wanted is forgotten.
FeSet(f, ev) ==
  /\ FeInCallback
  /\ f \in feActive
  /\ feWant[f] # ev
  /\ feWant' = [feWant EXCEPT ![f] = ev]
  /\ IF f \in fePending
       THEN LET left == feEvents[f] \cap ev IN
            /\ feEvents' = [feEvents EXCEPT ![f] = left]
            /\ fePending' = IF left = {} THEN fePending \ {f} ELSE fePending
            /\ feList' = IF left = {} THEN FeWithout(f) ELSE feList
       ELSE UNCHANGED <<feEvents, fePending, feList>>
  /\ UNCHANGED <<feActive, feHup, feCall>>

\* fdevent_remove: the descriptor is closed too.
FeRemove(f) ==
  /\ FeInCallback
  /\ f \in feActive
  /\ feActive' = feActive \ {f}
  /\ feList' = IF f \in fePending THEN FeWithout(f) ELSE feList
  /\ fePending' = fePending \ {f}
  /\ feEvents' = [feEvents EXCEPT ![f] = {}]
  /\ feWant' = [feWant EXCEPT ![f] = {}]
  /\ feHup' = feHup \ {f}
  /\ UNCHANGED feCall

\* Mutant: the fields are not cleared.
FeInstall_Dirty(f) ==
  /\ FeInCallback
  /\ f \notin feActive
  /\ feActive' = feActive \cup {f}
  /\ feWant' = [feWant EXCEPT ![f] = FeEv]
  /\ UNCHANGED <<fePending, feEvents, feList, feHup, feCall>>

\* fdevent_install, for a new descriptor.
FeInstall(f) ==
  /\ FeInCallback
  /\ f \notin feActive
  /\ feActive' = feActive \cup {f}
  /\ feWant' = [feWant EXCEPT ![f] = {}]
  /\ feEvents' = [feEvents EXCEPT ![f] = {}]
  /\ UNCHANGED <<fePending, feList, feHup, feCall>>

\* The other end of a descriptor hangs up.
FeHangUp(f) ==
  /\ f \in feActive \ feHup
  /\ feHup' = feHup \cup {f}
  /\ UNCHANGED <<feActive, feWant, fePending, feEvents, feList, feCall, feOps>>

FeLoop == FePoll \/ FeDispatch \/ FeReturn

FdEventNext ==
  \/ FeLoop
  \/ \E f \in FeFdes : \/ \E ev \in SUBSET {"READ", "WRITE"} : FeSet(f, ev)
                     \/ FeRemove(f)
                     \/ FeInstall(f)
                     \/ FeHangUp(f)

FdEventSpec == FdEventInit /\ [][FdEventNext]_feVars

\* Callbacks return, and poll returns when a descriptor is ready.
FdEventFairness ==
  WF_feVars(FePoll) /\ WF_feVars(FeDispatch) /\ WF_feVars(FeReturn)

FdEventFairSpec == FdEventSpec /\ FdEventFairness

-----------------------------------------------------------------------------
(* Properties *)

\* g_pending_list holds exactly the fdevents marked FDE_PENDING, each once,
\* all of them installed and with something to deliver; all others have no
\* event left over that a later poll would add to.
PendingList ==
  /\ \A m, n \in 1..Len(feList) : feList[m] = feList[n] => m = n
  /\ {feList[n] : n \in 1..Len(feList)} = fePending
  /\ fePending \subseteq feActive
  /\ \A f \in FeFdes : f \in fePending <=> feEvents[f] # {}

\* A callback is called only on an installed fdevent, for some event, and for
\* FDE_WRITE only if it is still asked for: what callbacks earlier in the
\* same round removed or switched off is not delivered.
DeliveredWanted ==
  [][Len(feCall') > Len(feCall) =>
       LET c == feCall'[1] IN
       /\ c.fde \in feActive
       /\ c.ev # {}
       /\ "WRITE" \in c.ev => "WRITE" \in feWant[c.fde]]_feVars

\* A hang-up is noticed even on a descriptor nobody wants to read: its
\* function is called, unless it is removed first.
HangUpDelivered ==
  \A f \in FeFdes :
    (f \in feHup) ~> (f \notin feActive \/ \E n \in DOMAIN feCall : feCall[n].fde = f)

\* Whatever callbacks do to each other's fdevents, what is delivered is
\* pending, installed and wanted, and no hang-up is missed.
EventsDelivered == []PendingList /\ DeliveredWanted /\ HangUpDelivered
=============================================================================
