----------------------------- MODULE CallQueue -----------------------------
(***************************************************************************)
(* What fdevent_run_on_main_thread promises: calls of a thread are run     *)
(* once each and in the order in which the thread made them, and every     *)
(* call is run at last.  How the main thread is woken, and that it may not *)
(* have started yet, is not part of the promise.                           *)
(***************************************************************************)
EXTENDS Integers, Sequences, FiniteSets

CONSTANTS
  Callers,  \* threads
  MaxCalls  \* calls that each of them makes at most

VARIABLES
  waiting,  \* calls made and not run, in the order in which they will be run
  ran       \* calls run

callQueueVars == <<waiting, ran>>

\* The number of calls that t has made.
Made(t) ==
  LET all == ran \o waiting IN Cardinality({n \in 1..Len(all) : all[n][1] = t})

CallQueueInit == waiting = <<>> /\ ran = <<>>

Call(t) ==
  /\ Made(t) < MaxCalls
  /\ waiting' = Append(waiting, <<t, Made(t) + 1>>)
  /\ UNCHANGED ran

\* Some calls are run, the oldest first.
RunSome ==
  \E n \in 1..Len(waiting) :
    /\ ran' = ran \o SubSeq(waiting, 1, n)
    /\ waiting' = SubSeq(waiting, n + 1, Len(waiting))

CallQueueNext == RunSome \/ \E t \in Callers : Call(t)

\* What is never broken, and what is done at last.
CallQueueSafety == CallQueueInit /\ [][CallQueueNext]_callQueueVars

CallQueueFairness == WF_callQueueVars(RunSome)

CallQueueSpec == CallQueueSafety /\ CallQueueFairness
=============================================================================
