------------------------------ MODULE RunQueue ------------------------------
(***************************************************************************)
(* fdevent_run_on_main_thread: how other threads have functions run on the *)
(* main thread (fdevent.cpp).  A function is pushed onto run_queue and a   *)
(* byte written to a socket pair that the event loop polls, both under     *)
(* run_queue_mutex; the write blocks, mutex in hand, when the socket pair  *)
(* is full.  Functions pushed before the loop has made the socket pair are *)
(* run when it does.                                                       *)
(***************************************************************************)
EXTENDS Integers, Sequences

CONSTANTS
  RqThreads,   \* threads that hand over functions
  RqCalls,     \* functions each of them hands over
  RqCapacity,  \* bytes the socket pair holds
  RqReadSize   \* bytes one read of it takes at most (buf in fdevent_run_func)

ASSUME RunQueueAssumption ==
  /\ "main" \notin RqThreads /\ "none" \notin RqThreads
  /\ RqCalls \in Nat
  /\ RqCapacity \in Nat \ {0}
  /\ RqReadSize \in Nat \ {0}

VARIABLES
  rqQueue,   \* run_queue: functions, named by their thread and number
  rqBytes,   \* bytes waiting in the socket pair
  rqSetup,   \* run_queue_notify_fd is not -1
  rqMutex,   \* holder of run_queue_mutex
  rqPc,      \* each thread: "out", or "write" when its byte is still to come
  rqDone,    \* functions handed over by each thread
  rqMain,    \* the main thread: before the loop, polling, or inside a handler
  rqRan      \* the functions run so far, in order

rqVars == <<rqQueue, rqBytes, rqSetup, rqMutex, rqPc, rqDone, rqMain, rqRan>>

RqFunction == RqThreads \X (1..RqCalls)

RunQueueTypeOK ==
  /\ rqQueue \in Seq(RqFunction)
  /\ rqBytes \in 0..RqCapacity
  /\ rqSetup \in BOOLEAN
  /\ rqMutex \in RqThreads \cup {"none", "main"}
  /\ rqPc \in [RqThreads -> {"out", "write"}]
  /\ rqDone \in [RqThreads -> 0..RqCalls]
  /\ rqMain \in {"start", "poll", "emptied"}
  /\ rqRan \in Seq(RqFunction)

RunQueueInit ==
  /\ rqQueue = <<>>
  /\ rqBytes = 0
  /\ rqSetup = FALSE
  /\ rqMutex = "none"
  /\ rqPc = [t \in RqThreads |-> "out"]
  /\ rqDone = [t \in RqThreads |-> 0]
  /\ rqMain = "start"
  /\ rqRan = <<>>

\* fdevent_run_on_main_thread, with the lock: push; before setup that is all.
RqPush(t) ==
  /\ rqPc[t] = "out" /\ rqDone[t] < RqCalls
  /\ rqMutex = "none"
  /\ rqQueue' = Append(rqQueue, <<t, rqDone[t] + 1>>)
  /\ rqDone' = [rqDone EXCEPT ![t] = @ + 1]
  /\ IF rqSetup THEN rqMutex' = t /\ rqPc' = [rqPc EXCEPT ![t] = "write"]
              ELSE UNCHANGED <<rqMutex, rqPc>>
  /\ UNCHANGED <<rqBytes, rqSetup, rqMain, rqRan>>

\* The write of one byte, which waits for room, and the unlock.
RqNotify(t) ==
  /\ rqPc[t] = "write"
  /\ rqBytes < RqCapacity
  /\ rqBytes' = rqBytes + 1
  /\ rqPc' = [rqPc EXCEPT ![t] = "out"]
  /\ rqMutex' = "none"
  /\ UNCHANGED <<rqQueue, rqSetup, rqDone, rqMain, rqRan>>

\* Mutant: the queue is not cleared.
RqFlush_Keep == rqRan' = rqRan \o rqQueue /\ UNCHANGED rqQueue

\* fdevent_run_flush: run and forget everything queued.
RqFlush == rqRan' = rqRan \o rqQueue /\ rqQueue' = <<>>

\* fdevent_run_setup, under the lock.
RqRunSetup ==
  /\ rqMain = "start"
  /\ rqMutex = "none"
  /\ rqSetup' = TRUE
  /\ rqMain' = "poll"
  /\ RqFlush
  /\ UNCHANGED <<rqBytes, rqMutex, rqPc, rqDone>>

\* fdevent_run_func: empty the socket pair, as far as one read does ...
RqEmpty ==
  /\ rqMain = "poll"
  /\ rqBytes > 0
  /\ rqBytes' = IF rqBytes > RqReadSize THEN rqBytes - RqReadSize ELSE 0
  /\ rqMain' = "emptied"
  /\ UNCHANGED <<rqQueue, rqSetup, rqMutex, rqPc, rqDone, rqRan>>

\* ... then lock and flush.
RqRunFlush ==
  /\ rqMain = "emptied"
  /\ rqMutex = "none"
  /\ rqMain' = "poll"
  /\ RqFlush
  /\ UNCHANGED <<rqBytes, rqSetup, rqMutex, rqPc, rqDone>>

RqMainThread == RqRunSetup \/ RqEmpty \/ RqRunFlush

RunQueueNext == RqMainThread \/ \E t \in RqThreads : RqPush(t) \/ RqNotify(t)

RunQueueSpec == RunQueueInit /\ [][RunQueueNext]_rqVars

\* The event loop runs; a thread in the middle of the call goes on with it;
\* a mutex is not withheld from the main thread for ever.
RunQueueFairness ==
  SF_rqVars(RqMainThread) /\ \A t \in RqThreads : WF_rqVars(RqNotify(t))

RunQueueFairSpec == RunQueueSpec /\ RunQueueFairness

-----------------------------------------------------------------------------
(* Properties *)

Promise == INSTANCE CallQueue WITH
  Callers <- RqThreads, MaxCalls <- RqCalls, waiting <- rqQueue, ran <- rqRan

\* A caller waits, mutex in hand, for room in the socket pair, and the main
\* thread, which has just read from it, for the mutex.
RqDeadlocked ==
  rqMain = "emptied" /\ rqBytes = RqCapacity /\ \E t \in RqThreads : rqPc[t] = "write"

\* fdevent_run_on_main_thread implements CallQueue: functions are run once
\* each, in the order of the calls, and none is forgotten, whether it is
\* handed over before the socket pair exists or while it is being emptied.
\* This is what the test run_on_main_thread of fdevent_test.cpp expects.  The
\* one thing that keeps a function from being run is the deadlock above.
ImplementsCallQueue ==
  Promise!CallQueueSafety /\ (Promise!CallQueueFairness \/ <>RqDeadlocked)
=============================================================================
