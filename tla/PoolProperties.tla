---------------------------- MODULE PoolProperties ----------------------------
(***************************************************************************)
(* What somebody may rely on who waits for a thread pool.                  *)
(***************************************************************************)
EXTENDS Pool

AllEnded == queued = 0 /\ Running = {}

(* Every variable has its type.                                            *)
TypeOK ==
  /\ thread \in [Threads -> {"run", "busy", "left", "notify", "ended"}]
  /\ work \in BOOLEAN /\ stopped \in BOOLEAN /\ toStop \in BOOLEAN /\ woken \in BOOLEAN
  /\ queued \in Nat /\ created \in Nat /\ destroyed \in Nat
  /\ late \subseteq Threads
  /\ main \in {"idle", "waiting", "reading", "joining", "gone"}

(* Every journey is somewhere.                                             *)
Accounted == created = queued + Cardinality(Running) + destroyed

(* wait() returns when nothing is left to do, whenever it began; or early, *)
(* when it was ended by a thread that had come back for an earlier wait()  *)
(* and took the mutex only now: it finds no Work object, and makes the     *)
(* pool ready.  So may the second of the two that closeAndWait() of data.h *)
(* calls.                                                                  *)
WaitMeansDone ==
  [][main = "waiting" /\ main' = "idle" => AllEnded \/ late # {}]_vars

(* waitForAll() returns when all journeys have ended, if the counter of    *)
(* those destroyed is read first: read last, a journey that starts another *)
(* one in between and ends makes the numbers equal.                        *)
AllMeansAll ==
  [][main = "reading" /\ main' = "idle" => AllEnded \/ read.first = "created"]_vars

(* Whatever was going on when a wait returned, the pool goes on to work:   *)
(* its service has a Work object and is not stopped.                       *)
Usable == main \in {"idle", "reading"} => work /\ ~stopped

(* Whoever destroys the pool finds all journeys ended, unless it has no    *)
(* thread: nobody runs anything then, and nobody is waited for.            *)
GoneMeansDone == main = "gone" => AllEnded \/ Threads = {}

(* Every wait() returns, whichever threads come back in which order, and   *)
(* the destructor, too.                                                    *)
WaitReturns == main = "waiting" ~> main # "waiting"
EndReturns == main = "joining" ~> main = "gone"

(* Every journey runs, although the service is stopped while others start  *)
(* journeys.                                                               *)
AllRun == queued > 0 ~> queued = 0

-----------------------------------------------------------------------------
(* The service stops when there is no Work object and nothing is left, and *)
(* nothing is started as long as it is stopped.                            *)
StoppedMeansEnded == stopped => ~work /\ AllEnded

(* Somebody is there to find out that the service has stopped; and only    *)
(* the destructor has the threads end.                                     *)
SomebodyRuns ==
  /\ (\A t \in Threads : thread[t] \in {"left", "ended"}) => stopped \/ Threads = {}
  /\ main \in {"idle", "reading", "waiting"} => ~toStop
  /\ main = "gone" => \A t \in Threads : thread[t] = "ended"

(* Unless it is late, the thread that comes back first in a wait(), and    *)
(* makes the pool ready, comes back because nothing is left.               *)
ReadyMeansEnded ==
  main = "waiting" =>
    IF work THEN late = {} => AllEnded
            ELSE \A t \in Threads \ late : thread[t] = "left" => stopped

(* What waitForAll() has read of the destroyed ones was true once.         *)
ReadInThePast ==
  /\ read \in [first : {"created", "destroyed"}, number : Nat]
  /\ main = "reading" /\ read.first = "destroyed" => read.number <= destroyed

-----------------------------------------------------------------------------
(* What the threads and the service make of any number of waits: that the  *)
(* pool goes on to work and ends what it has, with the reasons for it.     *)
PoolInv ==
  /\ TypeOK /\ Accounted /\ Usable /\ GoneMeansDone
  /\ StoppedMeansEnded /\ SomebodyRuns /\ ReadyMeansEnded /\ ReadInThePast

(* What the return of either wait means.                                   *)
ReturnMeansDone == WaitMeansDone /\ AllMeansAll

(* Whoever waits returns, and whatever is queued runs.                     *)
Progress == WaitReturns /\ EndReturns /\ AllRun
=============================================================================
