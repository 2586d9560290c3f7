--------------------------------- MODULE Pool ---------------------------------
(***************************************************************************)
(* The thread pool of thread_pool.cpp, and the two ways to wait for what   *)
(* runs on it: ThreadPool::wait() and waitForAll() of journey.cpp.         *)
(*                                                                         *)
(* The threads run one boost::asio::io_service.  It counts what is         *)
(* outstanding, a queued or running journey or the Work object that keeps  *)
(* the threads; when nothing is, it stops, run() returns in every thread   *)
(* that looks, and nothing more runs until it is reset.  A journey here is *)
(* one that does not wait; it may start others.  What is done under the    *)
(* mutex of the pool is one action.                                        *)
(***************************************************************************)
EXTENDS Integers, FiniteSets

CONSTANTS
  Threads,      \* the threads of the pool
  MaxJourneys,  \* bound on the journeys that are created
  MaxWaits      \* bound on the calls of wait() and waitForAll()

ASSUME PoolAssumption == IsFiniteSet(Threads) /\ MaxJourneys \in Nat /\ MaxWaits \in Nat

VARIABLES
  thread,     \* thread[t]: "run" in run(), "busy" with a journey, "left" when
              \* run() has returned, "notify" before notify_all(), or "ended"
  work,       \* the Work object is there
  stopped,    \* the io_service is stopped
  queued,     \* how many journeys wait for a thread
  created,    \* how many journeys were created, and
  destroyed,  \* how many were destroyed
  toStop,     \* toStop of the pool
  main,       \* where the thread is that uses the pool: "idle", "waiting" in
              \* wait(), "reading" in waitForAll(), "joining", or "gone"
  woken,      \* the condition variable was notified
  read,       \* what waitForAll() reads first, and the number it has read
  late,       \* the threads that had left run() when wait() began; when one has
              \* made the pool ready since, only that one, or nobody
  waits       \* how many calls there were

vars == <<thread, work, stopped, queued, created, destroyed, toStop, main, woken,
          read, late, waits>>

-----------------------------------------------------------------------------
(* The compiler may evaluate the operands of == in either order.           *)
Init ==
  /\ thread = [t \in Threads |-> "run"]
  /\ work = TRUE
  /\ stopped = FALSE
  /\ queued = 0
  /\ created = 0
  /\ destroyed = 0
  /\ toStop = FALSE
  /\ main = "idle"
  /\ woken = FALSE
  /\ read \in [first : {"created", "destroyed"}, number : {0}]
  /\ late = {}
  /\ waits = 0

Running == {t \in Threads : thread[t] = "busy"}

(* The service stops when the last that was outstanding goes.              *)
Stops(busy, keeps) == stopped' = (stopped \/ (queued = 0 /\ busy = {} /\ ~keeps))

-----------------------------------------------------------------------------
(* go(), by the thread that uses the pool or by a journey on it: it is     *)
(* created, and counted, before it is scheduled.                           *)
Go ==
  /\ main = "idle" \/ Running # {}
  /\ main # "gone"
  /\ queued + destroyed + Cardinality(Running) < MaxJourneys
  /\ created' = created + 1
  /\ queued' = queued + 1
  /\ UNCHANGED <<thread, work, stopped, destroyed, toStop, main, woken, read, late, waits>>

Take(t) ==
  /\ thread[t] = "run" /\ ~stopped /\ queued > 0
  /\ thread' = [thread EXCEPT ![t] = "busy"]
  /\ queued' = queued - 1
  /\ UNCHANGED <<work, stopped, created, destroyed, toStop, main, woken, read, late, waits>>

Finish(t) ==
  /\ thread[t] = "busy"
  /\ thread' = [thread EXCEPT ![t] = "run"]
  /\ destroyed' = destroyed + 1
  /\ Stops(Running \ {t}, work)
  /\ UNCHANGED <<work, queued, created, toStop, main, woken, read, late, waits>>

(* run() returns.                                                          *)
Leave(t) ==
  /\ thread[t] = "run" /\ stopped
  /\ thread' = [thread EXCEPT ![t] = "left"]
  /\ UNCHANGED <<work, stopped, queued, created, destroyed, toStop, main, woken, read, late, waits>>

StoppedAfterReset == FALSE

(* The rest of loop(): the first that comes back makes the pool ready.     *)
Loop(t) ==
  /\ thread[t] = "left"
  /\ IF toStop THEN /\ thread' = [thread EXCEPT ![t] = "ended"]
                    /\ UNCHANGED <<work, stopped>>
     ELSE IF ~work THEN /\ thread' = [thread EXCEPT ![t] = "notify"]
                       /\ work' = TRUE
                       /\ stopped' = StoppedAfterReset
     ELSE /\ thread' = [thread EXCEPT ![t] = "run"]
          /\ UNCHANGED <<work, stopped>>
  /\ late' = IF toStop \/ work THEN late ELSE late \cap {t}
  /\ UNCHANGED <<queued, created, destroyed, toStop, main, woken, read, waits>>

Notify(t) ==
  /\ thread[t] = "notify"
  /\ thread' = [thread EXCEPT ![t] = "run"]
  /\ woken' = (main = "waiting")
  /\ UNCHANGED <<work, stopped, queued, created, destroyed, toStop, main, read, late, waits>>

-----------------------------------------------------------------------------
(* A slip: the Work object is kept.                                        *)
WorkKept == work

WorkInWait == FALSE

(* ThreadPool::wait() up to the wait for the condition variable.           *)
Wait ==
  /\ main = "idle" /\ waits < MaxWaits
  /\ main' = "waiting"
  /\ waits' = waits + 1
  /\ work' = WorkInWait
  /\ Stops(Running, WorkInWait)
  /\ woken' = FALSE
  /\ late' = {t \in Threads : thread[t] = "left"}
  /\ UNCHANGED <<thread, queued, created, destroyed, toStop, read>>

(* A slip: who is woken does not look whether the pool is ready.           *)
ReadyAnyway == TRUE

Ready == work

(* It may also wake up without being notified.                             *)
Wake(notified) ==
  /\ main = "waiting" /\ notified = woken
  /\ main' = IF Ready THEN "idle" ELSE "waiting"
  /\ woken' = FALSE
  /\ UNCHANGED <<thread, work, stopped, queued, created, destroyed, toStop, read, late, waits>>

(* A slip: one may be left, as if a journey called it.                     *)
AllDoneButOne(a, b) == a <= b + 1 /\ b <= a + 1

AllDone(a, b) == a = b

FirstRead == [read EXCEPT !.number = IF read.first = "created" THEN created ELSE destroyed]

(* waitForAll(): the two counters are read one after the other.            *)
ReadFirst ==
  /\ main = "idle" /\ waits < MaxWaits
  /\ main' = "reading"
  /\ waits' = waits + 1
  /\ read' = FirstRead
  /\ UNCHANGED <<thread, work, stopped, queued, created, destroyed, toStop, woken, late>>

(* It ends when they agree, and reads the first again when they do not.    *)
ReadSecond ==
  /\ main = "reading"
  /\ IF AllDone(read.number, IF read.first = "created" THEN destroyed ELSE created)
       THEN main' = "idle" /\ UNCHANGED read
       ELSE read' = FirstRead /\ UNCHANGED main
  /\ UNCHANGED <<thread, work, stopped, queued, created, destroyed, toStop, woken, late, waits>>

WorkAfterEnd == FALSE

EndStops == Stops(Running, WorkAfterEnd)

(* The destructor, up to the first join().                                 *)
End ==
  /\ main = "idle"
  /\ main' = "joining"
  /\ toStop' = TRUE
  /\ work' = WorkAfterEnd
  /\ EndStops
  /\ UNCHANGED <<thread, queued, created, destroyed, woken, read, late, waits>>

Join ==
  /\ main = "joining"
  /\ \A t \in Threads : thread[t] = "ended"
  /\ main' = "gone"
  /\ UNCHANGED <<thread, work, stopped, queued, created, destroyed, toStop, woken, read, late, waits>>

-----------------------------------------------------------------------------
Thread(t) == Take(t) \/ Finish(t) \/ Leave(t) \/ Loop(t) \/ Notify(t)

Next ==
  \/ Go
  \/ \E t \in Threads : Thread(t)
  \/ Wait \/ Wake(TRUE) \/ Wake(FALSE)
  \/ ReadFirst \/ ReadSecond
  \/ End \/ Join

(* Threads run, a notified thread wakes up, and a call goes on.            *)
Fairness ==
  /\ \A t \in Threads : WF_vars(Thread(t))
  /\ WF_vars(Wake(TRUE) \/ ReadSecond \/ Join)

Spec == Init /\ [][Next]_vars /\ Fairness
=============================================================================
