-------------------------------- MODULE Mutex --------------------------------
(***************************************************************************)
(* The mutex of src/mutex.cpp, which suspends the journey and not the      *)
(* thread, and journeys that use it as tests/mutex_tests.cpp does: lock,   *)
(* reschedule inside, unlock, while others cancel them.  lock() may throw; *)
(* then the journey ends, or somebody catches the exception (data.h) and   *)
(* it goes on.                                                             *)
(*                                                                         *)
(* What lock() and unlock() do under mutex_ is one action.  In unlock()    *)
(* that is sound although events are raised meanwhile: an acquire() that   *)
(* has failed would fail again.                                            *)
(***************************************************************************)
EXTENDS Journey

VARIABLES
  acquired,  \* acquired_
  doers,     \* doers_, the queue of those that wait
  at,        \* at[j]: where the journey is in its program
  handed     \* handed[j]: the doer that j got in unlock() and has not told

vars == <<journeyVars, acquired, doers, at, handed>>

-----------------------------------------------------------------------------
(* Outside; in lock(), waiting; inside the critical section; in the        *)
(* reschedule() there; behind it; in unlock(), between acquire and         *)
(* releaseAndDone.                                                         *)
Place == {"outside", "waiting", "inside", "rescheduling", "leaving", "unlocking"}

NoDoer == [who |-> "nobody"]

Free ==
  /\ acquired = FALSE
  /\ doers = <<>>
  /\ at = [j \in Journeys |-> "outside"]
  /\ handed = [j \in Journeys |-> NoDoer]

Init == JourneyInit /\ Free

Goes(j, from, to) == at[j] = from /\ at' = [at EXCEPT ![j] = to]

Lock(j) ==
  /\ phase[j] = "running"
  /\ ~acquired
  /\ acquired' = TRUE
  /\ Goes(j, "outside", "inside")
  /\ UNCHANGED <<journeyVars, doers, handed>>

(* lock() of a mutex that somebody has: queue up and wait.                 *)
LockWait(j) ==
  /\ acquired
  /\ Goes(j, "outside", "waiting")
  /\ doers' = Append(doers, Doer(j))
  /\ WaitForDone(j)
  /\ UNCHANGED <<acquired, handed>>

LockReturns(j) ==
  /\ Goes(j, "waiting", "inside")
  /\ Returns(j)
  /\ UNCHANGED <<acquired, doers, handed>>

LockThrows(j) ==
  /\ Goes(j, "waiting", "outside")
  /\ Throws(j)
  /\ UNCHANGED <<acquired, doers, handed>>

(* reschedule() in the critical section, to let others run.                *)
Pause(j) ==
  /\ Goes(j, "inside", "rescheduling")
  /\ Reschedule(j)
  /\ UNCHANGED <<acquired, doers, handed>>

(* An event thrown here unwinds into the unlock().                         *)
Continue(j) ==
  /\ Goes(j, "rescheduling", "leaving")
  /\ Returns(j) \/ Throws(j)
  /\ UNCHANGED <<acquired, doers, handed>>

(* The loop in unlock() leaves the queue from the first doer on that can   *)
(* be acquired; if there is none, the mutex is free.                       *)
Usable == {i \in DOMAIN doers : Acquirable(doers[i])}

(* A slip: the doer that was acquired stays in the queue.                  *)
BehindNone(i) == SubSeq(doers, i, Len(doers))

Behind(i) == SubSeq(doers, i + 1, Len(doers))

Unlock(j) ==
  /\ phase[j] = "running"
  /\ at[j] \in {"inside", "leaving"}
  /\ \/ /\ Usable = {}
        /\ at' = [at EXCEPT ![j] = "outside"]
        /\ acquired' = FALSE
        /\ doers' = <<>>
        /\ UNCHANGED <<flags, handed>>
     \/ \E i \in Usable :
          /\ \A k \in Usable : i <= k
          /\ at' = [at EXCEPT ![j] = "unlocking"]
          /\ doers' = Behind(i)
          /\ handed' = [handed EXCEPT ![j] = doers[i]]
          /\ flags' = [flags EXCEPT ![doers[i].who] = Disabled(doers[i])]
          /\ UNCHANGED acquired
  /\ UNCHANGED <<phase, seen, ready, kept, events>>

(* The end of unlock(), mutex_ released: tell the one that was acquired.   *)
HandOver(j) ==
  /\ Goes(j, "unlocking", "outside")
  /\ ReleaseAndDone(handed[j])
  /\ handed' = [handed EXCEPT ![j] = NoDoer]
  /\ UNCHANGED <<phase, seen, kept, events, acquired, doers>>

(* Outside a journey may protect itself from events, or come to its end.   *)
Prepare(j) ==
  /\ at[j] = "outside"
  /\ Guard(j) \/ Unguard(j) \/ Ends(j)
  /\ UNCHANGED <<acquired, doers, at, handed>>

(* What the threads of the pool do with a journey that waits.              *)
Run(j) ==
  /\ ResetEntered(j) \/ Proceed0(j) \/ Load(j)
  /\ UNCHANGED <<acquired, doers, at, handed>>

Event(j) ==
  /\ \E event \in {"cancelled", "timedout"} : Raise(j, event)
  /\ UNCHANGED <<acquired, doers, at, handed>>

Step(j) ==
  \/ Lock(j) \/ LockWait(j) \/ LockReturns(j) \/ LockThrows(j)
  \/ Pause(j) \/ Continue(j) \/ Unlock(j) \/ HandOver(j)
  \/ Prepare(j) \/ Run(j) \/ Event(j)

Next == \E j \in Journeys : Step(j)

Spec == Init /\ [][Next]_vars

(* The threads of the pool run what is scheduled, and a journey that runs  *)
(* gets to the end of its critical section and of unlock().  Nobody has to *)
(* lock, to end or to send an event.                                       *)
Fairness ==
  \A j \in Journeys :
    WF_vars(\/ Run(j) \/ LockReturns(j) \/ LockThrows(j) \/ Continue(j)
            \/ Pause(j) \/ Unlock(j) \/ HandOver(j))

FairSpec == Spec /\ Fairness
=============================================================================
