--------------------------- MODULE MutexProperties ---------------------------
(***************************************************************************)
(* What is checked of journeys that wait and of the mutex they wait for.   *)
(***************************************************************************)
EXTENDS Mutex, JourneyProperties

-----------------------------------------------------------------------------
(* Every variable has its type.                                            *)
TypeOK ==
  /\ JourneyTypeOK
  /\ acquired \in BOOLEAN
  /\ doers \in Seq(DoerType)
  /\ at \in [Journeys -> Place]
  /\ handed \in [Journeys -> DoerType \cup {NoDoer}]

(* At most one journey is in the critical section: the counter that        *)
(* tests/mutex_tests.cpp keeps there is 1.                                 *)
Inside(j) == at[j] \in {"inside", "rescheduling", "leaving"}

MutualExclusion ==
  \A j, k \in Journeys : Inside(j) /\ Inside(k) => j = k

-----------------------------------------------------------------------------
(* Ownership of the mutex is in one place at a time, and nowhere while the *)
(* mutex is free: with the journey inside, on the way from an unlock(), or *)
(* in the Done flag of the one it was handed to.  The one it was handed to *)
(* may have left lock() long ago, and lock() may throw although Done is    *)
(* set, so it can get lost; but nobody ever doubles it.                    *)
Granted(j) == flags[j].done /\ at[j] # "rescheduling"

Owns(j) == Inside(j) \/ Granted(j) \/ at[j] = "unlocking"

SingleOwner ==
  /\ \A j, k \in Journeys : Owns(j) /\ Owns(k) => j = k
  /\ \A j \in Journeys : Owns(j) => acquired
  /\ \A j \in Journeys : ~(Granted(j) /\ (Inside(j) \/ at[j] = "unlocking"))

(* What a journey has seen of its Done flag stays so until it acts on it,  *)
(* and a reschedule() finds the flag it set itself.                        *)
DoneIsKept ==
  \A j \in Journeys :
    /\ phase[j] = "handling" /\ seen[j].done => flags[j].done
    /\ at[j] = "rescheduling" => flags[j].done
    /\ at[j] = "rescheduling" /\ phase[j] = "handling" => seen[j].done

(* A journey runs unless it is in a wait, and hands over only then.        *)
Whereabouts ==
  \A j \in Journeys :
    /\ phase[j] \in {"running", "ended"} <=> at[j] \notin {"waiting", "rescheduling"}
    /\ at[j] = "unlocking" <=> handed[j] # NoDoer

(* All of that together is inductive.                                      *)
MutexInv ==
  TypeOK /\ ResumedOnce /\ SingleOwner /\ DoneIsKept /\ Whereabouts

-----------------------------------------------------------------------------
(* Nobody sleeps through an event: a journey that waits for the mutex and  *)
(* was cancelled, events being enabled, leaves lock() some day, whether    *)
(* the event came while it went to sleep, slept or was being handed the    *)
(* mutex, and even if the mutex is never unlocked.  Without events, when   *)
(* lock() cannot throw, everybody gets the mutex some day.                 *)
Wakes(j) ==
  at[j] = "waiting" /\ (Calm \/ (flags[j].enabled /\ flags[j].raised # {}))
    ~> at[j] # "waiting"

(* The ownership is dropped in one way only: lock() throws in a journey    *)
(* whose Done flag had it.  That does happen, to an event that is sent     *)
(* while the mutex is handed over or later, and then acquired_ stays TRUE  *)
(* for ever.                                                               *)
LostByThrowingOnly ==
  [][(\E j \in Journeys : Owns(j)) /\ acquired' =>
       \/ (\E j \in Journeys : Owns(j))'
       \/ \E j \in Journeys : Granted(j) /\ LockThrows(j)]_vars

(* Without events the mutex is a fair lock: whoever has it, in unlock()    *)
(* the one it is handed to, is the first of those that wait.               *)
Owner(j) ==
  \/ Inside(j)
  \/ at[j] = "waiting" /\ flags[j].done
  \/ \E k \in Journeys : at[k] = "unlocking" /\ handed[k].who = j

queue ==
  (IF Calm /\ acquired THEN <<CHOOSE j \in Journeys : Owner(j)>> ELSE <<>>)
    \o [i \in DOMAIN doers |-> doers[i].who]

Fair == INSTANCE FairLock WITH Clients <- Journeys

FirstComeFirstServed ==
  /\ Calm => Fair!Init
  /\ [][Calm => Fair!Next]_queue
=============================================================================
