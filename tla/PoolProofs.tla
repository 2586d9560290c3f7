------------------------------ MODULE PoolProofs ------------------------------
(***************************************************************************)
(* Proofs about the thread pool, for any number of threads, journeys and   *)
(* waits.                                                                  *)
(***************************************************************************)
EXTENDS PoolProperties, FiniteSetTheorems, TLAPS

USE PoolAssumption

-----------------------------------------------------------------------------
(* The busy threads are finitely many.                                     *)
LEMMA RunningCounts ==
  /\ IsFiniteSet(Running)
  /\ Cardinality(Running) \in Nat
  /\ Cardinality(Running) = 0 <=> Running = {}
<1>1. IsFiniteSet(Running)
  BY FS_Subset DEF Running
<1> QED
  BY <1>1, FS_CardinalityType, FS_EmptySet

(* A step that leaves them alone leaves their number alone.                *)
LEMMA SameRunning ==
  ASSUME \A t \in Threads : thread'[t] = "busy" <=> thread[t] = "busy"
  PROVE  Running' = Running
BY DEF Running

(* It grows by one with a thread that takes a journey ...                  *)
LEMMA TakeCounts ==
  ASSUME NEW t \in Threads, TypeOK, Take(t)
  PROVE  /\ Running' = Running \cup {t}
         /\ Cardinality(Running') = Cardinality(Running) + 1
<1>1. thread' = [thread EXCEPT ![t] = "busy"] /\ thread[t] = "run"
  BY DEF Take
<1>2. Running' = Running \cup {t} /\ t \notin Running
  BY <1>1 DEF Running, TypeOK
<1> QED
  BY <1>2, RunningCounts, FS_AddElement

(* ... and shrinks by one with a thread whose journey ends.                *)
LEMMA FinishCounts ==
  ASSUME NEW t \in Threads, TypeOK, Finish(t)
  PROVE  /\ Running' = Running \ {t}
         /\ t \in Running
         /\ Cardinality(Running') = Cardinality(Running) - 1
<1>1. thread' = [thread EXCEPT ![t] = "run"] /\ thread[t] = "busy"
  BY DEF Finish
<1>2. Running' = Running \ {t} /\ t \in Running
  BY <1>1 DEF Running, TypeOK
<1> QED
  BY <1>2, RunningCounts, FS_RemoveElement

-----------------------------------------------------------------------------
(* Every step keeps types, and every journey is somewhere.                 *)
LEMMA InitInv == Init => PoolInv
<1> SUFFICES ASSUME Init
             PROVE  PoolInv
  OBVIOUS
<1>1. Running = {} /\ Cardinality(Running) = 0
  BY FS_EmptySet DEF Init, Running
<1>2. TypeOK
  BY DEF Init, TypeOK
<1>3. Accounted
  BY <1>1 DEF Init, Accounted
<1> QED
  BY <1>1, <1>2, <1>3 DEF PoolInv, Usable, GoneMeansDone, AllEnded, StoppedMeansEnded,
     SomebodyRuns, ReadyMeansEnded, ReadInThePast, Init

LEMMA NextInv == PoolInv /\ [Next]_vars => PoolInv'
<1> SUFFICES ASSUME PoolInv, [Next]_vars
             PROVE  PoolInv'
  OBVIOUS
<1> USE DEF PoolInv
<1> DEFINE Rest == /\ Accounted' /\ Usable' /\ GoneMeansDone' /\ StoppedMeansEnded'
                   /\ SomebodyRuns' /\ ReadyMeansEnded' /\ ReadInThePast'
<1>0. Cardinality(Running) \in Nat /\ (Cardinality(Running) = 0 <=> Running = {})
  BY RunningCounts
<1> USE DEF Accounted, Usable, GoneMeansDone, AllEnded, StoppedMeansEnded, SomebodyRuns,
            ReadyMeansEnded, ReadInThePast
<1>1. CASE Go
  <2>1. Running' = Running
    BY <1>1, SameRunning DEF Go
  <2>2. TypeOK'
    BY <1>0, <1>1, <2>1 DEF Go, TypeOK
  <2>3. Rest
    BY <1>0, <1>1, <2>1 DEF Go, TypeOK
  <2> QED
    BY <2>2, <2>3
<1>2. ASSUME NEW t \in Threads, Take(t)
      PROVE  PoolInv'
  <2>1. Running' = Running \cup {t} /\ Cardinality(Running') = Cardinality(Running) + 1
    BY <1>2, TakeCounts
  <2>2. TypeOK'
    BY <1>0, <1>2, <2>1 DEF Take, TypeOK
  <2>3. Rest
    BY <1>0, <1>2, <2>1 DEF Take, TypeOK
  <2> QED
    BY <2>2, <2>3
<1>3. ASSUME NEW t \in Threads, Finish(t)
      PROVE  PoolInv'
  <2>1. /\ Running' = Running \ {t} /\ t \in Running
        /\ Cardinality(Running') = Cardinality(Running) - 1
    BY <1>3, FinishCounts
  <2>2. TypeOK'
    BY <1>0, <1>3, <2>1 DEF Finish, Stops, TypeOK
  <2>3. Rest
    BY <1>0, <1>3, <2>1 DEF Finish, Stops, TypeOK
  <2> QED
    BY <2>2, <2>3
<1>4. ASSUME NEW t \in Threads, Leave(t) \/ Loop(t) \/ Notify(t)
      PROVE  PoolInv'
  <2>1. Running' = Running
    BY <1>4, SameRunning DEF Leave, Loop, Notify, TypeOK
  <2>2. TypeOK'
    BY <1>4, <2>1 DEF Leave, Loop, Notify, TypeOK, StoppedAfterReset
  <2>3. CASE Leave(t)
    BY <2>1, <2>2, <2>3 DEF Leave, TypeOK
  <2>4. CASE Loop(t)
    <3>1. Rest
      BY <2>1, <2>4 DEF Loop, TypeOK, StoppedAfterReset
    <3> QED
      BY <2>2, <3>1
  <2>5. CASE Notify(t)
    BY <2>1, <2>2, <2>5 DEF Notify, TypeOK
  <2> QED
    BY <1>4, <2>3, <2>4, <2>5
<1>5. CASE Wait
  <2>1. Running' = Running
    BY <1>5, SameRunning DEF Wait
  <2>2. TypeOK'
    BY <1>5, <2>1 DEF Wait, Stops, WorkInWait, TypeOK
  <2>3. Rest
    BY <1>5, <2>1 DEF Wait, Stops, WorkInWait, TypeOK
  <2> QED
    BY <2>2, <2>3
<1>6. CASE Wake(TRUE) \/ Wake(FALSE)
  <2>1. Running' = Running
    BY <1>6, SameRunning DEF Wake
  <2>2. TypeOK'
    BY <1>6, <2>1 DEF Wake, TypeOK
  <2>3. Rest
    BY <1>6, <2>1 DEF Wake, Ready, TypeOK
  <2> QED
    BY <2>2, <2>3
<1>7. CASE ReadFirst \/ ReadSecond
  <2>1. Running' = Running
    BY <1>7, SameRunning DEF ReadFirst, ReadSecond
  <2>2. TypeOK'
    BY <1>7, <2>1 DEF ReadFirst, ReadSecond, TypeOK
  <2>3. Rest
    BY <1>7, <2>1 DEF ReadFirst, ReadSecond, FirstRead, TypeOK
  <2> QED
    BY <2>2, <2>3
<1>8. CASE End \/ Join
  <2>1. Running' = Running
    BY <1>8, SameRunning DEF End, Join
  <2>2. TypeOK'
    BY <1>8, <2>1 DEF End, EndStops, Stops, WorkAfterEnd, Join, TypeOK
  <2>3. Rest
    BY <1>8, <2>1 DEF End, EndStops, Stops, WorkAfterEnd, Join, Running, TypeOK
  <2> QED
    BY <2>2, <2>3
<1>9. CASE UNCHANGED vars
  <2>1. Running' = Running
    BY <1>9, SameRunning DEF vars
  <2> QED
    BY <1>9, <2>1 DEF vars, TypeOK
<1> QED
  BY <1>1, <1>2, <1>3, <1>4, <1>5, <1>6, <1>7, <1>8, <1>9 DEF Next, Thread

(* The pool can be used whenever a call of it has returned, whatever the   *)
(* threads were doing, and is destroyed when all journeys have ended.      *)
THEOREM PoolWorks == Spec => []PoolInv
  BY InitInv, NextInv, PTL DEF Spec

-----------------------------------------------------------------------------
(* The return of wait() means that nothing was left, unless it was ended   *)
(* by a thread that had come back for an earlier wait; and so does the     *)
(* return of a waitForAll() that reads the destroyed ones first.           *)
LEMMA StepReturns ==
  ASSUME PoolInv, [Next]_vars
  PROVE  /\ main = "waiting" /\ main' = "idle" => AllEnded \/ late # {}
         /\ main = "reading" /\ main' = "idle" => AllEnded \/ read.first = "created"
<1> USE DEF PoolInv
<1>1. ASSUME main = "waiting", main' = "idle"
      PROVE  AllEnded \/ late # {}
  <2>1. Wake(TRUE) \/ Wake(FALSE)
    BY <1>1 DEF Next, Thread, Go, Take, Finish, Leave, Loop, Notify, Wait, ReadFirst,
       ReadSecond, End, Join, vars
  <2>2. work
    BY <1>1, <2>1 DEF Wake, Ready
  <2> QED
    BY <1>1, <2>2 DEF ReadyMeansEnded
<1>2. ASSUME main = "reading", main' = "idle"
      PROVE  AllEnded \/ read.first = "created"
  <2>1. ReadSecond
    BY <1>2 DEF Next, Thread, Go, Take, Finish, Leave, Loop, Notify, Wait, Wake, ReadFirst,
       End, Join, vars
  <2> SUFFICES ASSUME read.first = "destroyed"
               PROVE  AllEnded
    BY DEF ReadInThePast
  <2>2. read.number = created /\ read.number <= destroyed
    BY <1>2, <2>1 DEF ReadSecond, AllDone, ReadInThePast
  <2> QED
    BY <2>2, RunningCounts DEF TypeOK, Accounted, AllEnded
<1> QED
  BY <1>1, <1>2

THEOREM ReturnsDone == Spec => ReturnMeansDone
<1>1. PoolInv /\ [Next]_vars =>
        [main = "waiting" /\ main' = "idle" => AllEnded \/ late # {}]_vars
  BY StepReturns
<1>2. PoolInv /\ [Next]_vars =>
        [main = "reading" /\ main' = "idle" => AllEnded \/ read.first = "created"]_vars
  BY StepReturns
<1> QED
  BY <1>1, <1>2, PoolWorks, PTL DEF Spec, ReturnMeansDone, WaitMeansDone, AllMeansAll
=============================================================================
