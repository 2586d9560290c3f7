----------------------------- MODULE MutexProofs -----------------------------
(***************************************************************************)
(* Proofs about Journey and Mutex, for every set of journeys and any       *)
(* number of events.                                                       *)
(***************************************************************************)
EXTENDS MutexProperties, JourneyProofs, SequenceTheorems

(* Every step but the three that only touch the mutex is an operation on a *)
(* journey.                                                                *)
LEMMA StepOp ==
  ASSUME NEW j \in Journeys, Step(j)
  PROVE  \/ AnyOp(j) \/ Lock(j) \/ Unlock(j) \/ HandOver(j)
BY DEF Step, AnyOp, LockWait, LockReturns, LockThrows, Pause, Continue, Throws,
       Prepare, Run, Event

(* What an unlock() with nobody to hand over to does, ...                  *)
LEMMA UnlockFrees ==
  ASSUME NEW j \in Journeys, Unlock(j), Usable = {}
  PROVE  /\ at' = [at EXCEPT ![j] = "outside"]
         /\ acquired' = FALSE
         /\ doers' = <<>>
         /\ UNCHANGED <<handed, journeyVars>>
<1>1. ~\E i \in Usable : TRUE
  OBVIOUS
<1> QED
  BY <1>1 DEF Unlock, journeyVars

(* ... and what one that hands over does.                                  *)
LEMMA UnlockHands ==
  ASSUME TypeOK, NEW j \in Journeys, Unlock(j), Usable # {}
  PROVE  \E d \in DoerType :
           /\ at' = [at EXCEPT ![j] = "unlocking"]
           /\ doers' \in Seq(DoerType)
           /\ handed' = [handed EXCEPT ![j] = d]
           /\ flags' = [flags EXCEPT ![d.who] = Disabled(d)]
           /\ UNCHANGED acquired
<1>1. PICK i \in Usable :
        /\ at' = [at EXCEPT ![j] = "unlocking"]
        /\ doers' = Behind(i)
        /\ handed' = [handed EXCEPT ![j] = doers[i]]
        /\ flags' = [flags EXCEPT ![doers[i].who] = Disabled(doers[i])]
        /\ UNCHANGED acquired
  BY DEF Unlock
<1>2. doers \in Seq(DoerType) /\ i \in DOMAIN doers
  BY DEF TypeOK, JourneyTypeOK, Usable
<1>3. doers[i] \in DoerType
  BY <1>2
<1>4. Behind(i) \in Seq(DoerType)
  BY <1>2 DEF Behind
<1> QED
  BY <1>1, <1>3, <1>4

(* Types and single resumptions are kept by every step.                    *)
LEMMA StepTyped ==
  ASSUME TypeOK, ResumedOnce, Whereabouts, NEW j \in Journeys, Step(j)
  PROVE  TypeOK' /\ ResumedOnce'
<1> USE DEF Goes, Place
<1>1. JourneyTypeOK
  BY DEF TypeOK, JourneyTypeOK
<1>2. Doer(j) \in DoerType /\ <<>> \in Seq(DoerType)
  BY <1>1, DoerTyped
<1>3. CASE AnyOp(j)
  <2>1. JourneyTypeOK' /\ ResumedOnce'
    BY <1>1, <1>3, OpKeeps
  <2>2. /\ acquired' \in BOOLEAN
        /\ doers' \in Seq(DoerType)
        /\ at' \in [Journeys -> Place]
        /\ handed' \in [Journeys -> DoerType \cup {NoDoer}]
    <3>1. CASE Lock(j)
      BY <3>1 DEF Lock, TypeOK, JourneyTypeOK
    <3>2. CASE LockWait(j)
      BY <1>2, <3>2 DEF LockWait, TypeOK, JourneyTypeOK
    <3>3. CASE \/ LockReturns(j) \/ LockThrows(j) \/ Pause(j) \/ Continue(j)
               \/ Prepare(j) \/ Run(j) \/ Event(j)
      <4>1. /\ UNCHANGED <<acquired, doers, handed>>
            /\ at' = at \/ \E p \in Place : at' = [at EXCEPT ![j] = p]
        BY <3>3 DEF LockReturns, LockThrows, Pause, Continue, Prepare, Run, Event
      <4> QED
        BY <4>1 DEF TypeOK, JourneyTypeOK
    <3>4. CASE Unlock(j)
      <4>1. CASE Usable = {}
        <5>1. /\ at' = [at EXCEPT ![j] = "outside"]
              /\ acquired' = FALSE
              /\ doers' = <<>>
              /\ UNCHANGED handed
          BY <3>4, <4>1, UnlockFrees
        <5> QED
          BY <1>2, <5>1 DEF TypeOK, JourneyTypeOK
      <4>2. CASE Usable # {}
        <5>1. PICK d \in DoerType :
                /\ at' = [at EXCEPT ![j] = "unlocking"]
                /\ doers' \in Seq(DoerType)
                /\ handed' = [handed EXCEPT ![j] = d]
                /\ UNCHANGED acquired
          BY <3>4, <4>2, UnlockHands
        <5> QED
          BY <5>1 DEF TypeOK, JourneyTypeOK
      <4> QED
        BY <4>1, <4>2
    <3>5. CASE HandOver(j)
      BY <3>5 DEF HandOver, TypeOK, JourneyTypeOK
    <3> QED
      BY <3>1, <3>2, <3>3, <3>4, <3>5 DEF Step
  <2> QED
    BY <2>1, <2>2 DEF TypeOK, JourneyTypeOK
<1>4. CASE Lock(j)
  BY <1>4 DEF Lock, TypeOK, JourneyTypeOK, ResumedOnce, journeyVars
<1>5. CASE Unlock(j)
  <2>1. CASE Usable = {}
    <3>1. /\ at' = [at EXCEPT ![j] = "outside"]
          /\ acquired' = FALSE
          /\ doers' = <<>>
          /\ UNCHANGED <<handed, journeyVars>>
      BY <1>5, <2>1, UnlockFrees
    <3> QED
      BY <1>2, <3>1 DEF TypeOK, JourneyTypeOK, ResumedOnce, journeyVars
  <2>2. CASE Usable # {}
    <3>1. PICK d \in DoerType :
            /\ at' = [at EXCEPT ![j] = "unlocking"]
            /\ doers' \in Seq(DoerType)
            /\ handed' = [handed EXCEPT ![j] = d]
            /\ flags' = [flags EXCEPT ![d.who] = Disabled(d)]
            /\ UNCHANGED acquired
      BY <1>5, <2>2, UnlockHands
    <3>2. d.who \in Journeys
      BY DEF DoerType
    <3>3. UNCHANGED <<phase, seen, ready, kept, events>>
      BY <1>5 DEF Unlock
    <3>4. flags' \in [Journeys -> Flags] /\ ResumedOnce'
      BY <1>1, <3>1, <3>2, <3>3, DisabledTyped, FlagsKeep DEF NobodySleepsOrWakes
    <3> QED
      BY <3>1, <3>3, <3>4 DEF TypeOK, JourneyTypeOK
  <2> QED
    BY <2>1, <2>2
<1>6. CASE HandOver(j)
  <2> DEFINE d == handed[j]
             f == [flags[d.who] EXCEPT !.done = TRUE, !.enabled = @ \/ d.enabled]
  <2>1. d \in DoerType /\ d.who \in Journeys
    BY <1>6 DEF HandOver, TypeOK, JourneyTypeOK, Whereabouts, DoerType
  <2>2. f \in Flags
    BY <1>1, <2>1, ReleasedTyped
  <2>3. Enter(d.who, f) /\ UNCHANGED <<phase, seen, kept, events, acquired, doers>>
    BY <1>6 DEF HandOver, ReleaseAndDone
  <2>4. handed' \in [Journeys -> DoerType \cup {NoDoer}] /\ at' \in [Journeys -> Place]
    BY <1>6 DEF HandOver, TypeOK, JourneyTypeOK
  <2>5. flags' \in [Journeys -> Flags] /\ ready' \in [Journeys -> Nat] /\ ResumedOnce'
    <3> HIDE DEF f
    <3> QED
      BY <1>1, <2>1, <2>2, <2>3, EnterKeeps DEF NobodySleepsOrWakes
  <2> QED
    BY <2>3, <2>4, <2>5 DEF TypeOK, JourneyTypeOK
<1> QED
  BY <1>3, <1>4, <1>5, <1>6, StepOp

(* The steps outside, of the pool and of those who send events change      *)
(* nothing that the ownership depends on.                                  *)
LEMMA QuietStep ==
  ASSUME JourneyTypeOK, NEW j \in Journeys, Prepare(j) \/ Run(j) \/ Event(j)
  PROVE  /\ UNCHANGED <<at, handed, acquired>>
         /\ \A k \in Journeys : flags'[k].done = flags[k].done
<1>1. UNCHANGED <<at, handed, acquired>> /\ AnyOp(j)
  BY DEF Prepare, Run, Event, AnyOp
<1>2. ~(Reschedule(j) \/ Returns(j) \/ ThrowsEvent(j))
  <2>1. ~(phase[j] = "running" /\ phase'[j] = "yielded")
    BY DEF Prepare, Guard, Unguard, Ends, Run, ResetEntered, Proceed0, Load, Event,
           Raise, Moves, JourneyTypeOK
  <2>2. ~(phase[j] = "handling" /\ phase'[j] = "running")
    BY DEF Prepare, Guard, Unguard, Ends, Run, ResetEntered, Proceed0, Load, Event,
           Raise, Moves, JourneyTypeOK
  <2> QED
    BY <2>1, <2>2 DEF Reschedule, Returns, ThrowsEvent, Handled, Moves, JourneyTypeOK
<1> QED
  BY <1>1, <1>2, OpDone

(* What the end of an unlock() does to the Done flags.                     *)
LEMMA HandOverDone ==
  ASSUME TypeOK, JourneyTypeOK, Whereabouts, NEW j \in Journeys, HandOver(j)
  PROVE  \E w \in Journeys :
           /\ flags'[w].done
           /\ \A k \in Journeys : k # w => flags'[k] = flags[k]
<1> DEFINE d == handed[j]
           f == [flags[d.who] EXCEPT !.done = TRUE, !.enabled = @ \/ d.enabled]
<1>1. d \in DoerType /\ d.who \in Journeys
  BY DEF HandOver, Goes, TypeOK, JourneyTypeOK, Whereabouts, DoerType
<1>2. f \in Flags /\ f.done
  BY <1>1, ReleasedTyped
<1>3. flags' = [flags EXCEPT ![d.who] = [f EXCEPT !.entered = TRUE]]
  BY DEF HandOver, ReleaseAndDone, Enter
<1> HIDE DEF d, f
<1>4. [f EXCEPT !.entered = TRUE].done
  BY <1>2 DEF Flags
<1> QED
  BY <1>1, <1>3, <1>4 DEF JourneyTypeOK

-----------------------------------------------------------------------------
(* What the invariant says of the ownership of the mutex.                  *)
Owned == SingleOwner /\ DoneIsKept /\ Whereabouts

(* Only the owner of the mutex is inside, only a granted journey gets out  *)
(* of the wait with it, and a handed doer becomes a grant.                 *)
LEMMA StepOwned ==
  ASSUME MutexInv, NEW j \in Journeys, Step(j), TypeOK'
  PROVE  Owned'
<1> USE DEF Goes
<1>1. JourneyTypeOK /\ TypeOK /\ Owned /\ ResumedOnce
  BY DEF MutexInv, TypeOK, JourneyTypeOK, Owned
<1>2. flags[j] \in Flags /\ seen[j] \in Flags
  BY <1>1 DEF JourneyTypeOK
<1>3. CASE Lock(j)
  BY <1>1, <1>3 DEF Lock, journeyVars, Owned, SingleOwner, Granted, Owns, Inside,
                    DoneIsKept, Whereabouts, TypeOK, JourneyTypeOK
<1>4. CASE LockWait(j)
  <2>1. PICK p \in {"resumed", "yielded"} : phase' = [phase EXCEPT ![j] = p]
    BY <1>4 DEF LockWait, WaitForDone, Moves
  <2>2. UNCHANGED <<flags, seen, acquired, handed>>
    BY <1>4 DEF LockWait, WaitForDone
  <2>3. at[j] = "outside" /\ at' = [at EXCEPT ![j] = "waiting"]
    BY <1>4 DEF LockWait
  <2> QED
    <3>1. SingleOwner'
      BY <1>1, <2>1, <2>2, <2>3 DEF Owned, SingleOwner, Granted, Owns, Inside, TypeOK, JourneyTypeOK
    <3>2. DoneIsKept'
      BY <1>1, <2>1, <2>2, <2>3 DEF Owned, DoneIsKept, TypeOK, JourneyTypeOK
    <3>3. Whereabouts'
      BY <1>1, <2>1, <2>2, <2>3 DEF Owned, Whereabouts, TypeOK, JourneyTypeOK
    <3> QED
      BY <3>1, <3>2, <3>3 DEF Owned
<1>5. CASE LockReturns(j)
  <2>1. /\ at[j] = "waiting" /\ at' = [at EXCEPT ![j] = "inside"]
        /\ phase[j] = "handling" /\ phase' = [phase EXCEPT ![j] = "running"]
        /\ UNCHANGED <<acquired, handed>>
    BY <1>5 DEF LockReturns, Returns, Handled, Moves
  <2>2. /\ ~flags'[j].done
        /\ \A k \in Journeys : k # j => flags'[k] = flags[k]
    BY <1>1, <1>5, OpDone DEF LockReturns, AnyOp
  <2>3. flags[j].done
    BY <1>1, <1>2, <1>5, <2>1 DEF LockReturns, Returns, Verified, Owned, DoneIsKept
  <2>4. \A k \in Journeys : k # j => seen'[k] = seen[k]
    BY <1>1, <1>5 DEF LockReturns, Returns, Handled, JourneyTypeOK
  <2> QED
    <3>1. SingleOwner'
      BY <1>1, <2>1, <2>2, <2>3, <2>4 DEF Owned, SingleOwner, Granted, Owns, Inside, TypeOK, JourneyTypeOK
    <3>2. DoneIsKept'
      BY <1>1, <2>1, <2>2, <2>3, <2>4 DEF Owned, DoneIsKept, TypeOK, JourneyTypeOK
    <3>3. Whereabouts'
      BY <1>1, <2>1, <2>2, <2>3, <2>4 DEF Owned, Whereabouts, TypeOK, JourneyTypeOK
    <3> QED
      BY <3>1, <3>2, <3>3 DEF Owned
<1>6. CASE LockThrows(j)
  <2>1. /\ at[j] = "waiting" /\ at' = [at EXCEPT ![j] = "outside"]
        /\ phase[j] = "handling" /\ phase' = [phase EXCEPT ![j] = "running"]
        /\ UNCHANGED <<acquired, handed>>
    BY <1>6 DEF LockThrows, Throws, ThrowsEvent, ThrowsError, Handled, Moves
  <2>2. /\ flags'[j].done => flags[j].done
        /\ \A k \in Journeys : k # j => flags'[k] = flags[k]
    <3>1. CASE ThrowsEvent(j)
      BY <1>1, <3>1, OpDone DEF AnyOp
    <3>2. CASE ThrowsError(j)
      BY <3>2 DEF ThrowsError
    <3> QED
      BY <1>6, <3>1, <3>2 DEF LockThrows, Throws
  <2>3. \A k \in Journeys : k # j => seen'[k] = seen[k]
    BY <1>1, <1>6 DEF LockThrows, Throws, ThrowsEvent, ThrowsError, Handled, JourneyTypeOK
  <2> QED
    <3>1. SingleOwner'
      BY <1>1, <2>1, <2>2, <2>3 DEF Owned, SingleOwner, Granted, Owns, Inside, TypeOK, JourneyTypeOK
    <3>2. DoneIsKept'
      BY <1>1, <2>1, <2>2, <2>3 DEF Owned, DoneIsKept, TypeOK, JourneyTypeOK
    <3>3. Whereabouts'
      BY <1>1, <2>1, <2>2, <2>3 DEF Owned, Whereabouts, TypeOK, JourneyTypeOK
    <3> QED
      BY <3>1, <3>2, <3>3 DEF Owned
<1>7. CASE Pause(j)
  <2>1. /\ at[j] = "inside" /\ at' = [at EXCEPT ![j] = "rescheduling"]
        /\ phase[j] = "running" /\ phase' = [phase EXCEPT ![j] = "yielded"]
        /\ UNCHANGED <<acquired, handed, seen>>
    BY <1>7 DEF Pause, Reschedule, Moves
  <2>2. /\ flags'[j].done
        /\ \A k \in Journeys : k # j => flags'[k] = flags[k]
    BY <1>1, <1>7, OpDone DEF Pause, AnyOp
  <2> QED
    <3>1. SingleOwner'
      BY <1>1, <2>1, <2>2 DEF Owned, SingleOwner, Granted, Owns, Inside, TypeOK, JourneyTypeOK
    <3>2. DoneIsKept'
      BY <1>1, <2>1, <2>2 DEF Owned, DoneIsKept, TypeOK, JourneyTypeOK
    <3>3. Whereabouts'
      BY <1>1, <2>1, <2>2 DEF Owned, Whereabouts, TypeOK, JourneyTypeOK
    <3> QED
      BY <3>1, <3>2, <3>3 DEF Owned
<1>8. CASE Continue(j)
  <2>1. /\ at[j] = "rescheduling" /\ at' = [at EXCEPT ![j] = "leaving"]
        /\ phase[j] = "handling" /\ phase' = [phase EXCEPT ![j] = "running"]
        /\ UNCHANGED <<acquired, handed>>
    BY <1>8 DEF Continue, Returns, Throws, ThrowsEvent, ThrowsError, Handled, Moves
  <2>2. ~ThrowsError(j)
    BY <1>1, <2>1 DEF Owned, DoneIsKept, ThrowsError, Verified
  <2>3. /\ ~flags'[j].done
        /\ \A k \in Journeys : k # j => flags'[k] = flags[k]
    BY <1>1, <1>8, <2>2, OpDone DEF Continue, Throws, AnyOp
  <2>4. \A k \in Journeys : k # j => seen'[k] = seen[k]
    BY <1>1, <1>8, <2>2 DEF Continue, Throws, Returns, ThrowsEvent, Handled, JourneyTypeOK
  <2> QED
    <3>1. SingleOwner'
      BY <1>1, <2>1, <2>3, <2>4 DEF Owned, SingleOwner, Granted, Owns, Inside, TypeOK, JourneyTypeOK
    <3>2. DoneIsKept'
      BY <1>1, <2>1, <2>3, <2>4 DEF Owned, DoneIsKept, TypeOK, JourneyTypeOK
    <3>3. Whereabouts'
      BY <1>1, <2>1, <2>3, <2>4 DEF Owned, Whereabouts, TypeOK, JourneyTypeOK
    <3> QED
      BY <3>1, <3>2, <3>3 DEF Owned
<1>9. CASE Unlock(j)
  <2>1. phase[j] = "running" /\ at[j] \in {"inside", "leaving"} /\ UNCHANGED <<phase, seen>>
    BY <1>9 DEF Unlock
  <2>2. CASE Usable = {}
    <3>1. /\ at' = [at EXCEPT ![j] = "outside"]
          /\ UNCHANGED <<handed, flags>>
          /\ acquired' = FALSE
      BY <1>9, <2>2, UnlockFrees DEF journeyVars
    <3> QED
      <4>1. SingleOwner'
        BY <1>1, <2>1, <3>1 DEF Owned, SingleOwner, Granted, Owns, Inside, TypeOK, JourneyTypeOK
      <4>2. DoneIsKept'
        BY <1>1, <2>1, <3>1 DEF Owned, DoneIsKept, TypeOK, JourneyTypeOK
      <4>3. Whereabouts'
        BY <1>1, <2>1, <3>1 DEF Owned, Whereabouts, TypeOK, JourneyTypeOK
      <4> QED
        BY <4>1, <4>2, <4>3 DEF Owned
  <2>3. CASE Usable # {}
    <3>1. PICK d \in DoerType :
            /\ at' = [at EXCEPT ![j] = "unlocking"]
            /\ handed' = [handed EXCEPT ![j] = d]
            /\ flags' = [flags EXCEPT ![d.who] = Disabled(d)]
            /\ UNCHANGED acquired
      BY <1>1, <1>9, <2>3, UnlockHands
    <3>2. \A k \in Journeys : flags'[k].done = flags[k].done
      BY <1>1, <3>1, DisabledTyped DEF JourneyTypeOK
    <3>3. d # NoDoer
      <4>1. d.who \in Journeys /\ DOMAIN d = {"who", "counter", "enabled"}
        BY DEF DoerType
      <4>2. DOMAIN NoDoer = {"who"}
        BY DEF NoDoer
      <4> QED
        BY <4>1, <4>2
    <3> QED
      <4>1. SingleOwner'
        BY <1>1, <2>1, <3>1, <3>2, <3>3 DEF Owned, SingleOwner, Granted, Owns, Inside, TypeOK, JourneyTypeOK
      <4>2. DoneIsKept'
        BY <1>1, <2>1, <3>1, <3>2, <3>3 DEF Owned, DoneIsKept, TypeOK, JourneyTypeOK
      <4>3. Whereabouts'
        BY <1>1, <2>1, <3>1, <3>2, <3>3 DEF Owned, Whereabouts, TypeOK, JourneyTypeOK
      <4> QED
        BY <4>1, <4>2, <4>3 DEF Owned
  <2> QED
    BY <2>2, <2>3
<1>10. CASE HandOver(j)
  <2>1. PICK w \in Journeys :
          /\ flags'[w].done
          /\ \A k \in Journeys : k # w => flags'[k] = flags[k]
    BY <1>1, <1>10, HandOverDone DEF Owned
  <2>2. /\ at[j] = "unlocking" /\ at' = [at EXCEPT ![j] = "outside"]
        /\ handed' = [handed EXCEPT ![j] = NoDoer]
        /\ UNCHANGED <<phase, seen, acquired>>
    BY <1>10 DEF HandOver
  <2>3. \A k \in Journeys : k # j => ~Owns(k)
    BY <1>1, <2>2 DEF Owned, SingleOwner, Owns
  <2>4. acquired /\ ~Granted(j)
    BY <1>1, <2>2 DEF Owned, SingleOwner, Owns
  <2>5. /\ \A k \in Journeys : Owns(k)' => k = w
        /\ \A k \in Journeys : ~Inside(k)' /\ at'[k] # "unlocking"
    BY <1>1, <2>1, <2>2, <2>3, <2>4 DEF Granted, Owns, Inside, TypeOK, JourneyTypeOK
  <2>6. SingleOwner'
    BY <2>2, <2>4, <2>5 DEF SingleOwner
  <2>7. DoneIsKept'
    BY <1>1, <2>1, <2>2 DEF Owned, DoneIsKept, TypeOK, JourneyTypeOK
  <2>8. Whereabouts'
    BY <1>1, <2>2 DEF Owned, Whereabouts, TypeOK, JourneyTypeOK
  <2> QED
    BY <2>6, <2>7, <2>8 DEF Owned
<1>11. CASE Prepare(j)
  <2>1. /\ UNCHANGED <<at, handed, acquired>>
        /\ \A k \in Journeys : flags'[k].done = flags[k].done
    BY <1>1, <1>11, QuietStep
  <2>2. /\ UNCHANGED seen
        /\ \/ phase' = phase
           \/ phase[j] = "running" /\ phase' = [phase EXCEPT ![j] = "ended"]
    BY <1>11 DEF Prepare, Ends, Guard, Unguard, Moves
  <2> QED
    <3>1. SingleOwner'
      BY <1>1, <2>1, <2>2 DEF Owned, SingleOwner, Granted, Owns, Inside, TypeOK, JourneyTypeOK
    <3>2. DoneIsKept'
      BY <1>1, <2>1, <2>2 DEF Owned, DoneIsKept, TypeOK, JourneyTypeOK
    <3>3. Whereabouts'
      BY <1>1, <2>1, <2>2 DEF Owned, Whereabouts, TypeOK, JourneyTypeOK
    <3> QED
      BY <3>1, <3>2, <3>3 DEF Owned
<1>12. CASE Run(j)
  <2>1. /\ UNCHANGED <<at, handed, acquired>>
        /\ \A k \in Journeys : flags'[k].done = flags[k].done
    BY <1>1, <1>12, QuietStep
  <2>2. CASE ResetEntered(j)
    <3>1. phase[j] = "yielded" /\ phase' = [phase EXCEPT ![j] = "suspended"] /\ UNCHANGED seen
      BY <2>2 DEF ResetEntered, Moves
    <3> QED
      <4>1. SingleOwner'
        BY <1>1, <2>1, <3>1 DEF Owned, SingleOwner, Granted, Owns, Inside, TypeOK, JourneyTypeOK
      <4>2. DoneIsKept'
        BY <1>1, <2>1, <3>1 DEF Owned, DoneIsKept, TypeOK, JourneyTypeOK
      <4>3. Whereabouts'
        BY <1>1, <2>1, <3>1 DEF Owned, Whereabouts, TypeOK, JourneyTypeOK
      <4> QED
        BY <4>1, <4>2, <4>3 DEF Owned
  <2>3. CASE Proceed0(j)
    <3>1. phase[j] = "suspended"
      BY <1>1, <2>3 DEF Proceed0, ResumedOnce
    <3>2. phase' = [phase EXCEPT ![j] = "resumed"] /\ UNCHANGED seen
      BY <2>3 DEF Proceed0
    <3> QED
      <4>1. SingleOwner'
        BY <1>1, <2>1, <3>1, <3>2 DEF Owned, SingleOwner, Granted, Owns, Inside, TypeOK, JourneyTypeOK
      <4>2. DoneIsKept'
        BY <1>1, <2>1, <3>1, <3>2 DEF Owned, DoneIsKept, TypeOK, JourneyTypeOK
      <4>3. Whereabouts'
        BY <1>1, <2>1, <3>1, <3>2 DEF Owned, Whereabouts, TypeOK, JourneyTypeOK
      <4> QED
        BY <4>1, <4>2, <4>3 DEF Owned
  <2>4. CASE Load(j)
    <3>1. /\ phase[j] = "resumed" /\ phase' = [phase EXCEPT ![j] = "handling"]
          /\ seen' = [seen EXCEPT ![j] = flags[j]]
      BY <2>4 DEF Load, Moves
    <3> QED
      <4>1. SingleOwner'
        BY <1>1, <2>1, <3>1 DEF Owned, SingleOwner, Granted, Owns, Inside, TypeOK, JourneyTypeOK
      <4>2. DoneIsKept'
        BY <1>1, <2>1, <3>1 DEF Owned, DoneIsKept, TypeOK, JourneyTypeOK
      <4>3. Whereabouts'
        BY <1>1, <2>1, <3>1 DEF Owned, Whereabouts, TypeOK, JourneyTypeOK
      <4> QED
        BY <4>1, <4>2, <4>3 DEF Owned
  <2> QED
    BY <1>12, <2>2, <2>3, <2>4 DEF Run
<1>13. CASE Event(j)
  <2>1. /\ UNCHANGED <<at, handed, acquired, phase, seen>>
        /\ \A k \in Journeys : flags'[k].done = flags[k].done
    BY <1>1, <1>13, QuietStep DEF Event, Raise
  <2> QED
    <3>1. SingleOwner'
      BY <1>1, <2>1 DEF Owned, SingleOwner, Granted, Owns, Inside, TypeOK, JourneyTypeOK
    <3>2. DoneIsKept'
      BY <1>1, <2>1 DEF Owned, DoneIsKept, TypeOK, JourneyTypeOK
    <3>3. Whereabouts'
      BY <1>1, <2>1 DEF Owned, Whereabouts, TypeOK, JourneyTypeOK
    <3> QED
      BY <3>1, <3>2, <3>3 DEF Owned
<1> QED
  BY <1>3, <1>4, <1>5, <1>6, <1>7, <1>8, <1>9, <1>10, <1>11, <1>12, <1>13 DEF Step

-----------------------------------------------------------------------------
(* The mutex is free at first and nobody has it.                           *)
LEMMA InitInv == Init => MutexInv
<1> SUFFICES ASSUME Init
             PROVE  MutexInv
  OBVIOUS
<1>0. PICK n \in {0, MaxEvents + 1} : Started(Journeys, n)
  BY DEF Init, JourneyInit
<1>n. n \in Nat
  BY JourneyAssumption
<1> USE <1>0, <1>n DEF Init, Free, Started
<1>1. NewFlags \in Flags /\ NewFlags.entered /\ ~NewFlags.done
  BY DEF NewFlags, Flags
<1>2. TypeOK
  <2>1. <<>> \in Seq(DoerType)
    OBVIOUS
  <2> QED
    BY <1>1, <2>1 DEF TypeOK, JourneyTypeOK, Phase, Place
<1>3. ResumedOnce
  BY <1>1 DEF ResumedOnce
<1>4. SingleOwner /\ DoneIsKept /\ Whereabouts
  BY <1>1 DEF SingleOwner, Owns, Granted, Inside, DoneIsKept, Whereabouts
<1> QED
  BY <1>2, <1>3, <1>4 DEF MutexInv

(* A mutex that is had by somebody stays so, is freed, or is lost by one   *)
(* that it was handed to and whose lock() throws.                          *)
LEMMA StepLosing ==
  ASSUME MutexInv, NEW j \in Journeys, Step(j), TypeOK',
         NEW o \in Journeys, Owns(o), acquired'
  PROVE  \/ (\E k \in Journeys : Owns(k))'
         \/ \E k \in Journeys : Granted(k) /\ LockThrows(k)
<1> USE DEF Goes
<1>1. JourneyTypeOK /\ TypeOK /\ Whereabouts /\ SingleOwner
  BY DEF MutexInv, TypeOK, JourneyTypeOK
<1>2. CASE Lock(j)
  BY <1>1, <1>2 DEF Lock, SingleOwner
<1>3. CASE LockWait(j)
  <2>1. at[j] = "outside" /\ at' = [at EXCEPT ![j] = "waiting"] /\ UNCHANGED flags
    BY <1>3 DEF LockWait, WaitForDone
  <2>2. Owns(o)'
    BY <1>1, <2>1 DEF Owns, Granted, Inside, TypeOK, JourneyTypeOK
  <2> QED
    BY <2>2
<1>4. CASE LockReturns(j) \/ Pause(j) \/ Continue(j)
  <2>1. Inside(j)'
    BY <1>1, <1>4 DEF LockReturns, Pause, Continue, Inside, TypeOK, JourneyTypeOK
  <2> QED
    BY <2>1 DEF Owns
<1>5. CASE LockThrows(j)
  <2>1. CASE o = j
    BY <1>5, <2>1 DEF LockThrows, Owns, Inside
  <2>2. CASE o # j
    <3>1. at'[o] = at[o]
      BY <1>1, <1>5, <2>2 DEF LockThrows, TypeOK, JourneyTypeOK
    <3>2. flags'[o] = flags[o]
      BY <1>1, <1>5, <2>2 DEF LockThrows, Throws, ThrowsEvent, ThrowsError, TypeOK, JourneyTypeOK
    <3> QED
      BY <3>1, <3>2 DEF Owns, Granted, Inside
  <2> QED
    BY <2>1, <2>2
<1>6. CASE Unlock(j)
  <2>1. Usable # {}
    BY <1>6, UnlockFrees
  <2>2. at' = [at EXCEPT ![j] = "unlocking"]
    BY <1>1, <1>6, <2>1, UnlockHands
  <2> QED
    BY <1>1, <2>2 DEF Owns, TypeOK, JourneyTypeOK
<1>7. CASE HandOver(j)
  <2>1. PICK w \in Journeys : flags'[w].done
    BY <1>1, <1>7, HandOverDone
  <2>2. \A k \in Journeys : k # j => ~Inside(k)
    BY <1>1, <1>7 DEF HandOver, SingleOwner, Owns
  <2>3. at' = [at EXCEPT ![j] = "outside"]
    BY <1>7 DEF HandOver
  <2>4. at'[w] # "rescheduling"
    BY <1>1, <2>2, <2>3 DEF Inside, TypeOK, JourneyTypeOK
  <2> QED
    BY <2>1, <2>4 DEF Owns, Granted
<1>8. CASE Prepare(j) \/ Run(j) \/ Event(j)
  BY <1>1, <1>8, QuietStep DEF Owns, Granted, Inside
<1> QED
  BY <1>2, <1>3, <1>4, <1>5, <1>6, <1>7, <1>8 DEF Step

-----------------------------------------------------------------------------
(* Every step keeps the invariant.                                         *)
LEMMA NextInv == MutexInv /\ [Next]_vars => MutexInv'
<1> SUFFICES ASSUME MutexInv, [Next]_vars
             PROVE  MutexInv'
  OBVIOUS
<1>1. CASE UNCHANGED vars
  BY <1>1 DEF vars, journeyVars, MutexInv, TypeOK, JourneyTypeOK, ResumedOnce, SingleOwner, Owns,
              Granted, Inside, DoneIsKept, Whereabouts
<1>2. CASE Next
  <2>1. PICK j \in Journeys : Step(j)
    BY <1>2 DEF Next
  <2>2. TypeOK' /\ ResumedOnce'
    BY <2>1, StepTyped DEF MutexInv
  <2>3. Owned'
    BY <2>1, <2>2, StepOwned
  <2> QED
    BY <2>2, <2>3 DEF MutexInv, Owned
<1> QED
  BY <1>1, <1>2

(* What MutexProperties calls inductive is: it holds in every state of     *)
(* every behaviour.                                                        *)
THEOREM Inductive == Spec => []MutexInv
<1> QED
  BY InitInv, NextInv, PTL DEF Spec

(* No two journeys are between lock() and the end of unlock()'s guard: the *)
(* one that is inside has the mutex, and only one can.                     *)
THEOREM MutualExclusionHolds == Spec => []MutualExclusion
<1>1. MutexInv => MutualExclusion
  BY DEF MutexInv, SingleOwner, Owns, MutualExclusion
<1> QED
  BY <1>1, Inductive, PTL

(* proceed0() is scheduled once for each suspension, and never for a       *)
(* journey that runs or was deleted.                                       *)
THEOREM ResumedOnceHolds == Spec => []ResumedOnce
<1>1. MutexInv => ResumedOnce
  BY DEF MutexInv
<1> QED
  BY <1>1, Inductive, PTL

(* acquired_ stays TRUE with nobody to reset it only after a lock() threw  *)
(* in a journey that Done was set for.                                     *)
THEOREM OwnershipLoss == Spec => LostByThrowingOnly
<1> DEFINE Losing ==
      (\E j \in Journeys : Owns(j)) /\ acquired' =>
        \/ (\E j \in Journeys : Owns(j))'
        \/ \E j \in Journeys : Granted(j) /\ LockThrows(j)
<1>1. MutexInv /\ MutexInv' /\ [Next]_vars => [Losing]_vars
  <2> SUFFICES ASSUME MutexInv, MutexInv', Next, NEW o \in Journeys, Owns(o), acquired'
               PROVE  \/ (\E j \in Journeys : Owns(j))'
                      \/ \E j \in Journeys : Granted(j) /\ LockThrows(j)
    OBVIOUS
  <2>1. PICK j \in Journeys : Step(j)
    BY DEF Next
  <2> QED
    BY <2>1, StepLosing DEF MutexInv
<1> QED
  BY <1>1, Inductive, PTL DEF Spec, LostByThrowingOnly

-----------------------------------------------------------------------------
(* Without events a journey goes on only when its Done flag is set, so no  *)
(* wait throws and every doer can be acquired.                             *)
Undisturbed ==
  \A j \in Journeys :
    /\ flags[j].raised = {} /\ flags[j].counter = 0 /\ seen[j].raised = {}
    /\ phase[j] \in {"resumed", "handling"} => flags[j].done
    /\ phase[j] = "suspended" /\ flags[j].entered => flags[j].done
    /\ phase[j] = "handling" => seen[j].done

(* The one that has the mutex is one, at most, and those that wait behind  *)
(* it are in the queue, once each.                                         *)
Lined ==
  /\ \A j \in Journeys : flags[j].done => at[j] \in {"waiting", "rescheduling"}
  /\ \A j, k \in Journeys : Owner(j) /\ Owner(k) => j = k
  /\ acquired <=> \E j \in Journeys : Owner(j)
  /\ ~acquired => doers = <<>>
  /\ \A i \in DOMAIN doers :
       /\ doers[i].counter = 0
       /\ at[doers[i].who] = "waiting"
       /\ \A k \in Journeys : Owner(k) => doers[i].who # k
  /\ \A i, k \in DOMAIN doers : doers[i].who = doers[k].who => i = k
  /\ \A k \in Journeys : at[k] = "unlocking" => at[handed[k].who] = "waiting"

Orderly == Calm => Undisturbed /\ Lined

(* Nobody throws and nobody raises events.                                 *)
LEMMA CalmNeverThrows ==
  ASSUME JourneyTypeOK, Calm, Undisturbed, NEW j \in Journeys
  PROVE  /\ ~Throws(j)
         /\ \A event : ~Raise(j, event)
<1>1. flags[j] \in Flags /\ seen[j] \in Flags /\ events \in Nat
  BY DEF JourneyTypeOK
<1>2. ~ThrowsEvent(j)
  BY DEF ThrowsEvent, Undisturbed
<1>3. ~ThrowsError(j)
  BY DEF ThrowsError, Handled, Moves, Verified, Undisturbed
<1>4. \A event : ~Raise(j, event)
  BY <1>1, JourneyAssumption DEF Raise, Calm
<1> QED
  BY <1>2, <1>3, <1>4 DEF Throws

(* What flags of a journey that was not disturbed may become.              *)
LEMMA CalmOp ==
  ASSUME JourneyTypeOK, ResumedOnce, Calm, Undisturbed, NEW j \in Journeys, AnyOp(j)
  PROVE  Undisturbed'
<1>1. flags[j] \in Flags /\ seen[j] \in Flags
  BY DEF JourneyTypeOK
<1>2. \A k \in Journeys :
        k # j => flags'[k] = flags[k] /\ phase'[k] = phase[k] /\ seen'[k] = seen[k]
  BY OpLocal
<1>3. /\ flags[j].raised = {} /\ flags[j].counter = 0 /\ seen[j].raised = {}
      /\ phase[j] \in {"resumed", "handling"} => flags[j].done
      /\ phase[j] = "suspended" /\ flags[j].entered => flags[j].done
      /\ phase[j] = "handling" => seen[j].done
  BY DEF Undisturbed
<1> DEFINE Good ==
      /\ flags'[j].raised = {} /\ flags'[j].counter = 0 /\ seen'[j].raised = {}
      /\ phase'[j] \in {"resumed", "handling"} => flags'[j].done
      /\ phase'[j] = "suspended" /\ flags'[j].entered => flags'[j].done
      /\ phase'[j] = "handling" => seen'[j].done
<1>4. ASSUME WaitForDone(j) \/ Ends(j) \/ Load(j)
      PROVE  Good
  BY <1>1, <1>3, <1>4 DEF WaitForDone, Ends, Load, Moves, JourneyTypeOK
<1>5. ASSUME Reschedule(j)
      PROVE  Good
  <2>1. flags'[j].raised = flags[j].raised /\ flags'[j].counter = flags[j].counter
    BY <1>1, <1>5 DEF Reschedule, Done, Enter, JourneyTypeOK, Flags
  <2> QED
    BY <1>3, <1>5, <2>1 DEF Reschedule, Moves, JourneyTypeOK
<1>6. ASSUME Returns(j)
      PROVE  Good
  <2>1. flags'[j].raised = flags[j].raised /\ flags'[j].counter = flags[j].counter
    BY <1>1, <1>6 DEF Returns, JourneyTypeOK, Flags
  <2>2. phase'[j] = "running" /\ seen'[j] = NewFlags
    BY <1>6 DEF Returns, Handled, Moves, JourneyTypeOK
  <2> QED
    BY <1>3, <2>1, <2>2 DEF NewFlags
<1>7. ASSUME Guard(j) \/ Unguard(j)
      PROVE  Good
  <2>1. flags'[j].raised = flags[j].raised /\ flags'[j].counter = flags[j].counter
    BY <1>1, <1>7 DEF Guard, Unguard, JourneyTypeOK, Flags
  <2>2. phase'[j] = "running" /\ seen'[j] = seen[j]
    BY <1>7 DEF Guard, Unguard
  <2> QED
    BY <1>3, <2>1, <2>2
<1>8. ASSUME ResetEntered(j)
      PROVE  Good
  <2>1. /\ flags'[j].raised = flags[j].raised /\ flags'[j].counter = flags[j].counter
        /\ flags'[j].done = flags[j].done
        /\ flags'[j].entered => MayProceed(flags[j])
    BY <1>1, <1>8 DEF ResetEntered, JourneyTypeOK, Flags
  <2>2. phase'[j] = "suspended" /\ seen'[j] = seen[j]
    BY <1>8 DEF ResetEntered, Moves, JourneyTypeOK
  <2> QED
    BY <1>3, <2>1, <2>2 DEF MayProceed
<1>9. ASSUME Proceed0(j)
      PROVE  Good
  <2>1. phase[j] = "suspended" /\ flags[j].entered
    BY <1>9 DEF Proceed0, ResumedOnce
  <2>2. phase'[j] = "resumed" /\ UNCHANGED <<flags, seen>>
    BY <1>9 DEF Proceed0, JourneyTypeOK
  <2> QED
    BY <1>3, <2>1, <2>2
<1>10. Good
  BY <1>4, <1>5, <1>6, <1>7, <1>8, <1>9, CalmNeverThrows DEF AnyOp, Throws
<1> QED
  BY <1>2, <1>10 DEF Undisturbed

(* Acquiring a doer and telling its journey does not disturb it.           *)
LEMMA CalmTold ==
  ASSUME JourneyTypeOK, Undisturbed, NEW d \in DoerType, UNCHANGED <<phase, seen>>
  PROVE  /\ flags' = [flags EXCEPT ![d.who] = Disabled(d)] => Undisturbed'
         /\ ReleaseAndDone(d) => Undisturbed'
<1>1. d.who \in Journeys /\ flags[d.who] \in Flags
  BY DEF DoerType, JourneyTypeOK
<1>2. /\ flags[d.who].raised = {} /\ flags[d.who].counter = 0
      /\ phase[d.who] \in {"resumed", "handling"} => flags[d.who].done
      /\ phase[d.who] = "suspended" /\ flags[d.who].entered => flags[d.who].done
  BY <1>1 DEF Undisturbed
<1>3. ASSUME flags' = [flags EXCEPT ![d.who] = Disabled(d)]
      PROVE  Undisturbed'
  <2>1. /\ Disabled(d).raised = flags[d.who].raised
        /\ Disabled(d).counter = flags[d.who].counter
        /\ Disabled(d).entered = flags[d.who].entered
        /\ Disabled(d).done = flags[d.who].done
    BY <1>1 DEF Disabled, Flags
  <2>2. \A k \in Journeys : flags'[k] = IF k = d.who THEN Disabled(d) ELSE flags[k]
    BY <1>3 DEF JourneyTypeOK
  <2> QED
    BY <1>1, <1>2, <2>1, <2>2 DEF Undisturbed
<1>4. ASSUME ReleaseAndDone(d)
      PROVE  Undisturbed'
  <2> DEFINE f == [flags[d.who] EXCEPT !.done = TRUE, !.enabled = @ \/ d.enabled]
             g == [f EXCEPT !.entered = TRUE]
  <2>1. f \in Flags /\ f.done /\ f.raised = {} /\ f.counter = 0
    BY <1>1, <1>2, ReleasedTyped DEF Flags
  <2> HIDE DEF f
  <2>2. g.done /\ g.raised = {} /\ g.counter = 0
    BY <2>1 DEF Flags
  <2>3. flags' = [flags EXCEPT ![d.who] = g]
    BY <1>4 DEF ReleaseAndDone, Enter, f
  <2> HIDE DEF g
  <2>4. \A k \in Journeys : flags'[k] = IF k = d.who THEN g ELSE flags[k]
    BY <2>3 DEF JourneyTypeOK
  <2> QED
    BY <1>1, <2>2, <2>4 DEF Undisturbed
<1> QED
  BY <1>3, <1>4

(* A doer in the queue can be acquired: unlock() takes the first.          *)
LEMMA AllUsable ==
  ASSUME TypeOK, Undisturbed, Lined
  PROVE  Usable = DOMAIN doers
<1> SUFFICES ASSUME NEW i \in DOMAIN doers
             PROVE  Acquirable(doers[i])
  BY DEF Usable
<1>1. doers \in Seq(DoerType)
  BY DEF TypeOK
<1>2. doers[i] \in DoerType
  BY <1>1
<1>3. doers[i].who \in Journeys
  BY <1>2 DEF DoerType
<1> QED
  BY <1>3 DEF Acquirable, Undisturbed, Lined

(* A step that leaves the mutex to its owner and the queue as it is.       *)
LEMMA LinedSame ==
  ASSUME Lined, UNCHANGED <<acquired, doers>>,
         \A k \in Journeys : Owner(k)' <=> Owner(k),
         \A k \in Journeys : flags'[k].done => at'[k] \in {"waiting", "rescheduling"},
         \A i \in DOMAIN doers : doers[i].who \in Journeys,
         \A i \in DOMAIN doers : at'[doers[i].who] = "waiting",
         \A k \in Journeys : at'[k] = "unlocking" => at'[handed'[k].who] = "waiting"
  PROVE  Lined'
BY DEF Lined

(* What a step of a mutex without events does to it.                       *)
Turn ==
  \/ /\ UNCHANGED <<acquired, doers>>
     /\ \A k \in Journeys : Owner(k)' <=> Owner(k)
  \/ /\ ~acquired /\ acquired' /\ UNCHANGED doers
  \/ \E j \in Journeys :
       /\ acquired /\ acquired' /\ at[j] = "outside"
       /\ doers' = Append(doers, Doer(j))
       /\ \A k \in Journeys : Owner(k)' <=> Owner(k)
  \/ /\ acquired /\ doers = <<>> /\ ~acquired'
  \/ /\ acquired /\ acquired' /\ doers # <<>>
     /\ doers' = Behind(1)
     /\ \E w \in Journeys : w = doers[1].who /\ Owner(w)'

LEMMA LinedStep ==
  ASSUME MutexInv, TypeOK', Calm, Undisturbed, Lined, NEW j \in Journeys, Step(j)
  PROVE  Lined' /\ Turn
<1> USE DEF Goes
<1>1. JourneyTypeOK /\ TypeOK /\ SingleOwner /\ DoneIsKept /\ Whereabouts /\ JourneyTypeOK'
  BY DEF MutexInv, TypeOK
<1>2. /\ at \in [Journeys -> Place] /\ handed \in [Journeys -> DoerType \cup {NoDoer}]
      /\ doers \in Seq(DoerType) /\ flags[j] \in Flags
  BY <1>1 DEF TypeOK, JourneyTypeOK
<1>3. \A i \in DOMAIN doers : doers[i] \in DoerType /\ doers[i].who \in Journeys
  <2> TAKE i \in DOMAIN doers
  <2>1. doers[i] \in DoerType
    BY <1>2
  <2> QED
    BY <2>1 DEF DoerType
<1>4. \A k \in Journeys : at[k] = "unlocking" =>
        /\ handed[k] \in DoerType /\ handed[k].who \in Journeys
        /\ Owner(handed[k].who) /\ at[handed[k].who] = "waiting"
  BY <1>1, <1>2 DEF Whereabouts, DoerType, Owner, Lined
<1>5. \A k \in Journeys : Inside(k) \/ at[k] = "outside" => ~flags[k].done \/ at[k] = "rescheduling"
  BY DEF Lined, Inside
<1>6. CASE LockReturns(j)
  <2>1. /\ at[j] = "waiting" /\ at' = [at EXCEPT ![j] = "inside"]
        /\ phase[j] = "handling" /\ UNCHANGED <<acquired, doers, handed>>
    BY <1>6 DEF LockReturns, Returns, Handled, Moves
  <2>2. /\ ~flags'[j].done
        /\ \A k \in Journeys : k # j => flags'[k] = flags[k]
    BY <1>1, <1>6, OpDone DEF LockReturns, AnyOp
  <2>3. flags[j].done
    BY <2>1 DEF Undisturbed
  <2>4. Owner(j) /\ Granted(j) /\ Owner(j)'
    BY <1>2, <2>1, <2>3 DEF Owner, Granted, Inside
  <2>5. \A k \in Journeys : at[k] # "unlocking"
    BY <1>1, <2>1, <2>4 DEF SingleOwner, Owns
  <2>6. \A k \in Journeys : Owner(k)' <=> Owner(k)
    BY <1>2, <2>1, <2>2, <2>4, <2>5 DEF Owner, Inside
  <2>7. \A k \in Journeys : flags'[k].done => at'[k] \in {"waiting", "rescheduling"}
    BY <1>2, <2>1, <2>2 DEF Lined
  <2>8. \A i \in DOMAIN doers : at'[doers[i].who] = "waiting"
    BY <1>2, <1>3, <2>1, <2>4 DEF Lined
  <2>9. \A k \in Journeys : at'[k] # "unlocking"
    BY <1>2, <2>1, <2>5
  <2> QED
    BY <1>3, <2>1, <2>6, <2>7, <2>8, <2>9, LinedSame DEF Turn
<1>7. CASE Pause(j) \/ Continue(j)
  <2>1. /\ Inside(j) /\ UNCHANGED <<acquired, doers, handed>>
        /\ \E p \in {"rescheduling", "leaving"} : at' = [at EXCEPT ![j] = p]
    BY <1>7 DEF Pause, Continue, Inside
  <2>2. /\ flags'[j].done => at'[j] = "rescheduling"
        /\ \A k \in Journeys : k # j => flags'[k] = flags[k]
    <3>1. CASE Pause(j)
      BY <1>1, <1>2, <3>1, OpDone DEF Pause, AnyOp
    <3>2. CASE Continue(j)
      BY <1>1, <3>2, OpDone, CalmNeverThrows DEF Continue, AnyOp
    <3> QED
      BY <1>7, <3>1, <3>2
  <2>3. \A k \in Journeys : Owner(k)' <=> Owner(k)
    BY <1>2, <2>1, <2>2 DEF Owner, Inside
  <2>4. \A k \in Journeys : flags'[k].done => at'[k] \in {"waiting", "rescheduling"}
    BY <1>2, <2>1, <2>2 DEF Lined
  <2>5. \A i \in DOMAIN doers : at'[doers[i].who] = "waiting"
    BY <1>2, <1>3, <2>1 DEF Lined, Inside
  <2>6. \A k \in Journeys : at'[k] = "unlocking" => at'[handed'[k].who] = "waiting"
    BY <1>2, <1>4, <2>1 DEF Inside
  <2> QED
    BY <1>3, <2>1, <2>3, <2>4, <2>5, <2>6, LinedSame DEF Turn
<1>8. CASE HandOver(j)
  <2> DEFINE w == handed[j].who
  <2>1. /\ at[j] = "unlocking" /\ at' = [at EXCEPT ![j] = "outside"]
        /\ handed' = [handed EXCEPT ![j] = NoDoer] /\ UNCHANGED <<acquired, doers>>
        /\ ReleaseAndDone(handed[j])
    BY <1>8 DEF HandOver
  <2>2. handed[j] \in DoerType /\ w \in Journeys /\ Owner(w) /\ at[w] = "waiting" /\ w # j
    BY <1>4, <2>1
  <2>3. \A k \in Journeys : k # w => flags'[k] = flags[k]
    BY <1>1, <2>1, <2>2 DEF ReleaseAndDone, Enter, JourneyTypeOK
  <2>4. flags'[w].done
    <3>1. PICK x \in Journeys : flags'[x].done /\ \A k \in Journeys : k # x => flags'[k] = flags[k]
      BY <1>1, <1>8, HandOverDone
    <3>2. CASE x = w
      BY <3>1, <3>2
    <3>3. CASE x # w
      <4>1. flags[x].done
        BY <2>3, <3>1, <3>3
      <4>2. Owner(x) \/ at[x] = "rescheduling"
        BY <4>1 DEF Lined, Owner
      <4>3. Owner(x)
        BY <4>2 DEF Owner, Inside
      <4> QED
        BY <2>2, <3>3, <4>3 DEF Lined
    <3> QED
      BY <3>2, <3>3
  <2>5. /\ at'[w] = "waiting"
        /\ \A k \in Journeys : Inside(k)' <=> Inside(k)
        /\ \A k \in Journeys : k # w /\ at'[k] = "waiting" /\ flags'[k].done <=>
                               k # w /\ at[k] = "waiting" /\ flags[k].done
        /\ \A k \in Journeys : at'[k] = "unlocking" <=> at[k] = "unlocking" /\ k # j
        /\ \A k \in Journeys : k # j => handed'[k] = handed[k]
    BY <1>2, <2>1, <2>2, <2>3 DEF Inside
  <2> HIDE DEF w
  <2>6. \A k \in Journeys : Owner(k)' <=> Owner(k)
    <3> TAKE k \in Journeys
    <3>1. CASE k = w
      BY <2>2, <2>4, <2>5, <3>1 DEF Owner
    <3>2. CASE k # w
      BY <2>5, <3>2 DEF Owner, w
    <3> QED
      BY <3>1, <3>2
  <2>7. \A k \in Journeys : flags'[k].done => at'[k] \in {"waiting", "rescheduling"}
    BY <1>2, <2>1, <2>3, <2>5 DEF Lined
  <2>8. \A i \in DOMAIN doers : at'[doers[i].who] = "waiting"
    BY <1>2, <1>3, <2>1 DEF Lined
  <2>9. \A k \in Journeys : at'[k] = "unlocking" => at'[handed'[k].who] = "waiting"
    BY <1>2, <1>4, <2>1, <2>5
  <2> QED
    BY <1>3, <2>1, <2>6, <2>7, <2>8, <2>9, LinedSame DEF Turn
<1>9. CASE Prepare(j) \/ Run(j) \/ Event(j)
  <2>1. /\ UNCHANGED <<at, handed, acquired, doers>>
        /\ \A k \in Journeys : flags'[k].done = flags[k].done
    BY <1>1, <1>9, QuietStep DEF Prepare, Run, Event
  <2>2. \A k \in Journeys : Owner(k)' <=> Owner(k)
    BY <2>1 DEF Owner, Inside
  <2>3. /\ \A k \in Journeys : flags'[k].done => at'[k] \in {"waiting", "rescheduling"}
        /\ \A i \in DOMAIN doers : at'[doers[i].who] = "waiting"
        /\ \A k \in Journeys : at'[k] = "unlocking" => at'[handed'[k].who] = "waiting"
    BY <2>1 DEF Lined
  <2> QED
    BY <1>3, <2>1, <2>2, <2>3, LinedSame DEF Turn
<1>10. CASE Lock(j)
  <2>1. /\ ~acquired /\ acquired' /\ at[j] = "outside" /\ at' = [at EXCEPT ![j] = "inside"]
        /\ UNCHANGED <<flags, doers, handed>> /\ doers = <<>>
    BY <1>10 DEF Lock, journeyVars, Lined
  <2>2. \A k \in Journeys : ~Owner(k) /\ at[k] # "unlocking"
    BY <1>4, <2>1 DEF Lined
  <2>3. \A k \in Journeys : Owner(k)' <=> k = j
    BY <1>2, <2>1, <2>2 DEF Owner, Inside
  <2>4. \A k \in Journeys : at'[k] # "unlocking"
    BY <1>2, <2>1, <2>2
  <2>5. \A k \in Journeys : flags'[k].done => at'[k] \in {"waiting", "rescheduling"}
    BY <1>2, <2>1 DEF Lined
  <2>6. Lined'
    BY <2>1, <2>3, <2>4, <2>5 DEF Lined
  <2> QED
    BY <2>1, <2>6 DEF Turn
<1>11. CASE LockWait(j)
  <2>1. /\ acquired /\ at[j] = "outside" /\ at' = [at EXCEPT ![j] = "waiting"]
        /\ doers' = Append(doers, Doer(j)) /\ UNCHANGED <<flags, acquired, handed>>
    BY <1>11 DEF LockWait, WaitForDone
  <2>2. ~Owner(j) /\ ~flags[j].done /\ \A i \in DOMAIN doers : doers[i].who # j
    <3>1. ~flags[j].done
      BY <2>1 DEF Lined
    <3>2. \A k \in Journeys : at[k] = "unlocking" => handed[k].who # j
      BY <1>4, <2>1
    <3> QED
      BY <2>1, <3>1, <3>2 DEF Lined, Owner, Inside
  <2>3. \A k \in Journeys : Owner(k)' <=> Owner(k)
    BY <1>2, <2>1, <2>2 DEF Owner, Inside
  <2>4. /\ DOMAIN doers' = 1 .. Len(doers) + 1 /\ DOMAIN doers = 1 .. Len(doers)
        /\ Len(doers) \in Nat
        /\ \A i \in DOMAIN doers : doers'[i] = doers[i]
        /\ doers'[Len(doers) + 1] = Doer(j)
    BY <1>1, <1>2, <2>1, DoerTyped, AppendProperties, LenProperties
  <2>5. Doer(j).who = j /\ Doer(j).counter = 0
    BY DEF Doer, Undisturbed
  <2>6. \A i \in DOMAIN doers' : i \in DOMAIN doers \/ i = Len(doers) + 1
    BY <2>4
  <2>7. \A i \in DOMAIN doers' : /\ doers'[i].counter = 0
                                 /\ at'[doers'[i].who] = "waiting"
                                 /\ \A k \in Journeys : Owner(k) => doers'[i].who # k
    BY <1>2, <1>3, <2>1, <2>2, <2>4, <2>5, <2>6 DEF Lined
  <2>8. \A i, k \in DOMAIN doers' : doers'[i].who = doers'[k].who => i = k
    BY <2>2, <2>4, <2>5, <2>6 DEF Lined
  <2>9. \A k \in Journeys : at'[k] = "unlocking" => at'[handed'[k].who] = "waiting"
    BY <1>2, <1>4, <2>1
  <2>10. \A k \in Journeys : flags'[k].done => at'[k] \in {"waiting", "rescheduling"}
    BY <1>2, <2>1 DEF Lined
  <2>11. acquired' /\ \E k \in Journeys : Owner(k)'
    BY <2>1, <2>3 DEF Lined
  <2>12. \A k, m \in Journeys : Owner(k)' /\ Owner(m)' => k = m
    BY <2>3 DEF Lined
  <2>13. Lined'
    BY <2>3, <2>7, <2>8, <2>9, <2>10, <2>11, <2>12 DEF Lined
  <2> QED
    BY <2>1, <2>3, <2>13 DEF Turn
<1>12. CASE Unlock(j)
  <2>1. Inside(j) /\ Owner(j) /\ acquired /\ at[j] \in {"inside", "leaving"}
    BY <1>1, <1>12 DEF Unlock, Inside, Owner, SingleOwner, Owns
  <2>2. \A k \in Journeys : Owner(k) <=> k = j
    BY <2>1 DEF Lined
  <2>3. \A k \in Journeys : at[k] # "unlocking"
    BY <1>4, <2>1, <2>2
  <2>4. CASE doers = <<>>
    <3>1. Usable = {}
      BY <1>1, <2>4, AllUsable
    <3>2. /\ at' = [at EXCEPT ![j] = "outside"] /\ acquired' = FALSE /\ doers' = <<>>
          /\ UNCHANGED <<handed, flags>>
      BY <1>12, <3>1, UnlockFrees DEF journeyVars
    <3>3. \A k \in Journeys : ~Owner(k)'
      BY <1>2, <2>1, <2>2, <2>3, <3>2 DEF Owner, Inside
    <3>4. \A k \in Journeys : flags'[k].done => at'[k] \in {"waiting", "rescheduling"}
      BY <1>2, <2>1, <3>2 DEF Lined
    <3>5. \A k \in Journeys : at'[k] # "unlocking"
      BY <1>2, <2>3, <3>2
    <3>6. Lined'
      BY <3>2, <3>3, <3>4, <3>5 DEF Lined
    <3> QED
      BY <2>1, <2>4, <3>2, <3>6 DEF Turn
  <2>5. CASE doers # <<>>
    <3> DEFINE d == doers[1]
               w == doers[1].who
    <3>1. Len(doers) \in Nat /\ DOMAIN doers = 1 .. Len(doers) /\ Len(doers) # 0
      BY <1>2, <2>5, LenProperties, EmptySeq
    <3>2. Usable = 1 .. Len(doers) /\ 1 \in DOMAIN doers
      BY <1>1, <3>1, AllUsable
    <3>3. PICK i \in Usable :
            /\ \A k \in Usable : i <= k
            /\ at' = [at EXCEPT ![j] = "unlocking"]
            /\ doers' = Behind(i)
            /\ handed' = [handed EXCEPT ![j] = doers[i]]
            /\ flags' = [flags EXCEPT ![doers[i].who] = Disabled(doers[i])]
            /\ UNCHANGED acquired
      BY <1>12, <3>1, <3>2 DEF Unlock
    <3>4. i = 1
      BY <3>1, <3>2, <3>3
    <3>5. /\ doers' = Behind(1) /\ handed' = [handed EXCEPT ![j] = d]
          /\ flags' = [flags EXCEPT ![w] = Disabled(d)]
          /\ d \in DoerType /\ w \in Journeys /\ at[w] = "waiting" /\ ~Owner(w) /\ w # j
      BY <1>3, <2>1, <3>2, <3>3, <3>4 DEF Lined
    <3>6. \A k \in Journeys : flags'[k].done = flags[k].done
      BY <1>1, <3>5, DisabledTyped DEF JourneyTypeOK
    <3>7. /\ DOMAIN doers' = 1 .. Len(doers) - 1
          /\ \A k \in 1 .. Len(doers) - 1 : k + 1 \in DOMAIN doers /\ doers'[k] = doers[k + 1]
      BY <1>2, <3>1, <3>5, SubSeqProperties DEF Behind
    <3> HIDE DEF d, w
    <3>8. \A k \in Journeys : Owner(k)' <=> k = w
      <4> TAKE k \in Journeys
      <4>1. ~Inside(k)'
        BY <1>2, <2>2, <3>3, <3>4 DEF Inside, Owner
      <4>2. ~(at'[k] = "waiting" /\ flags'[k].done)
        BY <1>2, <2>1, <2>2, <3>3, <3>6 DEF Owner
      <4>3. (\E m \in Journeys : at'[m] = "unlocking" /\ handed'[m].who = k) <=> k = w
        BY <1>2, <2>3, <3>3, <3>5 DEF d, w
      <4> QED
        BY <4>1, <4>2, <4>3 DEF Owner
    <3>9. \A k \in DOMAIN doers' : /\ doers'[k].counter = 0
                                   /\ doers'[k].who \in Journeys
                                   /\ at'[doers'[k].who] = "waiting"
                                   /\ doers'[k].who # w
      <4> TAKE k \in DOMAIN doers'
      <4>1. k + 1 \in DOMAIN doers /\ doers'[k] = doers[k + 1] /\ k + 1 # 1
        BY <3>1, <3>7
      <4>2. /\ doers[k + 1].counter = 0 /\ doers[k + 1].who \in Journeys
            /\ at[doers[k + 1].who] = "waiting" /\ doers[k + 1].who # w
        BY <1>3, <3>2, <4>1 DEF Lined, w
      <4> QED
        BY <1>2, <2>1, <3>3, <4>1, <4>2
    <3>10. \A k, m \in DOMAIN doers' : doers'[k].who = doers'[m].who => k = m
      <4> TAKE k, m \in DOMAIN doers'
      <4>1. /\ k + 1 \in DOMAIN doers /\ doers'[k] = doers[k + 1]
            /\ m + 1 \in DOMAIN doers /\ doers'[m] = doers[m + 1]
            /\ k \in Int /\ m \in Int
        BY <3>1, <3>7
      <4>2. doers[k + 1].who = doers[m + 1].who => k + 1 = m + 1
        BY <4>1 DEF Lined
      <4> QED
        BY <4>1, <4>2
    <3>11. \A k \in Journeys : at'[k] = "unlocking" => at'[handed'[k].who] = "waiting"
      BY <1>2, <2>3, <3>3, <3>5 DEF d, w
    <3>12. \A k \in Journeys : flags'[k].done => at'[k] \in {"waiting", "rescheduling"}
      BY <1>2, <2>1, <3>3, <3>6 DEF Lined
    <3>13. acquired' /\ \E k \in Journeys : Owner(k)'
      BY <2>1, <3>3, <3>5, <3>8
    <3>14. Lined'
      BY <3>8, <3>9, <3>10, <3>11, <3>12, <3>13 DEF Lined
    <3>15. w = doers[1].who
      BY DEF w
    <3> QED
      BY <2>1, <2>5, <3>5, <3>8, <3>13, <3>14, <3>15 DEF Turn
  <2> QED
    BY <2>4, <2>5
<1>13. CASE LockThrows(j)
  BY <1>1, <1>13, CalmNeverThrows DEF LockThrows
<1> QED
  BY <1>6, <1>7, <1>8, <1>9, <1>10, <1>11, <1>12, <1>13 DEF Step

(* No step raises events in a behaviour without them.                      *)
LEMMA StaysCalm ==
  ASSUME TypeOK, NEW j \in Journeys, Step(j)
  PROVE  Calm' <=> Calm
<1>1. JourneyTypeOK
  BY DEF TypeOK, JourneyTypeOK
<1>2. CASE AnyOp(j)
  BY <1>1, <1>2, OpLocal
<1>3. CASE Lock(j) \/ Unlock(j) \/ HandOver(j)
  BY <1>3 DEF Lock, Unlock, HandOver, journeyVars, Calm
<1> QED
  BY <1>2, <1>3, StepOp

LEMMA UndisturbedStep ==
  ASSUME MutexInv, Calm, Undisturbed, NEW j \in Journeys, Step(j)
  PROVE  Undisturbed'
<1>1. JourneyTypeOK /\ TypeOK /\ ResumedOnce /\ Whereabouts
  BY DEF MutexInv, TypeOK
<1>2. CASE AnyOp(j)
  BY <1>1, <1>2, CalmOp
<1>3. CASE Lock(j)
  BY <1>3 DEF Lock, journeyVars, Undisturbed
<1>4. CASE Unlock(j)
  <2>1. CASE Usable = {}
    BY <1>4, <2>1, UnlockFrees DEF journeyVars, Undisturbed
  <2>2. CASE Usable # {}
    <3>1. PICK i \in Usable : flags' = [flags EXCEPT ![doers[i].who] = Disabled(doers[i])]
      BY <1>4, <2>2 DEF Unlock
    <3>2. doers[i] \in DoerType
      <4>1. doers \in Seq(DoerType) /\ i \in DOMAIN doers
        BY <1>1, <3>1 DEF TypeOK, Usable
      <4> QED
        BY <4>1
    <3>3. UNCHANGED <<phase, seen>>
      BY <1>4 DEF Unlock
    <3> QED
      BY <1>1, <3>1, <3>2, <3>3, CalmTold
  <2> QED
    BY <2>1, <2>2
<1>5. CASE HandOver(j)
  <2>1. ReleaseAndDone(handed[j]) /\ UNCHANGED <<phase, seen>>
    BY <1>5 DEF HandOver
  <2>2. handed[j] \in DoerType
    BY <1>1, <1>5 DEF HandOver, Goes, Whereabouts, TypeOK
  <2> QED
    BY <1>1, <2>1, <2>2, CalmTold
<1> QED
  BY <1>2, <1>3, <1>4, <1>5, StepOp

LEMMA OrderlyInit == Init => Orderly
<1> SUFFICES ASSUME Init
             PROVE  Undisturbed /\ Lined
  BY DEF Orderly
<1>1. PICK n \in {0, MaxEvents + 1} : Started(Journeys, n)
  BY DEF Init, JourneyInit
<1>2. /\ \A j \in Journeys : flags[j] = NewFlags /\ seen[j] = NewFlags /\ phase[j] = "running"
      /\ acquired = FALSE /\ doers = <<>> /\ \A j \in Journeys : at[j] = "outside"
  BY <1>1 DEF Started, Init, Free
<1>n. NewFlags.raised = {} /\ NewFlags.counter = 0 /\ ~NewFlags.done
  BY DEF NewFlags
<1>3. Undisturbed
  BY <1>2, <1>n DEF Undisturbed
<1>4. \A j \in Journeys : ~Owner(j) /\ ~flags[j].done
  BY <1>2, <1>n DEF Owner, Inside
<1>5. DOMAIN doers = {}
  BY <1>2
<1> QED
  BY <1>2, <1>3, <1>4, <1>5 DEF Lined

LEMMA OrderlyNext ==
  ASSUME MutexInv, MutexInv', Orderly, [Next]_vars
  PROVE  /\ Orderly'
         /\ (Calm' <=> Calm)
         /\ Calm => Turn
<1>1. CASE UNCHANGED vars
  <2>1. UNCHANGED <<flags, phase, seen, events, acquired, doers, at, handed>>
    BY <1>1 DEF vars, journeyVars
  <2>2. Calm' <=> Calm
    BY <2>1 DEF Calm
  <2>3. \A k \in Journeys : Owner(k)' <=> Owner(k)
    BY <2>1 DEF Owner, Inside
  <2>4. Undisturbed => Undisturbed'
    BY <2>1 DEF Undisturbed
  <2>5. Lined => Lined'
    BY <2>1, <2>3 DEF Lined
  <2> QED
    BY <2>1, <2>2, <2>3, <2>4, <2>5 DEF Orderly, Turn
<1>2. CASE Next
  <2>1. PICK j \in Journeys : Step(j)
    BY <1>2 DEF Next
  <2>2. TypeOK /\ TypeOK'
    BY DEF MutexInv
  <2>3. Calm' <=> Calm
    BY <2>1, <2>2, StaysCalm
  <2>4. ASSUME Calm
        PROVE  Undisturbed' /\ Lined' /\ Turn
    <3>1. Undisturbed /\ Lined
      BY <2>4 DEF Orderly
    <3> QED
      BY <2>1, <2>2, <2>4, <3>1, UndisturbedStep, LinedStep
  <2> QED
    BY <2>3, <2>4 DEF Orderly
<1> QED
  BY <1>1, <1>2

-----------------------------------------------------------------------------
(* Those that wait, in order.                                              *)
Whos == [i \in DOMAIN doers |-> doers[i].who]

(* What the queue of a mutex without events is, whoever the owner is.      *)
QueueParts ==
  Calm => /\ Whos \in Seq(Journeys) /\ Len(Whos) = Len(doers)
          /\ \A j \in Journeys : Owner(j) => queue = <<j>> \o Whos
          /\ ~acquired => queue = <<>>

LEMMA QueueMeans ==
  ASSUME TypeOK, Orderly
  PROVE  QueueParts
<1> SUFFICES ASSUME Calm
             PROVE  /\ Whos \in Seq(Journeys) /\ Len(Whos) = Len(doers)
                    /\ \A j \in Journeys : Owner(j) => queue = <<j>> \o Whos
                    /\ ~acquired => queue = <<>>
  BY DEF QueueParts
<1>1. Lined /\ doers \in Seq(DoerType)
  BY DEF Orderly, TypeOK
<1>2. Len(doers) \in Nat /\ DOMAIN doers = 1 .. Len(doers)
  BY <1>1, LenProperties
<1>3. \A i \in 1 .. Len(doers) : doers[i].who \in Journeys
  <2> TAKE i \in 1 .. Len(doers)
  <2>1. doers[i] \in DoerType
    BY <1>1
  <2> QED
    BY <2>1 DEF DoerType
<1>4. Whos = [i \in 1 .. Len(doers) |-> doers[i].who]
  BY <1>2 DEF Whos
<1>5. Whos \in Seq(Journeys) /\ Len(Whos) = Len(doers)
  BY <1>2, <1>3, <1>4
<1>6. ASSUME NEW j \in Journeys, Owner(j)
      PROVE  queue = <<j>> \o Whos
  <2>1. \A k \in Journeys : Owner(k) <=> k = j
    BY <1>1, <1>6 DEF Lined
  <2>2. acquired
    BY <1>1, <1>6 DEF Lined
  <2>3. (CHOOSE k \in Journeys : Owner(k)) = j
    BY <2>1
  <2> QED
    BY <2>2, <2>3 DEF queue, Whos
<1>7. ASSUME ~acquired
      PROVE  queue = <<>>
  <2>1. doers = <<>>
    BY <1>1, <1>7 DEF Lined
  <2>2. Whos = <<>>
    BY <1>4, <2>1
  <2> QED
    BY <1>7, <2>2 DEF queue, Whos
<1> QED
  BY <1>5, <1>6, <1>7

(* Behind a first one.                                                     *)
LEMMA FirstOff ==
  ASSUME NEW S, NEW x \in S, NEW s \in Seq(S)
  PROVE  /\ <<x>> \o s \in Seq(S) /\ <<x>> \o s # <<>>
         /\ Tail(<<x>> \o s) = s
         /\ \A y : y # x /\ (\A i \in DOMAIN s : s[i] # y) =>
                     \A i \in DOMAIN (<<x>> \o s) : (<<x>> \o s)[i] # y
         /\ \A y \in S : <<x>> \o Append(s, y) = Append(<<x>> \o s, y)
<1> DEFINE q == <<x>> \o s
<1>1. <<x>> \in Seq(S) /\ Len(<<x>>) = 1 /\ <<x>>[1] = x
  OBVIOUS
<1>2. Len(s) \in Nat /\ DOMAIN s = 1 .. Len(s)
  BY LenProperties
<1>3. /\ q \in Seq(S) /\ Len(q) = Len(s) + 1
      /\ \A i \in 1 .. Len(s) + 1 : q[i] = IF i <= 1 THEN <<x>>[i] ELSE s[i - 1]
  <2>1. /\ q \in Seq(S) /\ Len(q) = Len(<<x>>) + Len(s)
        /\ \A i \in 1 .. Len(<<x>>) + Len(s) :
             q[i] = IF i <= Len(<<x>>) THEN <<x>>[i] ELSE s[i - Len(<<x>>)]
    BY <1>1, ConcatProperties
  <2> QED
    BY <1>1, <1>2, <2>1
<1>6. ASSUME NEW y \in S
      PROVE  <<x>> \o Append(s, y) = Append(q, y)
  <2>1. <<y>> \in Seq(S)
    OBVIOUS
  <2>2. Append(s, y) = s \o <<y>> /\ Append(q, y) = q \o <<y>>
    BY <1>3, AppendIsConcat
  <2>3. (<<x>> \o s) \o <<y>> = <<x>> \o (s \o <<y>>)
    BY <1>1, <2>1, ConcatAssociative
  <2> QED
    BY <2>2, <2>3
<1> HIDE DEF q
<1>4. q # <<>> /\ DOMAIN q = 1 .. Len(s) + 1
  BY <1>2, <1>3, LenProperties, EmptySeq
<1>5. Tail(q) = s
  <2>1. /\ Tail(q) \in Seq(S) /\ Len(Tail(q)) = Len(q) - 1
        /\ \A i \in 1 .. Len(Tail(q)) : Tail(q)[i] = q[i + 1]
    BY <1>3, <1>4, HeadTailProperties
  <2>2. \A i \in 1 .. Len(Tail(q)) : Tail(q)[i] = s[i]
    BY <1>2, <1>3, <2>1
  <2>3. Len(Tail(q)) = Len(s)
    BY <1>2, <1>3, <2>1
  <2> QED
    BY <2>1, <2>2, <2>3, SeqEqual
<1>7. ASSUME NEW y, y # x, \A i \in DOMAIN s : s[i] # y, NEW i \in DOMAIN q
      PROVE  q[i] # y
  <2>1. CASE i = 1
    BY <1>1, <1>2, <1>3, <1>7, <2>1
  <2>2. CASE i # 1
    <3>1. q[i] = s[i - 1] /\ i - 1 \in DOMAIN s
      BY <1>2, <1>3, <1>4, <2>2
    <3> QED
      BY <1>7, <3>1
  <2> QED
    BY <2>1, <2>2
<1> QED
  BY <1>3, <1>4, <1>5, <1>6, <1>7 DEF q

(* A step of the mutex is one of the queue.                                *)
LEMMA QueueTurn ==
  ASSUME TypeOK, TypeOK', Calm, Calm', Lined, Lined', QueueParts, QueueParts', Turn
  PROVE  Fair!Next \/ UNCHANGED queue
<1>1. /\ Whos \in Seq(Journeys) /\ Whos' \in Seq(Journeys) /\ doers \in Seq(DoerType)
      /\ Len(Whos) = Len(doers) /\ Len(Whos)' = Len(doers')
      /\ \A j \in Journeys : Owner(j) => queue = <<j>> \o Whos
      /\ \A j \in Journeys : Owner(j)' => queue' = <<j>> \o Whos'
      /\ ~acquired => queue = <<>>
      /\ ~acquired' => queue' = <<>>
  BY DEF QueueParts, TypeOK
<1>2. /\ acquired => \E j \in Journeys : Owner(j)
      /\ acquired' => \E j \in Journeys : Owner(j)'
      /\ ~acquired => doers = <<>>
  BY DEF Lined
<1>3. /\ doers = <<>> => Whos = <<>>
      /\ doers' = <<>> => Whos' = <<>>
      /\ doers' = doers => Whos' = Whos
  BY DEF Whos
<1>4. CASE /\ UNCHANGED <<acquired, doers>>
           /\ \A k \in Journeys : Owner(k)' <=> Owner(k)
  <2>1. CASE acquired
    <3>1. PICK j \in Journeys : Owner(j)
      BY <1>2, <2>1
    <3>2. queue = <<j>> \o Whos /\ queue' = <<j>> \o Whos' /\ Whos' = Whos
      BY <1>1, <1>3, <1>4, <3>1
    <3> QED
      BY <3>2
  <2>2. CASE ~acquired
    BY <1>1, <1>4, <2>2
  <2> QED
    BY <2>1, <2>2
<1>5. CASE ~acquired /\ acquired' /\ UNCHANGED doers
  <2>1. PICK j \in Journeys : Owner(j)'
    BY <1>2, <1>5
  <2>2. queue' = <<j>> \o <<>> /\ queue = <<>>
    BY <1>1, <1>2, <1>3, <1>5, <2>1
  <2>3. queue' = Append(queue, j)
    <3>1. <<j>> \in Seq(Journeys)
      OBVIOUS
    <3>2. queue' = <<j>>
      BY <2>2, <3>1, ConcatEmptySeq
    <3> QED
      BY <2>2, <3>2
  <2> QED
    BY <2>2, <2>3 DEF Fair!Next, Fair!Request
<1>6. ASSUME NEW j \in Journeys,
             acquired, acquired', at[j] = "outside", doers' = Append(doers, Doer(j)),
             \A k \in Journeys : Owner(k)' <=> Owner(k)
      PROVE  Fair!Request(j)
  <2>1. PICK w \in Journeys : Owner(w)
    BY <1>2, <1>6
  <2>2. queue = <<w>> \o Whos /\ queue' = <<w>> \o Whos'
    BY <1>1, <1>6, <2>1
  <2>3. Whos' = Append(Whos, j)
    <3>1. Doer(j) \in DoerType /\ Doer(j).who = j
      <4>1. JourneyTypeOK
        BY DEF TypeOK, JourneyTypeOK
      <4> QED
        BY <4>1, DoerTyped DEF Doer
    <3>2. /\ Len(doers) \in Nat /\ DOMAIN doers = 1 .. Len(doers)
          /\ DOMAIN doers' = 1 .. Len(doers) + 1 /\ Len(doers') = Len(doers) + 1
          /\ \A i \in 1 .. Len(doers) : doers'[i] = doers[i]
          /\ doers'[Len(doers) + 1] = Doer(j)
      BY <1>1, <1>6, <3>1, AppendProperties, LenProperties
    <3>3. /\ \A i \in 1 .. Len(doers) : Whos'[i] = Whos[i]
          /\ Whos'[Len(doers) + 1] = j
      BY <3>1, <3>2 DEF Whos
    <3>4. /\ Append(Whos, j) \in Seq(Journeys)
          /\ Len(Append(Whos, j)) = Len(doers) + 1
          /\ \A i \in 1 .. Len(doers) : Append(Whos, j)[i] = Whos[i]
          /\ Append(Whos, j)[Len(doers) + 1] = j
      BY <1>1, AppendProperties
    <3>5. \A i \in 1 .. Len(doers) + 1 : Whos'[i] = Append(Whos, j)[i]
      BY <3>2, <3>3, <3>4
    <3>6. Len(Whos') = Len(doers) + 1
      BY <1>1, <3>2
    <3> QED
      BY <1>1, <3>4, <3>5, <3>6, SeqEqual
  <2>4. \A i \in DOMAIN Whos : Whos[i] # j
    <3> TAKE i \in DOMAIN Whos
    <3>1. i \in DOMAIN doers /\ Whos[i] = doers[i].who
      BY DEF Whos
    <3> QED
      BY <1>6, <3>1 DEF Lined
  <2>5. j # w
    BY <1>6, <2>1 DEF Owner, Inside, Lined
  <2>6. \A i \in DOMAIN (<<w>> \o Whos) : (<<w>> \o Whos)[i] # j
    BY <1>1, <2>4, <2>5, FirstOff
  <2>7. <<w>> \o Append(Whos, j) = Append(<<w>> \o Whos, j)
    BY <1>1, FirstOff
  <2> QED
    BY <2>2, <2>3, <2>6, <2>7 DEF Fair!Request
<1>7. CASE acquired /\ doers = <<>> /\ ~acquired'
  <2>1. PICK w \in Journeys : Owner(w)
    BY <1>2, <1>7
  <2>2. queue = <<w>> \o Whos /\ Whos = <<>> /\ queue' = <<>>
    BY <1>1, <1>3, <1>7, <2>1
  <2>3. <<w>> \o Whos # <<>> /\ Tail(<<w>> \o Whos) = Whos
    BY <1>1, FirstOff
  <2> QED
    BY <2>2, <2>3 DEF Fair!Next, Fair!Release
<1>8. CASE /\ acquired /\ acquired' /\ doers # <<>>
           /\ doers' = Behind(1)
           /\ \E w \in Journeys : w = doers[1].who /\ Owner(w)'
  <2>1. PICK v \in Journeys : Owner(v)
    BY <1>2, <1>8
  <2>2. PICK w \in Journeys : w = doers[1].who /\ Owner(w)'
    BY <1>8
  <2>3. queue = <<v>> \o Whos /\ queue' = <<w>> \o Whos'
    BY <1>1, <2>1, <2>2
  <2>4. Whos = <<w>> \o Whos'
    <3>1. Len(doers) \in Nat \ {0} /\ DOMAIN doers = 1 .. Len(doers)
      BY <1>1, <1>8, LenProperties, EmptySeq
    <3>2. \A i \in 2 .. Len(doers) : doers[i] \in DoerType
      BY <1>1, <3>1, ElementOfSeq
    <3>3. /\ doers' \in Seq(DoerType) /\ Len(doers') = Len(doers) - 1
          /\ \A i \in 1 .. Len(doers) - 1 : doers'[i] = doers[i + 1]
      <4>1. /\ SubSeq(doers, 2, Len(doers)) \in Seq(DoerType)
            /\ Len(SubSeq(doers, 2, Len(doers))) =
                 IF 2 <= Len(doers) THEN Len(doers) - 2 + 1 ELSE 0
            /\ \A i \in 1 .. Len(doers) - 2 + 1 :
                 SubSeq(doers, 2, Len(doers))[i] = doers[2 + i - 1]
        BY <3>1, <3>2, SubSeqProperties
      <4>2. doers' = SubSeq(doers, 2, Len(doers))
        BY <1>8 DEF Behind
      <4> QED
        BY <3>1, <4>1, <4>2
    <3>4. DOMAIN doers' = 1 .. Len(doers) - 1
      BY <3>3, LenProperties
    <3>5. /\ \A i \in 1 .. Len(doers) - 1 : Whos'[i] = Whos[i + 1]
          /\ Whos[1] = w
      BY <2>2, <3>1, <3>3, <3>4 DEF Whos
    <3>6. /\ <<w>> \in Seq(Journeys) /\ Len(<<w>>) = 1 /\ <<w>>[1] = w
          /\ Len(Whos') = Len(doers) - 1
      BY <1>1, <3>3
    <3>7. /\ <<w>> \o Whos' \in Seq(Journeys)
          /\ Len(<<w>> \o Whos') = Len(<<w>>) + Len(Whos')
          /\ \A i \in 1 .. Len(<<w>>) + Len(Whos') :
               (<<w>> \o Whos')[i] = IF i <= Len(<<w>>) THEN <<w>>[i] ELSE Whos'[i - Len(<<w>>)]
      BY <1>1, <3>6, ConcatProperties
    <3>8. \A i \in 1 .. Len(doers) : (<<w>> \o Whos')[i] = Whos[i]
      BY <3>1, <3>5, <3>6, <3>7
    <3>9. Len(<<w>> \o Whos') = Len(doers)
      <4>1. Len(<<w>>) + Len(Whos') = 1 + (Len(doers) - 1) /\ Len(doers) \in Int
        BY <3>1, <3>6
      <4>2. Len(<<w>> \o Whos') = 1 + (Len(doers) - 1)
        BY <3>7, <4>1
      <4> QED
        BY <4>1, <4>2
    <3> QED
      BY <1>1, <3>7, <3>8, <3>9, SeqEqual
  <2>5. <<v>> \o Whos # <<>> /\ Tail(<<v>> \o Whos) = Whos
    BY <1>1, FirstOff
  <2> QED
    BY <2>3, <2>4, <2>5 DEF Fair!Next, Fair!Release
<1> QED
  BY <1>4, <1>5, <1>6, <1>7, <1>8 DEF Turn, Fair!Next

(* Without events the mutex is the fair lock, however many journeys ask    *)
(* for it: it is given in the order in which they came to lock().          *)
THEOREM MutexIsFair == Spec => FirstComeFirstServed
<1> DEFINE Parts == MutexInv /\ Orderly /\ QueueParts
<1>1. Init => (Calm => Fair!Init)
  <2> SUFFICES ASSUME Init, Calm
               PROVE  queue = <<>>
    BY DEF Fair!Init
  <2>1. QueueParts
    BY InitInv, OrderlyInit, QueueMeans DEF MutexInv
  <2>2. ~acquired
    BY DEF Init, Free
  <2> QED
    BY <2>1, <2>2 DEF QueueParts
<1>2. MutexInv /\ MutexInv' /\ Orderly /\ [Next]_vars => Orderly'
  BY OrderlyNext
<1>3. Spec => []Orderly
  BY <1>2, OrderlyInit, Inductive, PTL DEF Spec
<1>4. MutexInv /\ Orderly => Parts
  BY QueueMeans DEF MutexInv
<1>5. ASSUME Parts, Parts', [Next]_vars
      PROVE  [Calm => Fair!Next]_queue
  <2>1. CASE Calm /\ Calm'
    <3>1. Turn
      BY <1>5, <2>1, OrderlyNext
    <3>2. TypeOK /\ TypeOK' /\ Lined /\ Lined'
      BY <1>5, <2>1 DEF MutexInv, Orderly
    <3> QED
      BY <1>5, <2>1, <3>1, <3>2, QueueTurn
  <2>2. CASE Calm /\ ~Calm'
    BY <1>5, <2>2, OrderlyNext
  <2> QED
    BY <2>1, <2>2
<1> HIDE DEF Parts
<1>6. Spec => []Parts
  BY <1>3, <1>4, Inductive, PTL
<1> QED
  BY <1>1, <1>5, <1>6, PTL DEF Spec, FirstComeFirstServed
=============================================================================
