---------------------------- MODULE JourneyProofs ----------------------------
(***************************************************************************)
(* Lemmas about the operations on a journey, for the proofs about those    *)
(* that use them.                                                          *)
(***************************************************************************)
EXTENDS JourneyProperties, TLAPS

(* A step in which nobody is suspended or resumed.                         *)
NobodySleepsOrWakes ==
  \A k \in Journeys : phase'[k] = "suspended" <=> phase[k] = "suspended"

-----------------------------------------------------------------------------
(* Setting Entered and proceeding a journey that was not Entered keeps     *)
(* types, and that a journey is resumed once.                              *)
LEMMA EnterKeeps ==
  ASSUME JourneyTypeOK, NEW j \in Journeys, NEW f \in Flags, Enter(j, f)
  PROVE  /\ flags' \in [Journeys -> Flags]
         /\ ready' \in [Journeys -> Nat]
         /\ ResumedOnce /\ NobodySleepsOrWakes => ResumedOnce'
<1>1. [f EXCEPT !.entered = TRUE] \in Flags
  BY DEF Flags
<1>2. flags' \in [Journeys -> Flags] /\ ready' \in [Journeys -> Nat]
  BY <1>1 DEF JourneyTypeOK, Enter
<1>3. ASSUME ResumedOnce, NobodySleepsOrWakes
      PROVE  ResumedOnce'
  <2> SUFFICES ASSUME NEW k \in Journeys
               PROVE  /\ ready'[k] = IF phase'[k] = "suspended" /\ flags'[k].entered THEN 1 ELSE 0
                      /\ phase'[k] # "suspended" => flags'[k].entered
    BY DEF ResumedOnce
  <2>1. CASE k = j
    <3>1. flags'[j].entered
      BY <1>1 DEF Enter, JourneyTypeOK, Flags
    <3>2. ready'[j] = IF flags[j].entered THEN ready[j] ELSE ready[j] + 1
      BY DEF Enter, JourneyTypeOK
    <3> QED
      BY <2>1, <3>1, <3>2, <1>3 DEF ResumedOnce, JourneyTypeOK, NobodySleepsOrWakes
  <2>2. CASE k # j
    BY <2>2, <1>3 DEF ResumedOnce, JourneyTypeOK, Enter, NobodySleepsOrWakes
  <2> QED
    BY <2>1, <2>2
<1> QED
  BY <1>2, <1>3

(* Changing the flags of a journey otherwise does so, too.                 *)
LEMMA FlagsKeep ==
  ASSUME JourneyTypeOK, NEW j \in Journeys, NEW f \in Flags,
         f.entered = flags[j].entered, flags' = [flags EXCEPT ![j] = f],
         UNCHANGED ready
  PROVE  /\ flags' \in [Journeys -> Flags]
         /\ ready' \in [Journeys -> Nat]
         /\ ResumedOnce /\ NobodySleepsOrWakes => ResumedOnce'
<1>1. \A k \in Journeys : flags'[k].entered = flags[k].entered
  BY DEF JourneyTypeOK
<1> QED
  BY <1>1 DEF JourneyTypeOK, ResumedOnce, NobodySleepsOrWakes

(* Every operation on a journey but the suspension and the resumption.     *)
AnyOp(j) ==
  \/ WaitForDone(j) \/ Reschedule(j) \/ Ends(j)
  \/ Load(j) \/ Returns(j) \/ ThrowsEvent(j) \/ ThrowsError(j)
  \/ \E event \in {"cancelled", "timedout"} : Raise(j, event)
  \/ Guard(j) \/ Unguard(j)
  \/ ResetEntered(j) \/ Proceed0(j)

(* Each keeps types, and that a journey is resumed once per suspension.    *)
LEMMA OpKeeps ==
  ASSUME JourneyTypeOK, ResumedOnce, NEW j \in Journeys, AnyOp(j)
  PROVE  JourneyTypeOK' /\ ResumedOnce'
<1>1. flags[j] \in Flags /\ seen[j] \in Flags /\ phase[j] \in Phase
  BY DEF JourneyTypeOK
<1>2. NewFlags \in Flags
  BY DEF NewFlags, Flags
<1>3. CASE WaitForDone(j)
  BY <1>1, <1>3 DEF WaitForDone, Moves, JourneyTypeOK, ResumedOnce, Phase
<1>4. CASE Ends(j)
  BY <1>1, <1>4 DEF Ends, Moves, JourneyTypeOK, ResumedOnce, Phase
<1>5. CASE Load(j)
  BY <1>1, <1>5 DEF Load, Moves, JourneyTypeOK, ResumedOnce, Phase
<1>6. CASE Reschedule(j)
  <2>1. [flags[j] EXCEPT !.done = TRUE] \in Flags
    BY <1>1 DEF Flags
  <2>2. NobodySleepsOrWakes /\ phase' \in [Journeys -> Phase]
    BY <1>1, <1>6 DEF Reschedule, Moves, JourneyTypeOK, NobodySleepsOrWakes, Phase
  <2> QED
    BY <1>6, <2>1, <2>2, EnterKeeps DEF Reschedule, Done, JourneyTypeOK
<1>7. CASE \E event \in {"cancelled", "timedout"} : Raise(j, event)
  <2>1. PICK event \in {"cancelled", "timedout"} : Raise(j, event)
    BY <1>7
  <2> DEFINE f == [flags[j] EXCEPT !.raised = @ \cup {event}]
  <2>2. f \in Flags /\ [f EXCEPT !.counter = @ + 1] \in Flags
    <3>1. f \in Flags
      BY <1>1 DEF Flags
    <3> HIDE DEF f
    <3>2. [f EXCEPT !.counter = @ + 1] \in Flags
      BY <3>1 DEF Flags
    <3> QED
      BY <3>1, <3>2
  <2>3. f.entered = flags[j].entered
    BY <1>1 DEF Flags
  <2>4. NobodySleepsOrWakes /\ events' \in Nat /\ UNCHANGED <<phase, seen, kept>>
    BY <2>1 DEF Raise, NobodySleepsOrWakes, JourneyTypeOK
  <2>5. CASE Enter(j, [f EXCEPT !.counter = @ + 1])
    BY <2>2, <2>4, <2>5, EnterKeeps DEF JourneyTypeOK
  <2>6. CASE flags' = [flags EXCEPT ![j] = f] /\ UNCHANGED ready
    BY <2>2, <2>3, <2>4, <2>6, FlagsKeep DEF JourneyTypeOK
  <2> QED
    BY <2>1, <2>5, <2>6 DEF Raise
<1>8. CASE Guard(j)
  <2> DEFINE f == [flags[j] EXCEPT !.enabled = FALSE]
  <2>1. f \in Flags /\ f.entered = flags[j].entered
    BY <1>1 DEF Flags
  <2>2. flags' = [flags EXCEPT ![j] = f] /\ UNCHANGED <<phase, seen, ready, events>>
    BY <1>8 DEF Guard
  <2>3. kept' \in [Journeys -> {"nothing", "enabled", "disabled"}]
    BY <1>8 DEF Guard, JourneyTypeOK
  <2> QED
    BY <2>1, <2>2, <2>3, FlagsKeep DEF JourneyTypeOK, NobodySleepsOrWakes
<1>9. CASE Unguard(j)
  <2> DEFINE f == [flags[j] EXCEPT !.enabled = @ \/ kept[j] = "enabled"]
  <2>1. f \in Flags /\ f.entered = flags[j].entered
    BY <1>1 DEF Flags
  <2>2. flags' = [flags EXCEPT ![j] = f] /\ UNCHANGED <<phase, seen, ready, events>>
    BY <1>9 DEF Unguard
  <2>3. kept' \in [Journeys -> {"nothing", "enabled", "disabled"}]
    BY <1>9 DEF Unguard, JourneyTypeOK
  <2> QED
    BY <2>1, <2>2, <2>3, FlagsKeep DEF JourneyTypeOK, NobodySleepsOrWakes
<1>10. CASE Returns(j) \/ ThrowsEvent(j) \/ ThrowsError(j)
  <2>1. /\ phase' \in [Journeys -> Phase]
        /\ seen' \in [Journeys -> Flags]
        /\ NobodySleepsOrWakes
        /\ UNCHANGED <<ready, kept, events>>
    BY <1>1, <1>2, <1>10
    DEF Returns, ThrowsEvent, ThrowsError, Handled, Moves, JourneyTypeOK, NobodySleepsOrWakes, Phase
  <2>2. PICK f \in Flags : f.entered = flags[j].entered /\ flags' = [flags EXCEPT ![j] = f]
    <3>1. CASE Returns(j)
      <4>1. [flags[j] EXCEPT !.done = FALSE] \in Flags
        BY <1>1 DEF Flags
      <4> QED
        BY <1>1, <3>1, <4>1 DEF Returns, Flags
    <3>2. CASE ThrowsEvent(j)
      <4> DEFINE left == IF "cancelled" \in seen[j].raised
                           THEN {} ELSE flags[j].raised \ {"timedout"}
                 f == [flags[j] EXCEPT !.done = FALSE, !.raised = left]
      <4>1. left \in SUBSET {"cancelled", "timedout"}
        BY <1>1 DEF Flags
      <4>2. f \in Flags /\ f.entered = flags[j].entered
        BY <1>1, <4>1 DEF Flags
      <4>3. flags' = [flags EXCEPT ![j] = f]
        BY <1>1, <3>2 DEF ThrowsEvent, JourneyTypeOK, Flags
      <4> QED
        BY <4>2, <4>3
    <3>3. CASE ThrowsError(j)
      BY <1>1, <3>3 DEF ThrowsError, JourneyTypeOK
    <3> QED
      BY <1>10, <3>1, <3>2, <3>3
  <2> QED
    BY <2>1, <2>2, FlagsKeep DEF JourneyTypeOK
<1>11. CASE ResetEntered(j)
  <2>1. [flags[j] EXCEPT !.entered = FALSE] \in Flags
    BY <1>1 DEF Flags
  <2>2. phase' \in [Journeys -> Phase] /\ UNCHANGED <<seen, kept, events>>
    BY <1>11 DEF ResetEntered, Moves, JourneyTypeOK, Phase
  <2>3. CASE MayProceed(flags[j])
    BY <1>11, <2>2, <2>3 DEF ResetEntered, Moves, JourneyTypeOK, ResumedOnce
  <2>4. CASE ~MayProceed(flags[j])
    <3>1. flags' = [flags EXCEPT ![j] = [flags[j] EXCEPT !.entered = FALSE]] /\ UNCHANGED ready
      BY <1>11, <2>4 DEF ResetEntered
    <3>2. ~[flags[j] EXCEPT !.entered = FALSE].entered
      BY <1>1 DEF Flags
    <3> QED
      BY <1>11, <2>1, <2>2, <3>1, <3>2 DEF ResetEntered, Moves, JourneyTypeOK, ResumedOnce
  <2> QED
    BY <2>3, <2>4
<1>12. CASE Proceed0(j)
  BY <1>1, <1>12 DEF Proceed0, JourneyTypeOK, ResumedOnce, Phase
<1> QED
  BY <1>3, <1>4, <1>5, <1>6, <1>7, <1>8, <1>9, <1>10, <1>11, <1>12 DEF AnyOp

(* What each does to the Done flags: it leaves those of other journeys     *)
(* alone, a reschedule sets it, what ends a wait resets it.                *)
LEMMA OpDone ==
  ASSUME JourneyTypeOK, NEW j \in Journeys, AnyOp(j)
  PROVE  /\ \A k \in Journeys : k # j => flags'[k] = flags[k]
         /\ Reschedule(j) => flags'[j].done
         /\ Returns(j) \/ ThrowsEvent(j) => ~flags'[j].done
         /\ ~(Reschedule(j) \/ Returns(j) \/ ThrowsEvent(j))
              => flags'[j].done = flags[j].done
<1>1. flags[j] \in Flags
  BY DEF JourneyTypeOK
<1>2. CASE Reschedule(j)
  <2>1. flags'[j].done
    BY <1>1, <1>2 DEF Reschedule, Done, Enter, JourneyTypeOK, Flags
  <2>2. phase[j] = "running" /\ phase'[j] = "yielded"
    BY <1>2 DEF Reschedule, Moves, JourneyTypeOK
  <2>3. ~Returns(j) /\ ~ThrowsEvent(j)
    BY <2>2 DEF Returns, ThrowsEvent, Handled, Moves
  <2> QED
    BY <1>2, <2>1, <2>3 DEF Reschedule, Done, Enter, JourneyTypeOK
<1>3. CASE Returns(j) \/ ThrowsEvent(j)
  <2>1. ~flags'[j].done
    BY <1>1, <1>3 DEF Returns, ThrowsEvent, JourneyTypeOK, Flags
  <2>2. phase[j] = "handling"
    BY <1>3 DEF Returns, ThrowsEvent, Handled, Moves
  <2>3. ~Reschedule(j)
    BY <2>2 DEF Reschedule, Moves
  <2> QED
    BY <1>3, <2>1, <2>3 DEF Returns, ThrowsEvent, JourneyTypeOK
<1>4. CASE \E event \in {"cancelled", "timedout"} : Raise(j, event)
  <2>1. PICK event \in {"cancelled", "timedout"} : Raise(j, event)
    BY <1>4
  <2>2. UNCHANGED phase
    BY <2>1 DEF Raise
  <2>3. ~Reschedule(j) /\ ~Returns(j) /\ ~ThrowsEvent(j)
    BY <2>2 DEF Reschedule, Returns, ThrowsEvent, Handled, Moves, JourneyTypeOK
  <2> DEFINE f == [flags[j] EXCEPT !.raised = @ \cup {event}]
  <2>4. PICK g : g.done = flags[j].done /\ flags' = [flags EXCEPT ![j] = g]
    <3>1. f.done = flags[j].done
      BY <1>1 DEF Flags
    <3>2. f \in Flags
      BY <1>1 DEF Flags
    <3>3. CASE Enter(j, [f EXCEPT !.counter = @ + 1])
      <4> HIDE DEF f
      <4> QED
        BY <3>1, <3>2, <3>3 DEF Enter, Flags
    <3>4. CASE flags' = [flags EXCEPT ![j] = f]
      BY <3>1, <3>4
    <3> QED
      BY <2>1, <3>3, <3>4 DEF Raise
  <2> QED
    BY <2>3, <2>4 DEF JourneyTypeOK
<1>5. CASE Guard(j) \/ Unguard(j) \/ ResetEntered(j)
  <2>1. phase[j] # "handling" /\ ~(phase[j] = "running" /\ phase'[j] = "yielded")
    BY <1>5 DEF Guard, Unguard, ResetEntered, Moves, JourneyTypeOK
  <2>2. ~Reschedule(j) /\ ~Returns(j) /\ ~ThrowsEvent(j)
    BY <2>1 DEF Reschedule, Returns, ThrowsEvent, Handled, Moves, JourneyTypeOK
  <2> QED
    BY <1>1, <1>5, <2>2 DEF Guard, Unguard, ResetEntered, JourneyTypeOK, Flags
<1>6. CASE WaitForDone(j) \/ Ends(j) \/ Load(j) \/ ThrowsError(j) \/ Proceed0(j)
  <2>1. UNCHANGED flags
    BY <1>6 DEF WaitForDone, Ends, Load, ThrowsError, Proceed0
  <2> QED
    BY <1>2, <1>3, <2>1
<1> QED
  BY <1>2, <1>3, <1>4, <1>5, <1>6 DEF AnyOp

(* A doer is made with the flags of its journey.                           *)
LEMMA DoerTyped ==
  ASSUME JourneyTypeOK, NEW j \in Journeys
  PROVE  Doer(j) \in DoerType
<1>1. flags[j] \in Flags
  BY DEF JourneyTypeOK
<1> QED
  BY <1>1 DEF Doer, DoerType, Flags

(* What an acquired doer does to the flags.                                *)
LEMMA DisabledTyped ==
  ASSUME JourneyTypeOK, NEW d \in DoerType
  PROVE  /\ Disabled(d) \in Flags
         /\ Disabled(d).entered = flags[d.who].entered
         /\ Disabled(d).done = flags[d.who].done
<1>1. flags[d.who] \in Flags /\ d.enabled \in BOOLEAN /\ d.who \in Journeys
  BY DEF JourneyTypeOK, DoerType
<1> QED
  BY <1>1 DEF Disabled, Flags

(* What telling its journey does.                                          *)
LEMMA ReleasedTyped ==
  ASSUME JourneyTypeOK, NEW d \in DoerType
  PROVE  LET f == [flags[d.who] EXCEPT !.done = TRUE, !.enabled = @ \/ d.enabled]
         IN  f \in Flags /\ f.done
<1>1. flags[d.who] \in Flags /\ d.enabled \in BOOLEAN /\ d.who \in Journeys
  BY DEF JourneyTypeOK, DoerType
<1> QED
  BY <1>1 DEF Flags

(* An operation on a journey leaves the others alone, and counters grow.   *)
LEMMA OpLocal ==
  ASSUME JourneyTypeOK, NEW j \in Journeys, AnyOp(j)
  PROVE  /\ \A k \in Journeys :
              k # j => flags'[k] = flags[k] /\ phase'[k] = phase[k] /\ seen'[k] = seen[k]
         /\ flags'[j].counter \in Nat
         /\ flags'[j].counter >= flags[j].counter
         /\ Calm' <=> Calm
<1>1. flags[j] \in Flags /\ flags[j].counter \in Nat
  BY DEF JourneyTypeOK, Flags
<1>2. CASE \E event \in {"cancelled", "timedout"} : Raise(j, event)
  <2>1. PICK event \in {"cancelled", "timedout"} : Raise(j, event)
    BY <1>2
  <2> DEFINE f == [flags[j] EXCEPT !.raised = @ \cup {event}]
  <2>2. f \in Flags /\ f.counter = flags[j].counter
    BY <1>1 DEF Flags
  <2>3. PICK g : /\ flags' = [flags EXCEPT ![j] = g]
                 /\ g.counter = flags[j].counter \/ g.counter = flags[j].counter + 1
    <3>1. CASE Enter(j, [f EXCEPT !.counter = @ + 1])
      <4> DEFINE h == [f EXCEPT !.counter = @ + 1]
                 g == [h EXCEPT !.entered = TRUE]
      <4> HIDE DEF f
      <4>1. h \in Flags /\ h.counter = flags[j].counter + 1
        BY <1>1, <2>2 DEF Flags
      <4>2. flags' = [flags EXCEPT ![j] = g]
        BY <3>1 DEF Enter
      <4>3. g.counter = flags[j].counter + 1
        <5> HIDE DEF h
        <5> QED
          BY <4>1 DEF Flags
      <4> QED
        BY <4>2, <4>3
    <3>2. CASE flags' = [flags EXCEPT ![j] = f]
      BY <2>2, <3>2
    <3> QED
      BY <2>1, <3>1, <3>2 DEF Raise
  <2>4. UNCHANGED <<phase, seen>> /\ events < MaxEvents /\ events' = events + 1
    BY <2>1 DEF Raise
  <2>5. ~Calm /\ ~Calm'
    BY <2>4, JourneyAssumption DEF Calm, JourneyTypeOK
  <2> QED
    BY <1>1, <2>3, <2>4, <2>5 DEF JourneyTypeOK
<1>3. CASE WaitForDone(j) \/ Reschedule(j) \/ Ends(j) \/ Load(j) \/ ResetEntered(j) \/ Proceed0(j)
  <2>1. \A k \in Journeys : k # j => phase'[k] = phase[k] /\ seen'[k] = seen[k]
    BY <1>3 DEF WaitForDone, Reschedule, Ends, Load, ResetEntered, Proceed0, Moves, JourneyTypeOK
  <2>2. PICK g : /\ flags' = [flags EXCEPT ![j] = g]
                 /\ g.counter = flags[j].counter
    <3>1. CASE Reschedule(j)
      BY <1>1, <3>1 DEF Reschedule, Done, Enter, Flags
    <3>2. CASE ResetEntered(j)
      <4>1. flags' = flags \/ flags' = [flags EXCEPT ![j] = [flags[j] EXCEPT !.entered = FALSE]]
        BY <3>2 DEF ResetEntered
      <4>2. flags = [flags EXCEPT ![j] = flags[j]]
        BY DEF JourneyTypeOK
      <4> QED
        BY <1>1, <4>1, <4>2 DEF Flags
    <3>3. CASE UNCHANGED flags
      BY <3>3 DEF JourneyTypeOK
    <3> QED
      BY <1>3, <3>1, <3>2, <3>3 DEF WaitForDone, Ends, Load, Proceed0
  <2>3. Calm' <=> Calm
    BY <1>3 DEF WaitForDone, Reschedule, Ends, Load, ResetEntered, Proceed0, Calm
  <2> QED
    BY <1>1, <2>1, <2>2, <2>3 DEF JourneyTypeOK
<1>4. CASE Returns(j) \/ ThrowsEvent(j) \/ ThrowsError(j) \/ Guard(j) \/ Unguard(j)
  <2>1. \A k \in Journeys : k # j => phase'[k] = phase[k] /\ seen'[k] = seen[k]
    BY <1>4 DEF Returns, ThrowsEvent, ThrowsError, Handled, Guard, Unguard, Moves, JourneyTypeOK
  <2>2. PICK g : /\ flags' = [flags EXCEPT ![j] = g]
                 /\ g.counter = flags[j].counter
    <3>1. CASE Returns(j) \/ Guard(j) \/ Unguard(j)
      BY <1>1, <3>1 DEF Returns, Guard, Unguard, Flags
    <3>2. CASE ThrowsEvent(j)
      <4> DEFINE left == IF "cancelled" \in seen[j].raised
                           THEN {} ELSE flags[j].raised \ {"timedout"}
                 f == [flags[j] EXCEPT !.done = FALSE, !.raised = left]
      <4>1. f.counter = flags[j].counter
        BY <1>1 DEF Flags
      <4>2. flags' = [flags EXCEPT ![j] = f]
        BY <1>1, <3>2 DEF ThrowsEvent, JourneyTypeOK, Flags
      <4> QED
        BY <4>1, <4>2
    <3>3. CASE ThrowsError(j)
      BY <3>3 DEF ThrowsError, JourneyTypeOK
    <3> QED
      BY <1>4, <3>1, <3>2, <3>3
  <2>3. Calm' <=> Calm
    BY <1>4 DEF Returns, ThrowsEvent, ThrowsError, Guard, Unguard, Calm
  <2> QED
    BY <1>1, <2>1, <2>2, <2>3 DEF JourneyTypeOK
<1> QED
  BY <1>2, <1>3, <1>4 DEF AnyOp

(* What an event does to the flags.                                        *)
LEMMA RaiseParts ==
  ASSUME JourneyTypeOK, NEW j \in Journeys, NEW event \in {"cancelled", "timedout"},
         Raise(j, event)
  PROVE  /\ flags'[j].done = flags[j].done /\ flags'[j].enabled = flags[j].enabled
         /\ flags'[j].raised = flags[j].raised \cup {event}
         /\ IF flags[j].enabled
              THEN flags'[j].counter = flags[j].counter + 1
              ELSE flags'[j].counter = flags[j].counter /\ flags'[j].entered = flags[j].entered
         /\ \A k \in Journeys : k # j => flags'[k] = flags[k]
         /\ UNCHANGED <<phase, seen, kept>>
<1>1. flags[j] \in Flags /\ flags[j].counter \in Nat
  BY DEF JourneyTypeOK, Flags
<1> DEFINE f == [flags[j] EXCEPT !.raised = @ \cup {event}]
           h == [f EXCEPT !.counter = @ + 1]
<1>2. /\ f \in Flags /\ f.counter = flags[j].counter /\ f.done = flags[j].done
      /\ f.enabled = flags[j].enabled /\ f.entered = flags[j].entered
      /\ f.raised = flags[j].raised \cup {event}
  BY <1>1 DEF Flags
<1>3. UNCHANGED <<phase, seen, kept>>
  BY DEF Raise
<1>4. CASE flags[j].enabled
  <2> HIDE DEF f
  <2>1. /\ h \in Flags /\ h.counter = flags[j].counter + 1 /\ h.done = flags[j].done
        /\ h.enabled = flags[j].enabled /\ h.raised = flags[j].raised \cup {event}
    BY <1>1, <1>2 DEF Flags
  <2>2. flags' = [flags EXCEPT ![j] = [h EXCEPT !.entered = TRUE]]
    BY <1>4 DEF Raise, Enter, f
  <2> HIDE DEF h
  <2>3. flags'[j] = [h EXCEPT !.entered = TRUE] /\ \A k \in Journeys : k # j => flags'[k] = flags[k]
    BY <2>2 DEF JourneyTypeOK
  <2> QED
    BY <1>3, <1>4, <2>1, <2>3 DEF Flags
<1>5. CASE ~flags[j].enabled
  <2>1. flags' = [flags EXCEPT ![j] = f]
    BY <1>5 DEF Raise
  <2> HIDE DEF f
  <2>2. flags'[j] = f /\ \A k \in Journeys : k # j => flags'[k] = flags[k]
    BY <2>1 DEF JourneyTypeOK
  <2> QED
    BY <1>2, <1>3, <1>5, <2>2
<1> QED
  BY <1>4, <1>5

(* Events stay until they are thrown, and who counts one has it.           *)
LEMMA OpRaised ==
  ASSUME JourneyTypeOK, NEW j \in Journeys, AnyOp(j), ~ThrowsEvent(j)
  PROVE  /\ flags[j].raised \subseteq flags'[j].raised
         /\ flags'[j].counter = flags[j].counter \/ flags'[j].raised # {}
<1>1. flags[j] \in Flags
  BY DEF JourneyTypeOK
<1>2. CASE \E event \in {"cancelled", "timedout"} : Raise(j, event)
  <2>1. PICK event \in {"cancelled", "timedout"} : Raise(j, event)
    BY <1>2
  <2>2. flags'[j].raised = flags[j].raised \cup {event}
    BY <2>1, RaiseParts
  <2> QED
    BY <2>2
<1>3. CASE UNCHANGED flags
  BY <1>3
<1>4. CASE Reschedule(j)
  <2>1. flags'[j].raised = flags[j].raised /\ flags'[j].counter = flags[j].counter
    BY <1>1, <1>4 DEF Reschedule, Done, Enter, JourneyTypeOK, Flags
  <2> QED
    BY <2>1
<1>5. CASE Returns(j) \/ Guard(j) \/ Unguard(j) \/ ResetEntered(j)
  <2>1. flags'[j].raised = flags[j].raised /\ flags'[j].counter = flags[j].counter
    BY <1>1, <1>5 DEF Returns, Guard, Unguard, ResetEntered, JourneyTypeOK, Flags
  <2> QED
    BY <2>1
<1> QED
  BY <1>2, <1>3, <1>4, <1>5 DEF AnyOp, WaitForDone, Ends, Load, ThrowsError, Proceed0
=============================================================================
