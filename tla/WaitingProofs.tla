---------------------------- MODULE WaitingProofs ----------------------------
(***************************************************************************)
(* Proofs about journeys that wait for others, for any number of children  *)
(* and events and every kind of wait.                                      *)
(***************************************************************************)
EXTENDS WaitingProperties, JourneyProofs, FiniteSetTheorems

(* What a step makes of the flags of the parent, but for Entered.          *)
Becomes(done, enabled, raised, counter) ==
  /\ flags'[Parent].done = done
  /\ flags'[Parent].enabled = enabled
  /\ flags'[Parent].raised = raised
  /\ flags'[Parent].counter = counter

LEMMA Alone == Parent \in Journeys /\ \A j \in Journeys : j = Parent
BY WaitingAssumption

LEMMA TellEffect ==
  ASSUME JourneyTypeOK, Tell
  PROVE  /\ Becomes(TRUE, flags[Parent].enabled, flags[Parent].raised, flags[Parent].counter)
         /\ flags'[Parent].entered
         /\ UNCHANGED <<phase, seen>>
<1>1. flags[Parent] \in Flags
  BY Alone DEF JourneyTypeOK
<1> DEFINE f == [flags[Parent] EXCEPT !.done = TRUE]
           g == [f EXCEPT !.entered = TRUE]
<1>2. /\ f \in Flags /\ f.done /\ f.enabled = flags[Parent].enabled
      /\ f.raised = flags[Parent].raised /\ f.counter = flags[Parent].counter
  BY <1>1 DEF Flags
<1>3. flags' = [flags EXCEPT ![Parent] = g]
  BY DEF Tell, Done, Enter
<1> HIDE DEF f
<1>4. /\ g.entered /\ g.done = f.done /\ g.enabled = f.enabled
      /\ g.raised = f.raised /\ g.counter = f.counter
  BY <1>2 DEF Flags
<1> HIDE DEF g
<1>5. flags'[Parent] = g
  BY <1>3, Alone DEF JourneyTypeOK
<1> QED
  BY <1>2, <1>4, <1>5 DEF Becomes, Tell

LEMMA AcquireEffect ==
  ASSUME JourneyTypeOK, made.doer.who = Parent, made.doer.enabled, AcquireDoer
  PROVE  /\ flags[Parent].counter = made.doer.counter =>
              Becomes(flags[Parent].done, FALSE, flags[Parent].raised, flags[Parent].counter)
         /\ flags[Parent].counter # made.doer.counter => UNCHANGED flags
         /\ flags'[Parent].entered = flags[Parent].entered
         /\ UNCHANGED <<phase, seen>>
<1>1. flags[Parent] \in Flags
  BY Alone DEF JourneyTypeOK
<1>2. Acquirable(made.doer) <=> flags[Parent].counter = made.doer.counter
  BY DEF Acquirable
<1> DEFINE g == Disabled(made.doer)
<1>3. /\ g.entered = flags[Parent].entered /\ g.done = flags[Parent].done /\ g.enabled = FALSE
      /\ g.raised = flags[Parent].raised /\ g.counter = flags[Parent].counter
  BY <1>1 DEF Disabled, Flags
<1> HIDE DEF g
<1>4. Acquirable(made.doer) => flags'[Parent] = g
  BY Alone DEF AcquireDoer, JourneyTypeOK, g
<1>5. ~Acquirable(made.doer) => UNCHANGED flags
  BY DEF AcquireDoer
<1> QED
  BY <1>2, <1>3, <1>4, <1>5 DEF Becomes, AcquireDoer

LEMMA ReleaseEffect ==
  ASSUME JourneyTypeOK, made.doer.who = Parent, made.doer.enabled, ReleaseDoer
  PROVE  /\ Becomes(TRUE, TRUE, flags[Parent].raised, flags[Parent].counter)
         /\ flags'[Parent].entered
         /\ UNCHANGED <<phase, seen>>
<1>1. flags[Parent] \in Flags
  BY Alone DEF JourneyTypeOK
<1> DEFINE d == made.doer
           f == [flags[d.who] EXCEPT !.done = TRUE, !.enabled = @ \/ d.enabled]
           g == [f EXCEPT !.entered = TRUE]
<1>2. /\ f \in Flags /\ f.done = TRUE /\ f.enabled = TRUE
      /\ f.raised = flags[Parent].raised /\ f.counter = flags[Parent].counter
  BY <1>1 DEF Flags
<1>3. flags' = [flags EXCEPT ![Parent] = g]
  BY DEF ReleaseDoer, ReleaseAndDone, Enter
<1> HIDE DEF f
<1>4. /\ g.entered /\ g.done = f.done /\ g.enabled = f.enabled
      /\ g.raised = f.raised /\ g.counter = f.counter
  BY <1>2 DEF Flags
<1> HIDE DEF g
<1>5. flags'[Parent] = g
  BY <1>3, Alone DEF JourneyTypeOK
<1> QED
  BY <1>2, <1>4, <1>5 DEF Becomes, ReleaseDoer

(* DtorEventsGuard and what detaches the doers.                            *)
LEMMA GuardEffect ==
  ASSUME JourneyTypeOK
  PROVE  /\ EventsOff => Becomes(flags[Parent].done, FALSE, flags[Parent].raised, flags[Parent].counter)
         /\ EventsOn => /\ flags'[Parent].done = flags[Parent].done
                        /\ flags'[Parent].raised = flags[Parent].raised
                        /\ flags'[Parent].counter = flags[Parent].counter
                        /\ flags[Parent].enabled => flags'[Parent].enabled
         /\ EventsOff \/ EventsOn =>
              /\ flags'[Parent].entered = flags[Parent].entered
              /\ \E f \in Flags : f.entered = flags[Parent].entered
                                  /\ flags' = [flags EXCEPT ![Parent] = f]
              /\ kept' \in [Journeys -> {"nothing", "enabled", "disabled"}]
<1>1. flags[Parent] \in Flags
  BY Alone DEF JourneyTypeOK
<1>2. PICK e \in BOOLEAN : e = (flags[Parent].enabled \/ kept[Parent] = "enabled")
  OBVIOUS
<1> DEFINE g == [flags[Parent] EXCEPT !.enabled = e]
           f == [flags[Parent] EXCEPT !.enabled = FALSE]
<1>3. EventsOn => flags' = [flags EXCEPT ![Parent] = g]
  BY <1>2, Alone DEF EventsOn, JourneyTypeOK
<1>4. EventsOff => flags' = [flags EXCEPT ![Parent] = f]
  BY Alone DEF EventsOff, JourneyTypeOK
<1>5. /\ f \in Flags /\ f.entered = flags[Parent].entered /\ f.done = flags[Parent].done
      /\ f.enabled = FALSE /\ f.raised = flags[Parent].raised /\ f.counter = flags[Parent].counter
  BY <1>1 DEF Flags
<1>6. /\ g \in Flags /\ g.entered = flags[Parent].entered /\ g.done = flags[Parent].done
      /\ g.enabled = e /\ g.raised = flags[Parent].raised /\ g.counter = flags[Parent].counter
  BY <1>1, <1>2 DEF Flags
<1> HIDE DEF f, g
<1>7. /\ EventsOn => flags'[Parent] = g
      /\ EventsOff => flags'[Parent] = f
  BY <1>3, <1>4, Alone DEF JourneyTypeOK
<1>8. EventsOff \/ EventsOn => kept' \in [Journeys -> {"nothing", "enabled", "disabled"}]
  BY Alone DEF EventsOff, EventsOn, JourneyTypeOK
<1>9. EventsOff => Becomes(flags[Parent].done, FALSE, flags[Parent].raised, flags[Parent].counter)
  BY <1>5, <1>7 DEF Becomes
<1>10. EventsOff \/ EventsOn =>
         \E h \in Flags : h.entered = flags[Parent].entered /\ flags' = [flags EXCEPT ![Parent] = h]
  BY <1>3, <1>4, <1>5, <1>6
<1>11. EventsOn => (flags[Parent].enabled => flags'[Parent].enabled)
  <2>1. flags[Parent].enabled => e
    BY <1>2
  <2> QED
    BY <1>6, <1>7, <2>1
<1> QED
  BY <1>5, <1>6, <1>7, <1>8, <1>9, <1>10, <1>11

LEMMA DetachEffect ==
  ASSUME JourneyTypeOK
  PROVE  /\ DetachDoers => Becomes(flags[Parent].done, flags[Parent].enabled,
                                   flags[Parent].raised, flags[Parent].counter + 1)
         /\ ResetDone => Becomes(FALSE, flags[Parent].enabled,
                                 flags[Parent].raised, flags[Parent].counter)
         /\ DetachDoers \/ ResetDone =>
              /\ flags'[Parent].entered = flags[Parent].entered
              /\ \E f \in Flags : f.entered = flags[Parent].entered
                                  /\ flags' = [flags EXCEPT ![Parent] = f]
<1>1. flags[Parent] \in Flags
  BY Alone DEF JourneyTypeOK
<1> DEFINE g == [flags[Parent] EXCEPT !.counter = @ + 1]
           f == [flags[Parent] EXCEPT !.done = FALSE]
<1>2. flags[Parent].counter \in Nat
  BY <1>1 DEF Flags
<1>3. /\ f \in Flags /\ f.entered = flags[Parent].entered /\ f.done = FALSE
      /\ f.enabled = flags[Parent].enabled /\ f.raised = flags[Parent].raised
      /\ f.counter = flags[Parent].counter
  BY <1>1 DEF Flags
<1>4. /\ g \in Flags /\ g.entered = flags[Parent].entered /\ g.done = flags[Parent].done
      /\ g.enabled = flags[Parent].enabled /\ g.raised = flags[Parent].raised
      /\ g.counter = flags[Parent].counter + 1
  BY <1>1, <1>2 DEF Flags
<1>5. DetachDoers => flags' = [flags EXCEPT ![Parent] = g]
  BY Alone DEF DetachDoers, Detach, JourneyTypeOK
<1>6. ResetDone => flags' = [flags EXCEPT ![Parent] = f]
  BY Alone DEF ResetDone, JourneyTypeOK
<1> HIDE DEF f, g
<1>7. /\ DetachDoers => flags'[Parent] = g
      /\ ResetDone => flags'[Parent] = f
  BY <1>5, <1>6, Alone DEF JourneyTypeOK
<1> QED
  BY <1>3, <1>4, <1>5, <1>6, <1>7 DEF Becomes

(* What ends a wait.                                                       *)
LEMMA EndEffect ==
  ASSUME JourneyTypeOK
  PROVE  /\ Returns(Parent) => Becomes(FALSE, flags[Parent].enabled,
                                       flags[Parent].raised, flags[Parent].counter)
         /\ ThrowsEvent(Parent) =>
              /\ ~flags'[Parent].done /\ flags'[Parent].enabled = flags[Parent].enabled
              /\ flags'[Parent].raised \subseteq flags[Parent].raised
              /\ flags'[Parent].counter = flags[Parent].counter
         /\ Returns(Parent) \/ ThrowsEvent(Parent) \/ ThrowsError(Parent) =>
              /\ flags'[Parent].entered = flags[Parent].entered
              /\ phase[Parent] = "handling" /\ phase'[Parent] = "running"
<1>1. flags[Parent] \in Flags
  BY Alone DEF JourneyTypeOK
<1> DEFINE left0 == IF "cancelled" \in seen[Parent].raised
                      THEN {} ELSE flags[Parent].raised \ {"timedout"}
           f == [flags[Parent] EXCEPT !.done = FALSE]
           g == [flags[Parent] EXCEPT !.done = FALSE, !.raised = left0]
<1>2. left0 \subseteq flags[Parent].raised
  OBVIOUS
<1>3. /\ f.entered = flags[Parent].entered /\ f.done = FALSE
      /\ f.enabled = flags[Parent].enabled /\ f.raised = flags[Parent].raised
      /\ f.counter = flags[Parent].counter
  BY <1>1 DEF Flags
<1>4. Returns(Parent) => flags'[Parent] = f
  BY Alone DEF Returns, JourneyTypeOK
<1>5. ThrowsEvent(Parent) => flags'[Parent] = g
  BY Alone DEF ThrowsEvent, JourneyTypeOK
<1> HIDE DEF left0
<1>6. /\ g.entered = flags[Parent].entered /\ g.done = FALSE
      /\ g.enabled = flags[Parent].enabled /\ g.raised = left0
      /\ g.counter = flags[Parent].counter
  BY <1>1 DEF Flags
<1> HIDE DEF f, g
<1>7. Returns(Parent) \/ ThrowsEvent(Parent) \/ ThrowsError(Parent) =>
        phase[Parent] = "handling" /\ phase'[Parent] = "running"
  BY Alone DEF Returns, ThrowsEvent, ThrowsError, Handled, Moves, JourneyTypeOK
<1>8. ThrowsError(Parent) => flags' = flags
  BY DEF ThrowsError
<1> QED
  BY <1>2, <1>3, <1>4, <1>5, <1>6, <1>7, <1>8 DEF Becomes

(* The suspension and the resumption.                                      *)
LEMMA SleepEffect ==
  ASSUME JourneyTypeOK, ResumedOnce, Coroutine
  PROVE  /\ Becomes(flags[Parent].done, flags[Parent].enabled,
                    flags[Parent].raised, flags[Parent].counter)
         /\ UNCHANGED <<seen, waitingVars>>
         /\ \/ /\ phase[Parent] = "yielded" /\ phase'[Parent] = "suspended"
               /\ flags'[Parent].entered => MayProceed(flags[Parent])
            \/ /\ phase[Parent] = "suspended" /\ phase'[Parent] = "resumed"
               /\ flags[Parent].entered
<1>1. flags[Parent] \in Flags
  BY Alone DEF JourneyTypeOK
<1> DEFINE g == [flags[Parent] EXCEPT !.entered = FALSE]
<1>2. /\ g.entered = FALSE /\ g.done = flags[Parent].done
      /\ g.enabled = flags[Parent].enabled /\ g.raised = flags[Parent].raised
      /\ g.counter = flags[Parent].counter
  BY <1>1 DEF Flags
<1>3. CASE ResetEntered(Parent)
  <2>1. (flags'[Parent] = flags[Parent] /\ MayProceed(flags[Parent])) \/ flags'[Parent] = g
    BY <1>3, Alone DEF ResetEntered, JourneyTypeOK
  <2>2. phase[Parent] = "yielded" /\ phase'[Parent] = "suspended" /\ UNCHANGED <<seen, waitingVars>>
    BY <1>3, Alone DEF ResetEntered, Moves, JourneyTypeOK, Coroutine
  <2> HIDE DEF g
  <2> QED
    BY <1>2, <2>1, <2>2 DEF Becomes
<1>4. CASE Proceed0(Parent)
  <2>1. ready[Parent] > 0
    BY <1>4 DEF Proceed0
  <2>2. phase[Parent] = "suspended" /\ flags[Parent].entered
    BY <2>1, Alone DEF ResumedOnce
  <2>3. phase'[Parent] = "resumed" /\ UNCHANGED <<flags, seen, waitingVars>>
    BY <1>4, Alone DEF Proceed0, JourneyTypeOK, Coroutine
  <2> QED
    BY <2>2, <2>3 DEF Becomes
<1> QED
  BY <1>3, <1>4 DEF Coroutine

-----------------------------------------------------------------------------
(* What a step does with the journey of the parent.                        *)
JourneyStep ==
  \/ UNCHANGED journeyVars
  \/ Tell \/ AcquireDoer \/ ReleaseDoer
  \/ /\ EventsOff \/ EventsOn
     /\ UNCHANGED <<seen, ready, events>>
     /\ \/ UNCHANGED phase
        \/ phase[Parent] = "resumed" /\ phase' = [phase EXCEPT ![Parent] = "yielded"]
  \/ DetachDoers \/ ResetDone
  \/ AnyOp(Parent)

LEMMA NextJourney == Next => JourneyStep
<1> SUFFICES ASSUME Next
             PROVE  JourneyStep
  OBVIOUS
<1>1. ASSUME NEW k \in Kids, Go(k) \/ Kid(k)
      PROVE  JourneyStep
  BY <1>1 DEF Go, Kid, Finish, Claim, TellFirst, Drop, TellLast, Acquire, Release, JourneyStep
<1>2. CASE Wait \/ Abandon
  BY <1>2 DEF Wait, Abandon, JourneyStep
<1>3. CASE Event \/ Coroutine
  BY <1>3 DEF Event, Coroutine, JourneyStep, AnyOp
<1>4. CASE LastHere
  BY <1>4 DEF LastHere, JourneyStep
<1>5. CASE DetachDoers \/ ResetDone
  BY <1>5 DEF JourneyStep
<1>6. CASE ForceDone
  <2>1. CASE Forced(flags[Parent])
    BY <1>6, <2>1 DEF ForceDone, JourneyStep
  <2>2. CASE ~Forced(flags[Parent])
    BY <1>6, <2>2 DEF ForceDone, JourneyStep, journeyVars
  <2> QED
    BY <2>1, <2>2
<1>7. CASE Unforce \/ Dying \/ Unguarding
  BY <1>7 DEF Unforce, Dying, Unguarding, JourneyStep
<1>8. CASE Suspend \/ Dead \/ Handle \/ Return \/ Throw
  BY <1>8 DEF Suspend, Dead, Handle, Return, Throw, Throws, JourneyStep, AnyOp
<1> QED
  BY <1>1, <1>2, <1>3, <1>4, <1>5, <1>6, <1>7, <1>8 DEF Next, Steps

LEMMA JourneyKeeps ==
  ASSUME TypeOK, ResumedOnce, JourneyStep
  PROVE  JourneyTypeOK' /\ ResumedOnce'
<1>1. JourneyTypeOK /\ flags[Parent] \in Flags /\ made.doer \in DoerType
  BY Alone DEF TypeOK, JourneyTypeOK
<1>2. CASE UNCHANGED journeyVars
  BY <1>1, <1>2 DEF journeyVars, JourneyTypeOK, ResumedOnce
<1>3. CASE AnyOp(Parent)
  BY <1>1, <1>3, Alone, OpKeeps
<1>4. CASE Tell
  <2>1. PICK f : f = [flags[Parent] EXCEPT !.done = TRUE]
    OBVIOUS
  <2>2. f \in Flags
    BY <1>1, <2>1 DEF Flags
  <2>3. Enter(Parent, f) /\ UNCHANGED <<phase, seen, kept, events>>
    BY <1>4, <2>1 DEF Tell, Done
  <2> QED
    BY <1>1, <2>2, <2>3, Alone, EnterKeeps DEF JourneyTypeOK, NobodySleepsOrWakes
<1>5. CASE ReleaseDoer
  <2>1. PICK f : f = [flags[made.doer.who] EXCEPT !.done = TRUE, !.enabled = @ \/ made.doer.enabled]
    OBVIOUS
  <2>2. f \in Flags
    BY <1>1, <2>1, ReleasedTyped
  <2>3. Enter(made.doer.who, f) /\ UNCHANGED <<phase, seen, kept, events>>
    BY <1>5, <2>1 DEF ReleaseDoer, ReleaseAndDone
  <2>4. made.doer.who \in Journeys
    BY <1>1 DEF DoerType
  <2> QED
    BY <1>1, <2>2, <2>3, <2>4, EnterKeeps DEF JourneyTypeOK, NobodySleepsOrWakes
<1>6. CASE AcquireDoer
  <2>1. UNCHANGED <<phase, seen, ready, kept, events>>
    BY <1>6 DEF AcquireDoer
  <2>2. CASE UNCHANGED flags
    BY <1>1, <2>1, <2>2 DEF JourneyTypeOK, ResumedOnce
  <2>3. CASE flags' = [flags EXCEPT ![Parent] = Disabled(made.doer)]
    <3>1. made.doer.who = Parent
      BY <1>1, Alone DEF DoerType
    <3>2. Disabled(made.doer) \in Flags /\ Disabled(made.doer).entered = flags[Parent].entered
      BY <1>1, <3>1, DisabledTyped
    <3> QED
      BY <1>1, <2>1, <2>3, <3>2, Alone, FlagsKeep DEF JourneyTypeOK, NobodySleepsOrWakes
  <2> QED
    BY <1>6, <2>2, <2>3 DEF AcquireDoer
<1>7. CASE /\ EventsOff \/ EventsOn
           /\ UNCHANGED <<seen, ready, events>>
           /\ \/ UNCHANGED phase
              \/ phase[Parent] = "resumed" /\ phase' = [phase EXCEPT ![Parent] = "yielded"]
  <2>1. PICK f \in Flags : /\ f.entered = flags[Parent].entered
                           /\ flags' = [flags EXCEPT ![Parent] = f]
    BY <1>1, <1>7, GuardEffect
  <2>2. kept' \in [Journeys -> {"nothing", "enabled", "disabled"}]
    BY <1>1, <1>7, GuardEffect
  <2>3. phase' \in [Journeys -> Phase] /\ NobodySleepsOrWakes
    BY <1>1, <1>7, Alone DEF JourneyTypeOK, Phase, NobodySleepsOrWakes
  <2> QED
    BY <1>1, <1>7, <2>1, <2>2, <2>3, Alone, FlagsKeep DEF JourneyTypeOK
<1>8. CASE DetachDoers \/ ResetDone
  <2>1. PICK f \in Flags : /\ f.entered = flags[Parent].entered
                           /\ flags' = [flags EXCEPT ![Parent] = f]
    BY <1>1, <1>8, DetachEffect
  <2>2. UNCHANGED <<phase, seen, ready, kept, events>>
    BY <1>1, <1>8 DEF DetachDoers, ResetDone, JourneyTypeOK
  <2> QED
    BY <1>1, <2>1, <2>2, Alone, FlagsKeep DEF JourneyTypeOK, NobodySleepsOrWakes
<1> QED
  BY <1>2, <1>3, <1>4, <1>5, <1>6, <1>7, <1>8 DEF JourneyStep

(* The variables of Waiting keep their types.                              *)
LEMMA KidTyped ==
  ASSUME TypeOK, ResumedOnce, NEW k \in Kids, Go(k) \/ Kid(k)
  PROVE  TypeOK' /\ ResumedOnce'
<1>1. JourneyTypeOK' /\ ResumedOnce'
  <2>1. Next
    BY DEF Next
  <2> QED
    BY <2>1, NextJourney, JourneyKeeps
<1>2. PICK to \in {"working", "claiming", "first", "dropping", "last", "acquired", "over"} :
        \E from : KidGoes(k, from, to)
  BY DEF Go, Kid, Finish, Claim, TellFirst, Drop, TellLast, Acquire, Release, BehindClaim
<1>3. UNCHANGED <<scene, at, share, asked, left>> /\ kid' = [kid EXCEPT ![k] = to]
  BY <1>2 DEF KidGoes
<1>4. index' \in Kids \cup {NoKid, Nobody}
  BY DEF Go, Kid, Finish, Claim, TellFirst, Drop, TellLast, Acquire, Release, Claims,
         AcquireDoer, ReleaseDoer, TypeOK
<1>5. made' \in [doer : DoerType, early : BOOLEAN]
  <2>1. JourneyTypeOK
    BY DEF TypeOK, JourneyTypeOK
  <2>2. [doer |-> Doer(Parent), early |-> flags[Parent].raised # {}] \in
          [doer : DoerType, early : BOOLEAN]
    BY <2>1, Alone, DoerTyped
  <2> QED
    BY <2>2 DEF Go, Kid, Finish, Claim, TellFirst, Drop, TellLast, Acquire, Release,
         AcquireDoer, ReleaseDoer, TypeOK
<1>6. kid' \in [Kids -> {"new", "working", "claiming", "first", "dropping",
                         "last", "acquired", "over"}]
  BY <1>3 DEF TypeOK
<1> QED
  BY <1>1, <1>3, <1>4, <1>5, <1>6 DEF TypeOK

(* A step that the parent takes, an event or the runtime for it.           *)
Alones == Wait \/ Abandon \/ Event \/ Coroutine \/ Steps

LEMMA ParentTyped ==
  ASSUME TypeOK, ResumedOnce, Alones
  PROVE  TypeOK' /\ ResumedOnce' /\ UNCHANGED <<scene, kid, made>>
<1>1. JourneyTypeOK' /\ ResumedOnce'
  <2>1. Next
    BY DEF Next, Alones
  <2> QED
    BY <2>1, NextJourney, JourneyKeeps
<1>2. /\ left \in [how : {"no", "returned", "threw", "died"}, cut : SUBSET Kids]
      /\ Tellers \subseteq Kids /\ share \in BOOLEAN /\ index \in Kids \cup {NoKid, Nobody}
  BY DEF TypeOK, Tellers
<1>3. \A how \in {"returned", "threw", "died"} :
        Leave(how) => left' \in [how : {"no", "returned", "threw", "died"}, cut : SUBSET Kids]
  BY <1>2 DEF Leave
<1> DEFINE Good == /\ UNCHANGED <<scene, kid, made>>
                   /\ share' \in BOOLEAN /\ index' \in Kids \cup {NoKid, Nobody}
                   /\ left' \in [how : {"no", "returned", "threw", "died"}, cut : SUBSET Kids]
<1>4. Wait => Good
  BY <1>2, <1>3 DEF Wait, Goes
<1>5. Abandon => Good
  BY <1>2 DEF Abandon, Goes
<1>6. Event \/ Coroutine => Good
  BY <1>2 DEF Event, Coroutine, waitingVars
<1>7. LastHere => Good
  BY <1>2 DEF LastHere, Goes, AcquireDoer, ReleaseDoer
<1>8. DetachDoers \/ ResetDone \/ Suspend \/ Unforce \/ Dying \/ Handle => Good
  BY <1>2, <1>3 DEF DetachDoers, ResetDone, Suspend, Unforce, Dying, Handle, Goes, Stays
<1>9. ForceDone => Good
  BY <1>2 DEF ForceDone, Goes
<1>10. Dead => Good
  BY <1>2 DEF Dead, Goes
<1>11. Unguarding => Good
  BY <1>2 DEF Unguarding, Goes
<1>12. Return \/ Throw => Good
  BY <1>2, <1>3 DEF Return, Throw, Goes
<1>13. Good
  BY <1>4, <1>5, <1>6, <1>7, <1>8, <1>9, <1>10, <1>11, <1>12 DEF Alones, Steps
<1> QED
  BY <1>1, <1>13 DEF TypeOK

-----------------------------------------------------------------------------
(* All of the invariant but the types.                                     *)
Rest ==
  /\ MustHaveEvent /\ Whereabouts /\ Counted /\ ToldOnce /\ Justified
  /\ Forgiven /\ Buried /\ Detachable /\ Silent /\ ReturnsInTime

LEMMA KindKept ==
  ASSUME UNCHANGED scene
  PROVE  UNCHANGED kind /\ (Any' <=> Any)
BY DEF kind, Any

(* A child goes from one state to another.                                 *)
LEMMA KidMoves ==
  ASSUME TypeOK, NEW k \in Kids, NEW from, NEW to, KidGoes(k, from, to)
  PROVE  /\ kid[k] = from /\ kid'[k] = to
         /\ \A c \in Kids : c # k => kid'[c] = kid[c]
         /\ UNCHANGED <<scene, at, share, asked, left>>
         /\ UNCHANGED kind /\ (Any' <=> Any)
         /\ Sharers' = IF to \in {"working", "claiming", "first", "dropping"}
                         THEN Sharers \cup {k} ELSE Sharers \ {k}
         /\ Tellers' = IF to \in {"first", "last", "acquired"}
                         THEN Tellers \cup {k} ELSE Tellers \ {k}
<1>1. /\ kid[k] = from /\ kid'[k] = to
      /\ \A c \in Kids : c # k => kid'[c] = kid[c]
      /\ UNCHANGED <<scene, at, share, asked, left>>
  BY DEF KidGoes, TypeOK
<1>2. Sharers' = IF to \in {"working", "claiming", "first", "dropping"}
                   THEN Sharers \cup {k} ELSE Sharers \ {k}
  BY <1>1 DEF Sharers
<1>3. Tellers' = IF to \in {"first", "last", "acquired"}
                   THEN Tellers \cup {k} ELSE Tellers \ {k}
  BY <1>1 DEF Tellers
<1> QED
  BY <1>1, <1>2, <1>3, KindKept

LEMMA GoKeeps ==
  ASSUME TypeOK, Rest, TypeOK', NEW k \in Kids, Go(k)
  PROVE  Rest'
<1> USE DEF Rest
<1>1. /\ kid[k] = "new" /\ kid'[k] = "working"
      /\ \A c \in Kids : c # k => kid'[c] = kid[c]
      /\ UNCHANGED <<scene, at, share, asked, left, kind, index>>
      /\ Any' <=> Any
      /\ Sharers' = Sharers \cup {k} /\ Tellers' = Tellers
      /\ at = "going" /\ UNCHANGED journeyVars
  <2>1. KidGoes(k, "new", "working")
    BY DEF Go
  <2>2. k \notin Tellers
    BY <2>1 DEF KidGoes, Tellers
  <2> QED
    BY <2>1, <2>2, KidMoves DEF Go
<1>2. /\ ~Gone' /\ ~Telling' /\ ~Telling /\ phase[Parent] = "running" /\ phase'[Parent] = "running"
      /\ flags' = flags /\ seen' = seen
  BY <1>1 DEF Gone, Telling, Whereabouts, journeyVars, TypeOK, JourneyTypeOK
<1>3. ~Any => ~Spent /\ ~Spent' /\ Tellers = {} /\ ~flags[Parent].done
  BY <1>1 DEF Spent, Counted, ToldOnce, Any
<1>4. MustHaveEvent' /\ Whereabouts' /\ Justified' /\ Silent' /\ ReturnsInTime'
  BY <1>1, <1>2 DEF MustHaveEvent, Whereabouts, Justified, Silent, ReturnsInTime, Barrier,
                    FirstOfAny, Gone
<1>5. Counted'
  BY <1>1, <1>2 DEF Counted, Telling
<1>6. ToldOnce'
  BY <1>1, <1>2, <1>3 DEF ToldOnce, Spent
<1>7. Forgiven' /\ Buried'
  BY <1>1, <1>2, <1>3 DEF Forgiven, Buried, Gone, Any
<1>8. Detachable'
  <2> SUFFICES ASSUME kind = "DetachableAwaiter"
               PROVE  Detachable'
    BY <1>1 DEF Detachable
  <2>1. Held' <=> Held
    BY <1>1 DEF Held
  <2>2. CASE \A c \in Kids : kid[c] = "new"
    <3>1. made' = [doer |-> Doer(Parent), early |-> flags[Parent].raised # {}]
      BY <2>2 DEF Go
    <3>2. /\ made'.doer.who = Parent /\ made'.doer.enabled = flags[Parent].enabled
          /\ made'.doer.counter = flags[Parent].counter
          /\ (made'.early <=> flags[Parent].raised # {})
      BY <3>1 DEF Doer
    <3>3. ~Held
      BY <1>1, <2>2 DEF Held
    <3>4. flags[Parent].enabled /\ flags[Parent].counter \in Nat
      <4>1. flags[Parent] \in Flags
        BY Alone DEF TypeOK, JourneyTypeOK
      <4> QED
        BY <3>3, <4>1 DEF Detachable, Flags
    <3>5. /\ flags'[Parent].counter >= made'.doer.counter
          /\ (Held' <=> ~flags'[Parent].enabled)
          /\ ~Held'
      BY <1>2, <2>1, <3>2, <3>3, <3>4
    <3>6. flags'[Parent].raised # {} => made'.early
      BY <1>2, <3>2
    <3> QED
      BY <1>1, <1>2, <3>2, <3>4, <3>5, <3>6 DEF Detachable
  <2>3. CASE ~\A c \in Kids : kid[c] = "new"
    <3>1. made' = made
      BY <2>3 DEF Go
    <3>2. ~Over
      BY <1>3, <2>1 DEF Over, Any
    <3> QED
      BY <1>1, <1>2, <2>1, <2>3, <3>1, <3>2 DEF Detachable, Overtaken
  <2> QED
    BY <2>2, <2>3
<1> QED
  BY <1>4, <1>5, <1>6, <1>7, <1>8

LEMMA FinishKeeps ==
  ASSUME TypeOK, Rest, TypeOK', NEW k \in Kids, Finish(k)
  PROVE  Rest'
<1> USE DEF Rest
<1>1. /\ kid[k] = "working" /\ kid'[k] \in {"claiming", "over", "dropping"}
      /\ \A c \in Kids : c # k => kid'[c] = kid[c]
      /\ UNCHANGED <<scene, at, share, asked, left, kind, index, made>>
      /\ Any' <=> Any
      /\ kid'[k] = "claiming" <=> Any /\ k \notin scene.fails
      /\ kid'[k] = "over" => kind = "goAnyWait"
      /\ kid'[k] = "dropping" => kind # "goAnyWait"
      /\ Sharers' = IF kid'[k] = "over" THEN Sharers \ {k} ELSE Sharers
      /\ Tellers' = Tellers
      /\ flags' = flags /\ phase' = phase /\ seen' = seen
  <2>1. PICK to \in {"claiming", "over", "dropping"} :
          /\ KidGoes(k, "working", to)
          /\ to = "claiming" <=> MayClaim(k)
          /\ to = "over" => kind = "goAnyWait"
          /\ to = "dropping" => MayClaim(k) \/ kind # "goAnyWait"
    BY DEF Finish
  <2>2. k \notin Tellers /\ k \in Sharers
    BY <2>1 DEF KidGoes, Tellers, Sharers
  <2> QED
    BY <2>1, <2>2, KidMoves DEF Finish, journeyVars, MayClaim
<1>2. k \in Sharers
  BY <1>1 DEF Sharers
<1>3. (Spent' <=> Spent) /\ (Held' <=> Held) /\ (Telling' <=> Telling) /\ (Over' <=> Over)
  BY <1>1 DEF Spent, Held, Telling, Over, Any
<1>4. MustHaveEvent' /\ Whereabouts' /\ Justified' /\ Silent' /\ ToldOnce' /\ Forgiven' /\ Buried'
  BY <1>1, <1>3 DEF MustHaveEvent, Whereabouts, Justified, Silent, ToldOnce, Forgiven, Buried,
                    Overtaken, Gone
<1>5. Counted'
  BY <1>1, <1>2, <1>3 DEF Counted
<1>6. ReturnsInTime'
  BY <1>1, <1>2 DEF ReturnsInTime, Barrier, FirstOfAny, Gone
<1>7. Detachable'
  BY <1>1, <1>3 DEF Detachable, Overtaken
<1> QED
  BY <1>4, <1>5, <1>6, <1>7

LEMMA ClaimKeeps ==
  ASSUME TypeOK, Rest, TypeOK', NEW k \in Kids, Claim(k)
  PROVE  Rest'
<1> USE DEF Rest
<1>1. /\ kid[k] = "claiming" /\ kid'[k] \in {"first", "over", "dropping"}
      /\ \A c \in Kids : c # k => kid'[c] = kid[c]
      /\ UNCHANGED <<scene, at, share, asked, left, kind, made>>
      /\ Any' <=> Any
      /\ kid'[k] = "first" <=> index = Nobody
      /\ index' = IF index = Nobody THEN k ELSE index
      /\ kid'[k] = "dropping" => kind # "goAnyWait"
      /\ Sharers' = IF kid'[k] = "over" THEN Sharers \ {k} ELSE Sharers
      /\ Tellers' = IF index = Nobody THEN Tellers \cup {k} ELSE Tellers
      /\ flags' = flags /\ phase' = phase /\ seen' = seen
  <2>1. PICK to \in {"first", "over", "dropping"} :
          /\ KidGoes(k, "claiming", to)
          /\ to = "first" <=> index = Nobody
          /\ to = "dropping" => kind # "goAnyWait"
    BY DEF Claim, BehindClaim
  <2>2. k \notin Tellers /\ k \in Sharers
    BY <2>1 DEF KidGoes, Tellers, Sharers
  <2> QED
    BY <2>1, <2>2, KidMoves DEF Claim, Claims, journeyVars
<1>2. /\ k \in Sharers /\ Any /\ k \notin scene.fails /\ index # NoKid /\ k # NoKid /\ k # Nobody
      /\ kind \notin {"Awaiter", "Awaiter2", "DetachableAwaiter"}
      /\ index' # Nobody /\ index' # NoKid
  BY <1>1, WaitingAssumption DEF Sharers, Counted, Any
<1>3. /\ Spent' /\ (Telling' <=> Telling) /\ ~Telling
      /\ Over => Over'
      /\ index = Nobody => ~Spent /\ ~Over /\ Tellers = {}
      /\ index # Nobody => Spent
  BY <1>1, <1>2 DEF Spent, Telling, Over, Counted, ToldOnce
<1>4. MustHaveEvent' /\ Whereabouts' /\ Justified' /\ Forgiven' /\ Buried' /\ Detachable'
  BY <1>1, <1>2 DEF MustHaveEvent, Whereabouts, Justified, Forgiven, Buried, Detachable, Gone, Verified
<1>5. Counted'
  BY <1>1, <1>2, <1>3 DEF Counted
<1>6. ToldOnce'
  BY <1>1, <1>2, <1>3 DEF ToldOnce
<1>7. ReturnsInTime'
  BY <1>1, <1>2 DEF ReturnsInTime, Barrier, FirstOfAny, Gone
<1>8. Silent'
  BY <1>1, <1>2, <1>3 DEF Silent, Gone
<1> QED
  BY <1>4, <1>5, <1>6, <1>7, <1>8

LEMMA DropKeeps ==
  ASSUME TypeOK, Rest, TypeOK', NEW k \in Kids, Drop(k)
  PROVE  Rest'
<1> USE DEF Rest
<1>1. /\ kid[k] = "dropping" /\ kid'[k] \in {"last", "over"}
      /\ \A c \in Kids : c # k => kid'[c] = kid[c]
      /\ UNCHANGED <<scene, at, share, asked, left, kind, made>>
      /\ Any' <=> Any
      /\ kid'[k] = "last" <=> MustTell(k)
      /\ index' = IF ClaimsNothing(k) THEN NoKid ELSE index
      /\ Sharers' = Sharers \ {k}
      /\ Tellers' = IF kid'[k] = "last" THEN Tellers \cup {k} ELSE Tellers
      /\ flags' = flags /\ phase' = phase /\ seen' = seen
  <2>1. PICK to \in {"last", "over"} :
          KidGoes(k, "dropping", to) /\ (to = "last" <=> MustTell(k))
    BY DEF Drop
  <2>2. k \notin Tellers
    BY <2>1 DEF KidGoes, Tellers
  <2> QED
    BY <2>1, <2>2, KidMoves DEF Drop, journeyVars
<1>2. /\ k \in Sharers /\ kind # "goAnyWait" /\ index # NoKid
      /\ Any <=> kind = "goAnyResult"
  BY <1>1 DEF Sharers, Counted, Any
<1>3. /\ (Telling' <=> Telling) /\ (Held' <=> Held)
      /\ ~Any => ~Spent /\ ~Over /\ index' = index
                 /\ (kid'[k] = "last" <=> Spent')
      /\ Any => /\ kid'[k] = "last" <=> Sharers \subseteq {k} /\ ~share /\ index = Nobody
                /\ kid'[k] = "last" => index' = NoKid
                /\ kid'[k] = "over" => index' = index /\ (Spent' <=> Spent)
                /\ kid'[k] = "last" => ~Spent /\ Spent'
  BY <1>1, <1>2, WaitingAssumption DEF Spent, Over, Telling, Held, MustTell, ClaimsNothing, IsLast
<1>4. /\ Over => Over'
      /\ kid'[k] = "last" => ~Spent /\ Tellers = {} /\ Spent'
      /\ kid'[k] = "over" => (Spent' <=> Spent) /\ (Over' <=> Over) /\ index' = index
  BY <1>1, <1>2, <1>3 DEF Over, ToldOnce, TypeOK
<1>5. MustHaveEvent' /\ Whereabouts' /\ Justified'
  BY <1>1 DEF MustHaveEvent, Whereabouts, Justified, Gone, Verified
<1>6. ASSUME kid'[k] = "last", Any
      PROVE  \A c \in Kids : kid'[c] # "new" => c \in scene.fails
  BY <1>1, <1>2, <1>3, <1>6 DEF Counted, Sharers, TypeOK
<1>7. Counted'
  <2>1. CASE kid'[k] = "over"
    BY <1>1, <1>2, <1>3, <1>4, <2>1 DEF Counted
  <2>2. CASE kid'[k] = "last" /\ ~Any
    BY <1>1, <1>2, <1>3, <1>4, <2>2 DEF Counted
  <2>3. CASE kid'[k] = "last" /\ Any
    BY <1>1, <1>2, <1>3, <1>4, <1>6, <2>3, WaitingAssumption DEF Counted
  <2> QED
    BY <1>1, <2>1, <2>2, <2>3
<1>8. ToldOnce'
  BY <1>1, <1>3, <1>4 DEF ToldOnce
<1>9. ReturnsInTime'
  BY <1>1, <1>2, <1>3, WaitingAssumption DEF ReturnsInTime, Barrier, FirstOfAny, Gone, ClaimsNothing
<1>10. Forgiven' /\ Silent'
  BY <1>1, <1>2, <1>3, <1>4 DEF Silent, Forgiven, Gone, Overtaken, Any
<1>11. Buried'
  BY <1>1, <1>2, <1>3, <1>4 DEF Buried, Any
<1>12. Detachable'
  BY <1>1, <1>2, <1>3, <1>4 DEF Detachable, Overtaken, Any
<1> QED
  BY <1>5, <1>7, <1>8, <1>9, <1>10, <1>11, <1>12

LEMMA TellFirstKeeps ==
  ASSUME TypeOK, Rest, TypeOK', NEW k \in Kids, TellFirst(k)
  PROVE  Rest'
<1> USE DEF Rest
<1>1. /\ kid[k] = "first" /\ kid'[k] \in {"over", "dropping"}
      /\ \A c \in Kids : c # k => kid'[c] = kid[c]
      /\ UNCHANGED <<scene, at, share, asked, left, kind, index, made>>
      /\ Any' <=> Any
      /\ kid'[k] = "dropping" => kind # "goAnyWait"
      /\ Tellers' = Tellers \ {k}
      /\ phase' = phase /\ seen' = seen
      /\ Becomes(TRUE, flags[Parent].enabled, flags[Parent].raised, flags[Parent].counter)
  <2>1. PICK to \in {"over", "dropping"} :
          KidGoes(k, "first", to) /\ (to = "dropping" => kind # "goAnyWait")
    BY DEF TellFirst, BehindClaim
  <2>2. Tell /\ JourneyTypeOK
    BY DEF TellFirst, TypeOK, JourneyTypeOK
  <2> QED
    BY <2>1, <2>2, KidMoves, TellEffect DEF TellFirst
<1>2. /\ k \in Sharers /\ k \in Tellers /\ Any /\ index # NoKid
      /\ kind \notin {"Awaiter", "Awaiter2", "DetachableAwaiter"}
      /\ ~Over /\ Spent /\ Spent' /\ Tellers' = {} /\ ~Telling /\ ~Telling'
  BY <1>1 DEF Sharers, Tellers, Counted, Any, ToldOnce, Over, Spent, Telling
<1>3. MustHaveEvent' /\ Whereabouts' /\ Forgiven' /\ Buried' /\ Detachable'
  BY <1>1, <1>2 DEF MustHaveEvent, Whereabouts, Forgiven, Buried, Detachable, Becomes, Gone,
                    Verified
<1>4. Justified' /\ ToldOnce'
  BY <1>1, <1>2 DEF Justified, Becomes, Verified, ToldOnce
<1>5. Counted'
  BY <1>1, <1>2 DEF Counted
<1>6. ReturnsInTime' /\ Silent'
  BY <1>1, <1>2 DEF ReturnsInTime, Barrier, FirstOfAny, Silent, Gone
<1> QED
  BY <1>3, <1>4, <1>5, <1>6

LEMMA TellLastKeeps ==
  ASSUME TypeOK, Rest, TypeOK', NEW k \in Kids, TellLast(k)
  PROVE  Rest'
<1> USE DEF Rest
<1>1. /\ kid[k] = "last" /\ kid'[k] = "over" /\ kind # "DetachableAwaiter"
      /\ \A c \in Kids : c # k => kid'[c] = kid[c]
      /\ UNCHANGED <<scene, at, share, asked, left, kind, index, made>>
      /\ Any' <=> Any
      /\ Tellers' = Tellers \ {k} /\ Sharers' = Sharers
      /\ phase' = phase /\ seen' = seen
      /\ Becomes(TRUE, flags[Parent].enabled, flags[Parent].raised, flags[Parent].counter)
  <2>1. KidGoes(k, "last", "over") /\ kind # "DetachableAwaiter"
    BY DEF TellLast
  <2>2. Tell /\ JourneyTypeOK
    BY DEF TellLast, TypeOK, JourneyTypeOK
  <2>3. k \notin Sharers
    BY <2>1 DEF KidGoes, Sharers
  <2> QED
    BY ZenonT(60), <2>1, <2>2, <2>3, KidMoves, TellEffect DEF TellLast
<1>2. /\ k \in Tellers /\ ~Over /\ Spent /\ Spent' /\ Tellers' = {} /\ ~Telling /\ ~Telling'
      /\ Over'
  BY <1>1 DEF Tellers, ToldOnce, Over, Spent, Telling
<1>3. MustHaveEvent' /\ Whereabouts' /\ Forgiven' /\ Detachable'
  BY <1>1, <1>2 DEF MustHaveEvent, Whereabouts, Forgiven, Detachable, Becomes, Gone,
                    Verified
<1>4. Justified' /\ ToldOnce'
  BY <1>1, <1>2 DEF Justified, Becomes, Verified, ToldOnce
<1>5. Counted'
  BY <1>1, <1>2 DEF Counted, Spent
<1>6. Buried'
  BY <1>1, <1>2 DEF Buried
<1>7. ReturnsInTime' /\ Silent'
  BY <1>1, <1>2 DEF ReturnsInTime, Barrier, FirstOfAny, Silent, Gone
<1> QED
  BY <1>3, <1>4, <1>5, <1>6, <1>7

LEMMA AcquireKeeps ==
  ASSUME TypeOK, Rest, TypeOK', NEW k \in Kids, Acquire(k)
  PROVE  Rest'
<1> USE DEF Rest
<1>1. /\ kind = "DetachableAwaiter" /\ kid[k] = "last" /\ AcquireDoer
      /\ \A c \in Kids : c # k => kid'[c] = kid[c]
      /\ UNCHANGED <<scene, at, share, asked, left, kind, index, made>>
      /\ Any' <=> Any
      /\ Sharers' = Sharers
      /\ \/ /\ Acquirable(made.doer) /\ kid'[k] = "acquired"
            /\ Tellers' = Tellers \cup {k}
         \/ /\ ~Acquirable(made.doer) /\ kid'[k] = "over"
            /\ Tellers' = Tellers \ {k}
      /\ phase' = phase /\ seen' = seen
  <2>1. /\ KidGoes(k, "last", IF Acquirable(made.doer) THEN "acquired" ELSE "over")
        /\ kind = "DetachableAwaiter" /\ AcquireDoer
    BY DEF Acquire
  <2>2. k \notin Sharers
    BY <2>1 DEF KidGoes, Sharers
  <2>3. PICK to \in {"acquired", "over"} :
          KidGoes(k, "last", to) /\ (to = "acquired" <=> Acquirable(made.doer))
    BY <2>1
  <2> QED
    BY <2>1, <2>2, <2>3, KidMoves DEF AcquireDoer
<1>2. /\ k \in Tellers /\ Tellers = {k} /\ ~Over /\ Spent /\ Spent' /\ ~Telling /\ ~Telling'
      /\ ~Any /\ ~flags[Parent].done /\ ~(phase[Parent] = "handling" /\ seen[Parent].done)
  BY <1>1 DEF Tellers, ToldOnce, Over, Spent, Telling, Any
<1>3. made.doer.who = Parent /\ made.doer.enabled /\ JourneyTypeOK
      /\ flags[Parent].counter \in Nat /\ made.doer.counter \in Nat
  <2>1. flags[Parent] \in Flags /\ made.doer \in DoerType /\ JourneyTypeOK
    BY Alone DEF TypeOK, JourneyTypeOK
  <2> QED
    BY <1>1, <2>1 DEF Detachable, Flags, DoerType
<1>4. ~Held /\ flags[Parent].enabled
  <2>1. \A c \in Kids : kid[c] # "acquired"
    BY <1>1, <1>2 DEF Tellers
  <2>2. ~Held
    BY <1>2, <2>1 DEF Held, Telling
  <2> QED
    BY <1>1, <2>2 DEF Detachable
<1>5. Acquirable(made.doer) <=> ~Overtaken
  BY <1>1, <1>3 DEF Acquirable, Overtaken, Detachable
<1>6. /\ ~Overtaken => Becomes(flags[Parent].done, FALSE, flags[Parent].raised, flags[Parent].counter)
      /\ Overtaken => UNCHANGED flags
      /\ flags'[Parent].entered = flags[Parent].entered
      /\ Overtaken' <=> Overtaken
  <2>1. ~Overtaken => flags[Parent].counter = made.doer.counter
    BY <1>1, <1>3 DEF Overtaken, Detachable
  <2>2. Overtaken => flags[Parent].counter # made.doer.counter
    BY <1>3 DEF Overtaken
  <2> QED
    BY <1>1, <1>3, <2>1, <2>2, AcquireEffect DEF Becomes, Overtaken
<1>7. Held' <=> ~Overtaken
  BY <1>1, <1>2, <1>4, <1>5 DEF Held, Telling
<1>8. at = "detached" => Overtaken
  BY <1>1 DEF Detachable
<1>9. ~made.early /\ flags[Parent].raised # {} => Overtaken
  BY <1>1, <1>2, <1>4 DEF Detachable
<1>10. MustHaveEvent' /\ Forgiven' /\ Buried'
  BY <1>1 DEF MustHaveEvent, Forgiven, Buried
<1>11. Whereabouts'
  BY <1>1 DEF Whereabouts, Gone
<1>12. Counted'
  BY <1>1, <1>2 DEF Counted, Any, Telling
<1>13. ToldOnce'
  BY <1>1, <1>2, <1>6 DEF ToldOnce, Becomes
<1>14. Justified'
  <2>1. CASE Overtaken
    BY <1>1, <1>6, <2>1 DEF Justified, Verified
  <2>2. CASE ~Overtaken
    BY <1>1, <1>2, <1>6, <1>9, <2>2 DEF Justified, Verified, Becomes
  <2> QED
    BY <2>1, <2>2
<1>15. Detachable'
  <2>1. flags'[Parent].counter = flags[Parent].counter /\ flags'[Parent].raised = flags[Parent].raised
    BY <1>6 DEF Becomes
  <2>2. Held' <=> ~flags'[Parent].enabled
    BY <1>4, <1>6, <1>7 DEF Becomes
  <2>3. (\E c \in Kids : kid'[c] # "new")
    BY <1>1
  <2> QED
    BY <1>1, <1>2, <1>3, <1>6, <1>7, <1>8, <1>9, <2>1, <2>2, <2>3 DEF Detachable
<1>16. Silent'
  BY <1>1, <1>2, <1>4, <1>5, <1>6, <1>7 DEF Silent, Gone, Any
<1>17. ReturnsInTime'
  BY <1>1, <1>2 DEF ReturnsInTime, Barrier, FirstOfAny, Gone
<1> QED
  BY <1>10, <1>11, <1>12, <1>13, <1>14, <1>15, <1>16, <1>17

LEMMA ReleaseKeeps ==
  ASSUME TypeOK, Rest, TypeOK', NEW k \in Kids, Release(k)
  PROVE  Rest'
<1> USE DEF Rest
<1>1. /\ kid[k] = "acquired" /\ kid'[k] = "over" /\ ReleaseDoer
      /\ \A c \in Kids : c # k => kid'[c] = kid[c]
      /\ UNCHANGED <<scene, at, share, asked, left, kind, index, made>>
      /\ Any' <=> Any
      /\ Sharers' = Sharers /\ Tellers' = Tellers \ {k}
      /\ phase' = phase /\ seen' = seen
  <2>1. KidGoes(k, "acquired", "over") /\ ReleaseDoer
    BY DEF Release
  <2>2. k \notin Sharers
    BY <2>1 DEF KidGoes, Sharers
  <2> QED
    BY <2>1, <2>2, KidMoves DEF ReleaseDoer
<1>2. /\ kind = "DetachableAwaiter" /\ ~Any
      /\ Tellers = {k} /\ Tellers' = {} /\ ~Over /\ Spent /\ Spent' /\ ~Telling /\ ~Telling'
      /\ Over'
  BY <1>1 DEF Tellers, ToldOnce, Over, Spent, Telling, Any, Counted
<1>3. /\ Becomes(TRUE, TRUE, flags[Parent].raised, flags[Parent].counter)
      /\ made.doer.who = Parent /\ made.doer.enabled
  <2>1. JourneyTypeOK /\ made.doer.who = Parent /\ made.doer.enabled
    BY <1>2 DEF TypeOK, JourneyTypeOK, Detachable
  <2> QED
    BY <1>1, <2>1, ReleaseEffect
<1>4. Held /\ ~Held' /\ (Overtaken' <=> Overtaken)
  <2>1. \A c \in Kids : kid'[c] # "acquired"
    BY <1>1, <1>2 DEF Tellers
  <2> QED
    BY <1>1, <1>2, <1>3, <2>1 DEF Held, Telling, Overtaken, Becomes
<1>5. MustHaveEvent' /\ Forgiven' /\ Buried'
  BY <1>1, <1>2 DEF MustHaveEvent, Forgiven, Buried
<1>6. Whereabouts'
  BY <1>1, <1>2 DEF Whereabouts, Gone
<1>7. Counted'
  BY <1>1, <1>2 DEF Counted, Any, Telling
<1>8. ToldOnce' /\ Justified'
  BY <1>1, <1>2, <1>3 DEF ToldOnce, Justified, Verified, Becomes
<1>9. Detachable'
  <2>1. \E c \in Kids : kid'[c] # "new"
    BY <1>1
  <2> QED
    BY <1>1, <1>2, <1>3, <1>4, <2>1 DEF Detachable, Becomes
<1>10. Silent'
  BY <1>1, <1>2, <1>4 DEF Silent, Gone
<1>11. ReturnsInTime'
  BY <1>1, <1>2 DEF ReturnsInTime, Barrier, FirstOfAny, Gone
<1> QED
  BY <1>5, <1>6, <1>7, <1>8, <1>9, <1>10, <1>11

-----------------------------------------------------------------------------
(* What no step of the parent touches.                                     *)
LEMMA Still ==
  ASSUME TypeOK, ResumedOnce, Alones
  PROVE  /\ TypeOK' /\ ResumedOnce'
         /\ UNCHANGED <<scene, kid, made, kind, Sharers, Tellers>>
         /\ Any' <=> Any
<1>1. TypeOK' /\ ResumedOnce' /\ UNCHANGED <<scene, kid, made>>
  BY ParentTyped
<1>2. UNCHANGED kind /\ (Any' <=> Any)
  BY <1>1, KindKept
<1>3. Sharers' = Sharers /\ Tellers' = Tellers
  BY <1>1 DEF Sharers, Tellers
<1> QED
  BY <1>1, <1>2, <1>3

LEMMA WaitKeeps ==
  ASSUME TypeOK, ResumedOnce, Rest, Wait
  PROVE  Rest'
<1> USE DEF Rest
<1>1. /\ UNCHANGED <<scene, kid, made, kind, Sharers, Tellers>> /\ (Any' <=> Any)
      /\ at = "going" /\ ~share' /\ \E k \in Kids : kid[k] # "new"
      /\ index' = IF kind = "goAnyResult" /\ Sharers = {} /\ index = Nobody
                    THEN NoKid ELSE index
  BY Still DEF Wait, Alones, Goes
<1>2. /\ JourneyTypeOK /\ phase[Parent] = "running" /\ ~Telling /\ ~Gone /\ left.how = "no"
      /\ (Any <=> kind \in {"goAnyWait", "goAnyResult"})
      /\ NoKid # Nobody /\ NoKid \notin Kids /\ Nobody \notin Kids
  BY <1>1, WaitingAssumption DEF TypeOK, JourneyTypeOK, Whereabouts, Telling, Gone, Any
<1>3. /\ ~Any => /\ share /\ ~Spent /\ Tellers = {} /\ ~flags[Parent].done /\ index' = index
                 /\ left.cut = {} \/ kind # "Awaiter2"
                 /\ (Spent' <=> Sharers = {})
      /\ Any => (Spent' <=> index' # Nobody) /\ (Spent <=> index # Nobody)
  BY <1>1, <1>2 DEF Spent, Counted, ToldOnce, Buried
<1>4. /\ Held /\ at' \notin {"acquired", "deadacquired"} => Held'
      /\ Held' /\ at' \notin {"acquired", "deadacquired"} => Held
  BY <1>1 DEF Held
<1>5. index' = NoKid => /\ kind = "goAnyResult" /\ Sharers = {}
                        /\ \A k \in Kids : kid[k] # "new" => k \in scene.fails
  <2>1. CASE index' = index
    BY <2>1 DEF Counted
  <2>2. CASE index' # index
    BY <1>1, <1>2, <2>2 DEF Counted, Sharers, TypeOK
  <2> QED
    BY <2>1, <2>2
<1>6. ASSUME at' \in {"left", "last", "waiting"},
             at' = "last" => kind = "DetachableAwaiter"
      PROVE  Counted'
  BY <1>1, <1>2, <1>5, <1>6 DEF Counted, Telling
<1>7. CASE /\ kind \in {"Awaiter2", "AsyncWaiter"} /\ Sharers = {}
           /\ Goes("going", "left")
           /\ Leave("returned")
           /\ UNCHANGED journeyVars
  <2>1. /\ at' = "left" /\ Gone' /\ flags' = flags /\ phase' = phase /\ seen' = seen
        /\ left'.how = "returned" /\ left'.cut = {}
        /\ ~Any /\ Spent' /\ Over' /\ ~Telling'
    BY <1>1, <1>2, <1>3, <1>7 DEF Goes, Leave, journeyVars, Gone, Over, Telling
  <2>2. MustHaveEvent' /\ Whereabouts' /\ Justified' /\ Forgiven' /\ Detachable'
    BY <1>1, <1>2, <1>7, <2>1 DEF MustHaveEvent, Whereabouts, Justified, Forgiven, Detachable, Gone
  <2>3. Counted' /\ ToldOnce'
    BY <1>1, <1>2, <1>3, <1>6, <2>1 DEF ToldOnce
  <2>4. Buried' /\ Silent' /\ ReturnsInTime'
    BY <1>1, <1>2, <1>3, <1>7, <2>1 DEF Buried, Silent, ReturnsInTime, Barrier, FirstOfAny
  <2> QED
    BY <2>2, <2>3, <2>4
<1>8. CASE /\ kind = "DetachableAwaiter" /\ Sharers = {}
           /\ Goes("going", "last")
           /\ UNCHANGED <<journeyVars, left>>
  <2>1. /\ at' = "last" /\ ~Gone' /\ flags' = flags /\ phase' = phase /\ seen' = seen
        /\ left' = left /\ ~Any /\ Spent' /\ Telling' /\ ~Over /\ (Held' <=> Held)
        /\ (Overtaken' <=> Overtaken)
    BY <1>1, <1>2, <1>3, <1>4, <1>8 DEF Goes, journeyVars, Gone, Over, Telling, Overtaken
  <2>2. /\ MustHaveEvent' /\ Whereabouts' /\ Justified' /\ Forgiven' /\ Buried'
        /\ Silent' /\ ReturnsInTime'
    BY <1>1, <1>2, <1>8, <2>1 DEF MustHaveEvent, Whereabouts, Justified, Forgiven, Buried, Silent,
       ReturnsInTime, Barrier, FirstOfAny, Gone
  <2>3. Counted' /\ ToldOnce'
    BY <1>1, <1>2, <1>3, <1>6, <1>8, <2>1 DEF ToldOnce
  <2>4. Detachable'
    BY <1>1, <1>2, <1>8, <2>1 DEF Detachable
  <2> QED
    BY <2>2, <2>3, <2>4
<1>9. CASE /\ (kind \in {"Awaiter", "goWait"} /\ Sharers = {}) \/ index' # index
           /\ Goes("going", "waiting")
           /\ Tell
           /\ UNCHANGED left
  <2>1. /\ at' = "waiting" /\ ~Gone' /\ phase' = phase /\ seen' = seen
        /\ left' = left /\ ~Telling' /\ kind # "DetachableAwaiter" /\ kind # "Awaiter2"
        /\ Becomes(TRUE, flags[Parent].enabled, flags[Parent].raised, flags[Parent].counter)
    BY <1>1, <1>2, <1>9, TellEffect DEF Goes, Gone, Telling
  <2>2. ~Spent /\ Spent' /\ Tellers = {}
    BY <1>1, <1>2, <1>3, <1>9 DEF ToldOnce
  <2>3. /\ MustHaveEvent' /\ Whereabouts' /\ Justified' /\ Forgiven' /\ Buried'
        /\ Silent' /\ ReturnsInTime' /\ Detachable'
    BY <1>1, <1>2, <2>1 DEF MustHaveEvent, Whereabouts, Justified, Forgiven, Buried, Silent,
       ReturnsInTime, Barrier, FirstOfAny, Gone, Detachable, Becomes
  <2>4. Counted' /\ ToldOnce'
    BY <1>1, <1>2, <1>6, <2>1, <2>2 DEF ToldOnce
  <2> QED
    BY <2>3, <2>4
<1>10. CASE /\ Sharers # {} \/ (Any /\ index' = index)
            /\ Goes("going", "waiting")
            /\ UNCHANGED <<journeyVars, left>>
  <2>1. /\ at' = "waiting" /\ ~Gone' /\ flags' = flags /\ phase' = phase /\ seen' = seen
        /\ left' = left /\ ~Telling' /\ (Held' <=> Held) /\ (Overtaken' <=> Overtaken)
    BY <1>1, <1>2, <1>4, <1>10 DEF Goes, journeyVars, Gone, Telling, Overtaken
  <2>2. (Spent' <=> Spent) /\ (Over' <=> Over)
    BY <1>1, <1>2, <1>3, <1>10, <2>1 DEF Over
  <2>3. /\ MustHaveEvent' /\ Whereabouts' /\ Justified' /\ Forgiven'
        /\ Silent' /\ ReturnsInTime'
    BY <1>1, <1>2, <2>1 DEF MustHaveEvent, Whereabouts, Justified, Forgiven, Silent,
       ReturnsInTime, Barrier, FirstOfAny, Gone
  <2>4. Counted' /\ ToldOnce' /\ Buried'
    BY <1>1, <1>2, <1>6, <2>1, <2>2 DEF ToldOnce, Buried
  <2>5. Detachable'
    BY <1>1, <1>2, <2>1, <2>2 DEF Detachable
  <2> QED
    BY <2>3, <2>4, <2>5
<1> QED
  BY <1>7, <1>8, <1>9, <1>10 DEF Wait

LEMMA AbandonKeeps ==
  ASSUME TypeOK, ResumedOnce, Rest, Abandon
  PROVE  Rest'
<1> USE DEF Rest
<1>1. /\ UNCHANGED <<scene, kid, made, kind, Sharers, Tellers>> /\ (Any' <=> Any)
      /\ at = "going" /\ (\E k \in Kids : kid[k] # "new")
      /\ UNCHANGED <<index, left>>
      /\ kind \in {"Awaiter", "Awaiter2", "DetachableAwaiter"}
  BY Still DEF Abandon, Alones, Goes
<1>2. /\ JourneyTypeOK /\ phase[Parent] = "running" /\ ~Telling /\ ~Gone /\ left.how = "no"
      /\ ~Any /\ share /\ ~Spent /\ Tellers = {} /\ ~flags[Parent].done /\ ~Over
      /\ index # NoKid
  BY <1>1, WaitingAssumption DEF TypeOK, JourneyTypeOK, Whereabouts, Telling, Gone, Any,
     Counted, Spent, ToldOnce, Over
<1>3. /\ Held /\ at' \notin {"acquired", "deadacquired"} => Held'
      /\ Held' /\ at' \notin {"acquired", "deadacquired"} => Held
  BY <1>1 DEF Held
<1>4. CASE /\ kind = "Awaiter"
           /\ Goes("going", "dying")
           /\ ~share'
           /\ IF Sharers = {} THEN Tell ELSE UNCHANGED journeyVars
  <2>1. /\ at' = "dying" /\ ~Gone' /\ phase' = phase /\ seen' = seen /\ ~Telling'
        /\ flags'[Parent].enabled = flags[Parent].enabled
        /\ flags'[Parent].raised = flags[Parent].raised
        /\ flags'[Parent].done => Sharers = {}
    BY <1>1, <1>2, <1>4, TellEffect DEF Goes, Gone, Telling, journeyVars, Becomes
  <2>2. Spent' <=> Sharers = {}
    BY <1>1, <1>2, <1>4 DEF Spent
  <2>3. /\ MustHaveEvent' /\ Whereabouts' /\ Justified' /\ Forgiven' /\ Buried'
        /\ Silent' /\ ReturnsInTime' /\ Detachable'
    BY <1>1, <1>2, <1>4, <2>1 DEF MustHaveEvent, Whereabouts, Justified, Forgiven, Buried, Silent,
       ReturnsInTime, Barrier, FirstOfAny, Gone, Detachable
  <2>4. Counted' /\ ToldOnce'
    BY <1>1, <1>2, <1>4, <2>1, <2>2 DEF Counted, ToldOnce
  <2> QED
    BY <2>3, <2>4
<1>5. CASE /\ kind = "Awaiter2"
           /\ Goes("going", "dying")
           /\ UNCHANGED <<journeyVars, share>>
  <2>1. /\ at' = "dying" /\ ~Gone' /\ phase' = phase /\ seen' = seen /\ flags' = flags /\ ~Telling'
        /\ (Spent' <=> Spent) /\ share'
    BY <1>1, <1>2, <1>5 DEF Goes, Gone, Telling, journeyVars, Spent
  <2>2. /\ MustHaveEvent' /\ Whereabouts' /\ Justified' /\ Forgiven'
        /\ Silent' /\ ReturnsInTime' /\ Detachable'
    BY <1>1, <1>2, <1>5, <2>1 DEF MustHaveEvent, Whereabouts, Justified, Forgiven, Silent,
       ReturnsInTime, Barrier, FirstOfAny, Gone, Detachable
  <2>3. Counted' /\ ToldOnce' /\ Buried'
    BY <1>1, <1>2, <1>5, <2>1 DEF Counted, ToldOnce, Buried
  <2> QED
    BY <2>2, <2>3
<1>6. CASE /\ kind = "DetachableAwaiter"
           /\ Goes("going", IF Sharers = {} THEN "deadlast" ELSE "detaching")
           /\ ~share'
           /\ UNCHANGED journeyVars
  <2>1. /\ at' \in {"deadlast", "detaching"} /\ ~Gone' /\ phase' = phase /\ seen' = seen
        /\ flags' = flags /\ (Telling' <=> Sharers = {}) /\ (Overtaken' <=> Overtaken)
        /\ (Held' <=> Held)
    BY <1>1, <1>2, <1>3, <1>6 DEF Goes, Gone, Telling, journeyVars, Overtaken
  <2>2. Spent' <=> Sharers = {}
    BY <1>1, <1>2, <1>6 DEF Spent
  <2>3. /\ MustHaveEvent' /\ Whereabouts' /\ Justified' /\ Forgiven' /\ Buried'
        /\ Silent' /\ ReturnsInTime'
    BY <1>1, <1>2, <1>6, <2>1 DEF MustHaveEvent, Whereabouts, Justified, Forgiven, Buried, Silent,
       ReturnsInTime, Barrier, FirstOfAny, Gone
  <2>4. Counted' /\ ToldOnce'
    BY <1>1, <1>2, <1>6, <2>1, <2>2 DEF Counted, ToldOnce
  <2>5. Detachable'
    BY <1>1, <1>2, <1>6, <2>1 DEF Detachable
  <2> QED
    BY <2>3, <2>4, <2>5
<1> QED
  BY <1>4, <1>5, <1>6 DEF Abandon

LEMMA LastHereKeeps ==
  ASSUME TypeOK, ResumedOnce, Rest, LastHere
  PROVE  Rest'
<1> USE DEF Rest
<1>1. /\ UNCHANGED <<scene, kid, made, kind, Sharers, Tellers>> /\ (Any' <=> Any)
      /\ UNCHANGED <<index, left, share>> /\ Telling
  BY Still DEF LastHere, Alones, Steps, Goes, Telling, AcquireDoer, ReleaseDoer
<1>2. /\ JourneyTypeOK /\ kind = "DetachableAwaiter" /\ ~Any /\ ~Gone /\ left.how = "no"
      /\ phase[Parent] = "running" /\ ~share /\ Spent /\ Tellers = {} /\ ~flags[Parent].done
      /\ index # NoKid
      /\ (\A c \in Kids : kid[c] # "acquired") /\ (\E c \in Kids : kid[c] # "new")
  BY <1>1, WaitingAssumption DEF TypeOK, JourneyTypeOK, Whereabouts, Telling, Gone, Any,
     Counted, Spent, ToldOnce, Tellers, Detachable
<1>3. /\ made.doer.who = Parent /\ made.doer.enabled
      /\ flags[Parent].counter \in Nat /\ made.doer.counter \in Nat
  <2>1. flags[Parent] \in Flags /\ made.doer \in DoerType
    BY <1>2, Alone DEF TypeOK, JourneyTypeOK
  <2> QED
    BY <1>2, <2>1 DEF Detachable, Flags, DoerType
<1>4. Acquirable(made.doer) <=> ~Overtaken
  BY <1>2, <1>3 DEF Acquirable, Overtaken, Detachable
<1>5. CASE /\ \/ Goes("last", IF Acquirable(made.doer) THEN "acquired" ELSE "waiting")
              \/ Goes("deadlast", IF Acquirable(made.doer) THEN "deadacquired" ELSE "detaching")
           /\ AcquireDoer
  <2>1. /\ ~Overtaken => Becomes(flags[Parent].done, FALSE, flags[Parent].raised, flags[Parent].counter)
        /\ Overtaken => UNCHANGED flags
        /\ UNCHANGED <<phase, seen>>
        /\ Overtaken' <=> Overtaken
    <3>1. ~Overtaken => flags[Parent].counter = made.doer.counter
      BY <1>2, <1>3 DEF Overtaken, Detachable
    <3>2. Overtaken => flags[Parent].counter # made.doer.counter
      BY <1>3 DEF Overtaken
    <3> QED
      BY <1>1, <1>2, <1>3, <1>5, <3>1, <3>2, AcquireEffect DEF Becomes, Overtaken
  <2>2. /\ at \in {"last", "deadlast"} /\ ~Held
        /\ at' \in {"acquired", "waiting", "deadacquired", "detaching"}
        /\ at' \in {"acquired", "deadacquired"} <=> ~Overtaken
        /\ Held' <=> ~Overtaken
        /\ Telling' <=> ~Overtaken
        /\ ~Gone'
    BY <1>1, <1>2, <1>4, <1>5 DEF Goes, Held, Telling, Gone
  <2>3. flags[Parent].enabled /\ (flags[Parent].raised # {} /\ ~made.early => Overtaken)
    BY <1>1, <1>2, <2>2 DEF Detachable, Over
  <2>4. /\ flags'[Parent].done = flags[Parent].done
        /\ flags'[Parent].raised = flags[Parent].raised
        /\ flags'[Parent].counter = flags[Parent].counter
        /\ Held' <=> ~flags'[Parent].enabled
        /\ Spent'
    BY <1>1, <1>2, <2>1, <2>2, <2>3 DEF Becomes, Spent
  <2>5. /\ MustHaveEvent' /\ Whereabouts' /\ Justified' /\ Forgiven' /\ Buried'
        /\ Silent' /\ ReturnsInTime'
    BY <1>1, <1>2, <2>1, <2>2 DEF MustHaveEvent, Whereabouts, Justified, Forgiven, Buried, Silent,
       ReturnsInTime, Barrier, FirstOfAny, Gone
  <2>6. Counted' /\ ToldOnce'
    BY <1>1, <1>2, <2>1, <2>2, <2>4 DEF Counted, ToldOnce
  <2>7. Detachable'
    BY <1>1, <1>2, <1>3, <2>1, <2>2, <2>3, <2>4 DEF Detachable
  <2> QED
    BY <2>5, <2>6, <2>7
<1>6. CASE /\ Goes("acquired", "waiting") \/ Goes("deadacquired", "detaching")
           /\ ReleaseDoer
  <2>1. /\ Becomes(TRUE, TRUE, flags[Parent].raised, flags[Parent].counter)
        /\ UNCHANGED <<phase, seen>>
    BY <1>2, <1>3, <1>6, ReleaseEffect
  <2>2. /\ at' \in {"waiting", "detaching"} /\ ~Held' /\ ~Telling' /\ ~Gone' /\ Spent' /\ Over'
    BY <1>1, <1>2, <1>6 DEF Goes, Held, Telling, Gone, Spent, Over
  <2>3. /\ MustHaveEvent' /\ Whereabouts' /\ Justified' /\ Forgiven' /\ Buried'
        /\ Silent' /\ ReturnsInTime'
    BY <1>1, <1>2, <2>1, <2>2 DEF MustHaveEvent, Whereabouts, Justified, Forgiven, Buried, Silent,
       ReturnsInTime, Barrier, FirstOfAny, Gone
  <2>4. Counted' /\ ToldOnce'
    BY <1>1, <1>2, <2>1, <2>2 DEF Counted, ToldOnce
  <2>5. Detachable'
    BY <1>1, <1>2, <1>3, <2>1, <2>2 DEF Detachable, Becomes
  <2> QED
    BY <2>3, <2>4, <2>5
<1> QED
  BY <1>5, <1>6 DEF LastHere

LEMMA DetachKeeps ==
  ASSUME TypeOK, ResumedOnce, Rest, DetachDoers
  PROVE  Rest'
<1> USE DEF Rest
<1>1. /\ UNCHANGED <<scene, kid, made, kind, Sharers, Tellers>> /\ (Any' <=> Any)
      /\ UNCHANGED <<index, left, share, phase, seen>> /\ at = "detaching" /\ at' = "detached"
  BY Still DEF DetachDoers, Alones, Steps, Goes, Stays
<1>2. /\ JourneyTypeOK /\ kind = "DetachableAwaiter" /\ ~Any /\ ~Gone /\ ~Gone'
      /\ left.how = "no" /\ phase[Parent] = "running" /\ ~Telling /\ ~Telling'
  BY <1>1 DEF TypeOK, JourneyTypeOK, Whereabouts, Telling, Gone, Any, Counted
<1>3. Becomes(flags[Parent].done, flags[Parent].enabled, flags[Parent].raised,
              flags[Parent].counter + 1)
  BY <1>2, DetachEffect
<1>4. /\ flags[Parent].counter \in Nat /\ made.doer.counter \in Nat
      /\ flags[Parent].counter >= made.doer.counter
  <2>1. flags[Parent] \in Flags /\ made.doer \in DoerType
    BY <1>2, Alone DEF TypeOK, JourneyTypeOK
  <2> QED
    BY <1>2, <2>1 DEF Detachable, Flags, DoerType
<1>5. Overtaken'
  BY <1>1, <1>3, <1>4 DEF Overtaken, Becomes
<1>6. (Spent' <=> Spent) /\ (Held' <=> Held) /\ (Over' <=> Over)
  BY <1>1, <1>2 DEF Spent, Held, Over
<1>7. MustHaveEvent' /\ Whereabouts' /\ Forgiven' /\ Buried' /\ Silent' /\ ReturnsInTime' /\ Justified'
  BY <1>1, <1>2, <1>3 DEF MustHaveEvent, Whereabouts, Justified, Forgiven, Buried, Silent,
     ReturnsInTime, Barrier, FirstOfAny, Gone
<1>8. Counted' /\ ToldOnce'
  BY <1>1, <1>2, <1>3, <1>6 DEF Counted, ToldOnce, Becomes
<1>9. Detachable'
  <2>1. flags'[Parent].counter >= made'.doer.counter
    BY <1>1, <1>3, <1>4 DEF Becomes
  <2> QED
    BY <1>1, <1>2, <1>3, <1>5, <1>6, <2>1 DEF Detachable, Becomes
<1> QED
  BY <1>7, <1>8, <1>9

LEMMA ResetKeeps ==
  ASSUME TypeOK, ResumedOnce, Rest, ResetDone
  PROVE  Rest'
<1> USE DEF Rest
<1>1. /\ UNCHANGED <<scene, kid, made, kind, Sharers, Tellers>> /\ (Any' <=> Any)
      /\ UNCHANGED <<index, share, phase, seen>> /\ at = "detached" /\ at' = "left"
      /\ left'.how = "died" /\ left'.cut = Tellers
  BY Still DEF ResetDone, Alones, Steps, Goes, Leave
<1>2. /\ JourneyTypeOK /\ kind = "DetachableAwaiter" /\ ~Any /\ ~Gone /\ Gone'
      /\ left.how = "no" /\ phase[Parent] = "running" /\ ~Telling /\ ~Telling' /\ Overtaken
  BY <1>1 DEF TypeOK, JourneyTypeOK, Whereabouts, Telling, Gone, Any, Counted, Detachable
<1>3. Becomes(FALSE, flags[Parent].enabled, flags[Parent].raised, flags[Parent].counter)
  BY <1>2, DetachEffect
<1>4. (Spent' <=> Spent) /\ (Held' <=> Held) /\ (Over' <=> Over) /\ Overtaken'
  BY <1>1, <1>2, <1>3 DEF Spent, Held, Over, Overtaken, Becomes
<1>5. Tellers = {} => ~Held'
  BY <1>1, <1>4 DEF Held, Tellers
<1>6. /\ MustHaveEvent' /\ Whereabouts' /\ Forgiven' /\ Buried' /\ ReturnsInTime' /\ Justified'
  BY <1>1, <1>2, <1>3 DEF MustHaveEvent, Whereabouts, Justified, Forgiven, Buried,
     ReturnsInTime, Barrier, FirstOfAny, Gone
<1>7. Counted' /\ ToldOnce'
  BY <1>1, <1>2, <1>3, <1>4 DEF Counted, ToldOnce, Becomes
<1>8. Silent'
  BY <1>1, <1>2, <1>3, <1>4, <1>5 DEF Silent, Becomes
<1>9. Detachable'
  BY <1>1, <1>2, <1>3, <1>4 DEF Detachable, Becomes
<1> QED
  BY <1>6, <1>7, <1>8, <1>9

LEMMA SuspendKeeps ==
  ASSUME TypeOK, ResumedOnce, Rest, Suspend
  PROVE  Rest'
<1> USE DEF Rest
<1>1. /\ UNCHANGED <<scene, kid, made, kind, Sharers, Tellers>> /\ (Any' <=> Any)
      /\ UNCHANGED <<index, share, left, flags, seen>>
      /\ at = "waiting" /\ at' = IF kind = "Awaiter" THEN "woken" ELSE "handling"
  BY Still DEF Suspend, Alones, Steps, Goes, Stays, WaitForDone
<1>2. /\ phase'[Parent] = IF flags[Parent].done THEN "resumed" ELSE "yielded"
      /\ ~Gone /\ ~Gone' /\ ~Telling /\ ~Telling'
  BY <1>1, Alone DEF TypeOK, JourneyTypeOK, Suspend, WaitForDone, Moves, Telling, Gone
<1>3. (Spent' <=> Spent) /\ (Held' <=> Held) /\ (Over' <=> Over) /\ (Overtaken' <=> Overtaken)
  BY <1>1, <1>2 DEF Spent, Held, Over, Overtaken
<1>4. MustHaveEvent' /\ Whereabouts' /\ Forgiven' /\ Silent' /\ ReturnsInTime'
  BY <1>1, <1>2 DEF MustHaveEvent, Whereabouts, Forgiven, Silent, ReturnsInTime, Barrier,
     FirstOfAny, Gone
<1>5. Justified'
  BY <1>1, <1>2 DEF Justified, Verified
<1>6. Counted' /\ ToldOnce' /\ Buried'
  BY <1>1, <1>2, <1>3 DEF Counted, ToldOnce, Buried
<1>7. Detachable'
  BY <1>1, <1>2, <1>3 DEF Detachable
<1> QED
  BY <1>4, <1>5, <1>6, <1>7

LEMMA ForceKeeps ==
  ASSUME TypeOK, ResumedOnce, Rest, ForceDone
  PROVE  Rest'
<1> USE DEF Rest
<1>1. /\ UNCHANGED <<scene, kid, made, kind, Sharers, Tellers>> /\ (Any' <=> Any)
      /\ UNCHANGED <<index, share, left, seen>>
      /\ at = "woken" /\ at' \in {"forced", "handling"} /\ phase[Parent] = "resumed"
  BY Still DEF ForceDone, Alones, Steps, Goes
<1>2. /\ JourneyTypeOK /\ kind = "Awaiter"
      /\ ~Gone /\ ~Gone' /\ ~Telling /\ ~Telling' /\ ~Any
  BY <1>1 DEF TypeOK, JourneyTypeOK, Telling, Gone, Whereabouts, Any
<1>3. \/ /\ at' = "forced" /\ phase'[Parent] = "yielded"
         /\ Becomes(flags[Parent].done, FALSE, flags[Parent].raised, flags[Parent].counter)
      \/ /\ at' = "handling" /\ UNCHANGED <<flags, phase>> /\ flags[Parent].done
  <2>1. CASE Forced(flags[Parent])
    BY <1>2, <2>1, GuardEffect, Alone DEF ForceDone, Goes, JourneyTypeOK
  <2>2. CASE ~Forced(flags[Parent])
    BY <2>2 DEF ForceDone, Goes, Forced
  <2> QED
    BY <2>1, <2>2
<1>4. (Spent' <=> Spent) /\ (flags'[Parent].done <=> flags[Parent].done)
  BY <1>1, <1>2, <1>3 DEF Spent, Becomes
<1>5. MustHaveEvent' /\ Forgiven' /\ Silent' /\ ReturnsInTime' /\ Detachable' /\ Buried'
  BY <1>1, <1>2, <1>3 DEF MustHaveEvent, Forgiven, Silent, ReturnsInTime, Barrier,
     FirstOfAny, Gone, Detachable, Buried
<1>6. Whereabouts'
  BY <1>1, <1>2, <1>3 DEF Whereabouts, Gone, Becomes
<1>7. Justified'
  BY <1>1, <1>2, <1>3 DEF Justified, Verified
<1>8. Counted' /\ ToldOnce'
  BY <1>1, <1>2, <1>3, <1>4 DEF Counted, ToldOnce
<1> QED
  BY <1>5, <1>6, <1>7, <1>8

LEMMA UnforceKeeps ==
  ASSUME TypeOK, ResumedOnce, Rest, Unforce
  PROVE  Rest'
<1> USE DEF Rest
<1>1. /\ UNCHANGED <<scene, kid, made, kind, Sharers, Tellers>> /\ (Any' <=> Any)
      /\ UNCHANGED <<index, share, left, seen, phase>>
      /\ at = "forced" /\ at' = "handling" /\ phase[Parent] = "resumed"
  BY Still DEF Unforce, Alones, Steps, Goes, Stays
<1>2. /\ JourneyTypeOK /\ kind = "Awaiter" /\ ~flags[Parent].enabled
      /\ ~Gone /\ ~Gone' /\ ~Telling /\ ~Telling' /\ ~Any
  BY <1>1 DEF TypeOK, JourneyTypeOK, Telling, Gone, Whereabouts, Any
<1>3. flags[Parent].done
  BY <1>1, <1>2 DEF Justified, Verified
<1>4. flags'[Parent].done
  BY <1>2, <1>3, GuardEffect DEF Unforce
<1>5. Spent' <=> Spent
  BY <1>1, <1>2 DEF Spent
<1>6. MustHaveEvent' /\ Forgiven' /\ Silent' /\ ReturnsInTime' /\ Detachable' /\ Buried'
  BY <1>1, <1>2, <1>4 DEF MustHaveEvent, Forgiven, Silent, ReturnsInTime, Barrier,
     FirstOfAny, Gone, Detachable, Buried
<1>7. Whereabouts' /\ Justified'
  BY <1>1, <1>2, <1>4 DEF Whereabouts, Gone, Justified, Verified
<1>8. Counted' /\ ToldOnce'
  BY <1>1, <1>2, <1>3, <1>4, <1>5 DEF Counted, ToldOnce
<1> QED
  BY <1>6, <1>7, <1>8

LEMMA DyingKeeps ==
  ASSUME TypeOK, ResumedOnce, Rest, Dying
  PROVE  Rest'
<1> USE DEF Rest
<1>1. /\ UNCHANGED <<scene, kid, made, kind, Sharers, Tellers>> /\ (Any' <=> Any)
      /\ UNCHANGED <<index, share, left, seen, phase>>
      /\ at = "dying" /\ at' = "dead"
  BY Still DEF Dying, Alones, Steps, Goes
<1>2. /\ JourneyTypeOK /\ kind \in {"Awaiter", "Awaiter2"} /\ phase[Parent] = "running"
      /\ ~Gone /\ ~Gone' /\ ~Telling /\ ~Telling' /\ ~Any
  BY <1>1 DEF TypeOK, JourneyTypeOK, Telling, Gone, Whereabouts, Any
<1>3. Becomes(flags[Parent].done, FALSE, flags[Parent].raised, flags[Parent].counter)
  BY <1>2, GuardEffect DEF Dying
<1>4. Spent' <=> Spent
  BY <1>1, <1>2 DEF Spent
<1>5. MustHaveEvent' /\ Forgiven' /\ Silent' /\ ReturnsInTime' /\ Detachable' /\ Justified'
  BY <1>1, <1>2 DEF MustHaveEvent, Forgiven, Silent, ReturnsInTime, Barrier,
     FirstOfAny, Gone, Detachable, Justified
<1>6. Whereabouts'
  BY <1>1, <1>2, <1>3 DEF Whereabouts, Gone, Becomes
<1>7. Counted' /\ ToldOnce' /\ Buried'
  BY <1>1, <1>2, <1>3, <1>4 DEF Counted, ToldOnce, Buried, Becomes
<1> QED
  BY <1>5, <1>6, <1>7

LEMMA DeadKeeps ==
  ASSUME TypeOK, ResumedOnce, Rest, Dead
  PROVE  Rest'
<1> USE DEF Rest
<1>1. /\ UNCHANGED <<scene, kid, made, kind, Sharers, Tellers>> /\ (Any' <=> Any)
      /\ UNCHANGED <<index, left, seen, flags>> /\ ~share'
      /\ at = "dead" /\ at' \in {"unguarding", "burying"}
  BY Still DEF Dead, Alones, Steps, Goes, journeyVars, WaitForDone
<1>2. /\ JourneyTypeOK /\ kind \in {"Awaiter", "Awaiter2"} /\ ~flags[Parent].enabled
      /\ phase[Parent] = "running"
      /\ ~Gone /\ ~Gone' /\ ~Telling /\ ~Telling' /\ ~Any
      /\ kind = "Awaiter2" => (share <=> left.how = "no")
      /\ kind = "Awaiter" => ~share
  BY <1>1 DEF TypeOK, JourneyTypeOK, Telling, Gone, Whereabouts, Any, Counted
<1>3. \/ at' = "unguarding" /\ NothingLeft /\ phase' = phase
      \/ at' = "burying" /\ ~NothingLeft
         /\ phase'[Parent] = IF flags[Parent].done THEN "resumed" ELSE "yielded"
  <2>1. CASE NothingLeft
    BY <2>1 DEF Dead, Goes, journeyVars
  <2>2. CASE ~NothingLeft
    BY <1>2, <2>2, Alone DEF Dead, Goes, WaitForDone, Moves, JourneyTypeOK
  <2> QED
    BY <2>1, <2>2
<1>4. (Spent' <=> Sharers = {}) /\ (Spent => Spent')
  BY <1>1, <1>2 DEF Spent
<1>5. NothingLeft /\ left.how # "threw" => Over' /\ ~flags[Parent].done
  <2> SUFFICES ASSUME NothingLeft, left.how # "threw"
               PROVE  Over' /\ ~flags[Parent].done
    OBVIOUS
  <2>1. left.how = "no"
    BY <1>2 DEF Whereabouts, TypeOK
  <2>2. share /\ ~Spent
    BY <1>2, <2>1 DEF NothingLeft, Spent
  <2>3. Tellers = {} /\ ~flags[Parent].done
    BY <2>2 DEF ToldOnce
  <2> QED
    BY <1>1, <1>2, <1>4, <2>3 DEF Over, NothingLeft
<1>6. MustHaveEvent' /\ Silent' /\ ReturnsInTime' /\ Detachable' /\ Forgiven'
  BY <1>1, <1>2, <1>3 DEF MustHaveEvent, Forgiven, Silent, ReturnsInTime, Barrier,
     FirstOfAny, Gone, Detachable, NothingLeft
<1>7. Justified'
  BY <1>1, <1>2, <1>3 DEF Justified, Verified
<1>8. Whereabouts'
  BY <1>1, <1>2, <1>3 DEF Whereabouts, Gone
<1>9. Counted' /\ ToldOnce'
  BY <1>1, <1>2, <1>3, <1>4 DEF Counted, ToldOnce
<1>10. Buried'
  BY <1>1, <1>2, <1>3, <1>4, <1>5 DEF Buried, NothingLeft
<1> QED
  BY <1>6, <1>7, <1>8, <1>9, <1>10

LEMMA UnguardKeeps ==
  ASSUME TypeOK, ResumedOnce, Rest, Unguarding
  PROVE  Rest'
<1> USE DEF Rest
<1>1. /\ UNCHANGED <<scene, kid, made, kind, Sharers, Tellers>> /\ (Any' <=> Any)
      /\ UNCHANGED <<index, share, seen, phase>>
      /\ at = "unguarding" /\ at' = "left"
  BY Still DEF Unguarding, Alones, Steps, Goes
<1>2. /\ JourneyTypeOK /\ kind \in {"Awaiter", "Awaiter2"} /\ phase[Parent] = "running"
      /\ ~Gone /\ Gone' /\ ~Telling /\ ~Telling' /\ ~Any
      /\ left \in [how : {"no", "returned", "threw", "died"}, cut : SUBSET Kids]
      /\ left.how \in {"no", "threw"}
  BY <1>1 DEF TypeOK, JourneyTypeOK, Telling, Gone, Whereabouts, Any
<1>3. /\ left'.how = IF left.how = "no" THEN "died" ELSE left.how
      /\ left'.cut = left.cut \cup Tellers
  BY <1>2 DEF Unguarding
<1>4. flags'[Parent].done = flags[Parent].done
  BY <1>2, GuardEffect DEF Unguarding
<1>5. (Spent' <=> Spent) /\ (Over' <=> Over)
  BY <1>1, <1>2 DEF Spent, Over
<1>6. MustHaveEvent' /\ Whereabouts' /\ ReturnsInTime' /\ Detachable' /\ Justified'
  BY <1>1, <1>2, <1>3 DEF MustHaveEvent, Whereabouts, ReturnsInTime, Barrier,
     FirstOfAny, Gone, Detachable, Justified
<1>7. Counted' /\ ToldOnce'
  BY <1>1, <1>2, <1>3, <1>4, <1>5 DEF Counted, ToldOnce
<1>8. Forgiven' /\ Buried'
  BY <1>1, <1>2, <1>3, <1>4, <1>5 DEF Forgiven, Buried, Over
<1>9. Silent'
  BY <1>1, <1>2, <1>3, <1>4, <1>5 DEF Silent, Forgiven, Buried
<1> QED
  BY <1>6, <1>7, <1>8, <1>9

LEMMA HandleKeeps ==
  ASSUME TypeOK, ResumedOnce, Rest, Handle
  PROVE  Rest'
<1> USE DEF Rest
<1>1. /\ UNCHANGED <<scene, kid, made, kind, Sharers, Tellers>> /\ (Any' <=> Any)
      /\ UNCHANGED <<index, share, left, flags, at>>
      /\ at \in {"handling", "burying"}
  BY Still DEF Handle, Alones, Steps, Goes, Load, Stays
<1>2. /\ phase[Parent] = "resumed" /\ phase'[Parent] = "handling"
      /\ seen'[Parent] = flags[Parent]
      /\ ~Gone /\ ~Gone' /\ ~Telling /\ ~Telling'
  BY <1>1, Alone DEF TypeOK, JourneyTypeOK, Handle, Load, Moves, Telling, Gone
<1>3. (Spent' <=> Spent) /\ (Held' <=> Held) /\ (Over' <=> Over) /\ (Overtaken' <=> Overtaken)
  BY <1>1, <1>2 DEF Spent, Held, Over, Overtaken
<1>4. MustHaveEvent' /\ Justified'
  BY <1>1, <1>2 DEF MustHaveEvent, Justified, Verified
<1>5. Whereabouts' /\ ReturnsInTime' /\ Silent' /\ Forgiven'
  BY <1>1, <1>2 DEF Whereabouts, ReturnsInTime, Barrier, FirstOfAny, Gone, Silent, Forgiven
<1>6. Counted' /\ ToldOnce' /\ Buried'
  BY <1>1, <1>2, <1>3 DEF Counted, ToldOnce, Buried
<1>7. Detachable'
  BY <1>1, <1>2, <1>3 DEF Detachable
<1> QED
  BY <1>4, <1>5, <1>6, <1>7

LEMMA ReturnKeeps ==
  ASSUME TypeOK, ResumedOnce, Rest, Return
  PROVE  Rest'
<1> USE DEF Rest
<1>1. /\ UNCHANGED <<scene, kid, made, kind, Sharers, Tellers>> /\ (Any' <=> Any)
      /\ UNCHANGED <<index, share>>
      /\ \/ at = "handling" /\ at' = "left" /\ left'.how = "returned" /\ left'.cut = Tellers
         \/ at = "burying" /\ at' = "unguarding" /\ left' = left
  BY Still DEF Return, Alones, Steps, Goes, Leave
<1>2. /\ JourneyTypeOK /\ phase[Parent] = "handling" /\ phase'[Parent] = "running"
      /\ seen[Parent].done
      /\ ~Gone /\ (Gone' <=> at' = "left") /\ ~Telling'
      /\ Becomes(FALSE, flags[Parent].enabled, flags[Parent].raised, flags[Parent].counter)
  <2>1. JourneyTypeOK /\ Returns(Parent)
    BY DEF TypeOK, JourneyTypeOK, Return
  <2>2. seen[Parent].done
    BY <2>1 DEF Returns, Verified
  <2> QED
    BY <1>1, <2>1, <2>2, EndEffect DEF Gone, Telling
<1>3. /\ Spent /\ Tellers = {} /\ Over /\ Spent' /\ Over' /\ (Overtaken' <=> Overtaken)
      /\ ~share \/ Any
  BY <1>1, <1>2 DEF ToldOnce, Spent, Over, Overtaken, Becomes
<1>4. Held' <=> Held
  BY <1>1 DEF Held
<1>5. MustHaveEvent' /\ Justified' /\ Silent' /\ Forgiven'
  BY <1>1, <1>2, <1>3 DEF MustHaveEvent, Justified, Silent, Forgiven, Becomes
<1>6. Whereabouts'
  BY <1>1, <1>2 DEF Whereabouts, Gone, Becomes
<1>7. ReturnsInTime'
  BY <1>1, <1>2, <1>3 DEF ReturnsInTime, Barrier, FirstOfAny, Spent, Counted, TypeOK
<1>8. Counted'
  BY <1>1, <1>2, <1>3 DEF Counted
<1>9. ToldOnce' /\ Buried'
  BY <1>1, <1>2, <1>3 DEF ToldOnce, Buried, Becomes
<1>10. Detachable'
  BY <1>1, <1>2, <1>3, <1>4 DEF Detachable, Becomes
<1> QED
  BY <1>5, <1>6, <1>7, <1>8, <1>9, <1>10

LEMMA ThrowKeeps ==
  ASSUME TypeOK, ResumedOnce, Rest, Throw
  PROVE  Rest'
<1> USE DEF Rest
<1>1. /\ UNCHANGED <<scene, kid, made, kind, Sharers, Tellers>> /\ (Any' <=> Any)
      /\ UNCHANGED <<index, share>> /\ at = "handling"
      /\ at' = IF kind = "Awaiter2" THEN "dying" ELSE "left"
      /\ left'.how = "threw" /\ left'.cut = Tellers
  BY Still DEF Throw, Alones, Steps, Goes, Leave
<1>2. /\ JourneyTypeOK /\ phase[Parent] = "handling" /\ phase'[Parent] = "running"
      /\ ~Gone /\ (Gone' <=> at' = "left") /\ ~Telling' /\ ~Telling /\ ~share /\ left.how = "no"
  <2>1. JourneyTypeOK /\ (ThrowsEvent(Parent) \/ ThrowsError(Parent))
    BY DEF TypeOK, JourneyTypeOK, Throw, Throws
  <2>2. left.how = "no"
    BY <1>1 DEF TypeOK, Whereabouts, Gone
  <2>3. ~share
    BY <1>1 DEF TypeOK, Counted
  <2> QED
    BY <1>1, <2>1, <2>2, <2>3, EndEffect DEF Gone, Telling
<1>3. \/ /\ ThrowsEvent(Parent) /\ seen[Parent].enabled /\ seen[Parent].raised # {}
         /\ ~flags'[Parent].done /\ flags'[Parent].enabled = flags[Parent].enabled
         /\ flags'[Parent].raised \subseteq flags[Parent].raised
         /\ flags'[Parent].counter = flags[Parent].counter
      \/ kind = "DetachableAwaiter" /\ made.early /\ flags' = flags
  <2>1. CASE ThrowsEvent(Parent)
    BY <1>2, <2>1, EndEffect DEF ThrowsEvent
  <2>2. CASE ThrowsError(Parent)
    BY <1>2, <2>2 DEF ThrowsError, MustHaveEvent, Justified
  <2> QED
    BY <2>1, <2>2 DEF Throw, Throws
<1>4. (Spent' <=> Spent) /\ (Held' <=> Held) /\ (Over' <=> Over) /\ (Overtaken' <=> Overtaken)
  BY <1>1, <1>2, <1>3 DEF Spent, Held, Over, Overtaken
<1>5. kind = "Awaiter" => Over
  BY <1>1, <1>2 DEF Forgiven, ToldOnce, Over
<1>6. kind = "DetachableAwaiter" /\ ~made.early => Overtaken \/ Over
  BY <1>2, <1>3 DEF Detachable
<1>7. Tellers = {} => ~Held
  BY <1>1 DEF Held, Tellers
<1>8. MustHaveEvent' /\ Justified' /\ ReturnsInTime'
  BY <1>1, <1>2 DEF MustHaveEvent, Justified, ReturnsInTime, Barrier, FirstOfAny
<1>9. Whereabouts'
  BY <1>1, <1>2 DEF Whereabouts, Gone
<1>10. Counted'
  BY <1>1, <1>2, <1>4 DEF Counted
<1>11. ToldOnce' /\ Buried'
  BY <1>1, <1>2, <1>3, <1>4 DEF ToldOnce, Buried
<1>12. Forgiven' /\ Silent'
  BY <1>1, <1>2, <1>3, <1>4, <1>5, <1>6, <1>7 DEF Silent, Forgiven
<1>13. Detachable'
  <2>1. kind = "DetachableAwaiter" /\ flags'[Parent].raised # {} => flags[Parent].raised # {}
    BY <1>3
  <2> QED
    BY <1>1, <1>2, <1>3, <1>4, <2>1 DEF Detachable
<1> QED
  BY <1>8, <1>9, <1>10, <1>11, <1>12, <1>13

LEMMA EventKeeps ==
  ASSUME TypeOK, ResumedOnce, Rest, Event
  PROVE  Rest'
<1> USE DEF Rest
<1>1. /\ UNCHANGED <<scene, kid, made, kind, Sharers, Tellers>> /\ (Any' <=> Any)
      /\ UNCHANGED <<index, share, left, at, phase, seen>>
  BY Still DEF Event, Alones, Raise, waitingVars
<1>2. /\ JourneyTypeOK /\ flags[Parent].counter \in Nat /\ made.doer.counter \in Nat
  <2>1. JourneyTypeOK /\ flags[Parent] \in Flags /\ made.doer \in DoerType
    BY Alone DEF TypeOK, JourneyTypeOK
  <2> QED
    BY <2>1 DEF Flags, DoerType
<1>3. PICK event \in {"cancelled", "timedout"} : Raise(Parent, event)
  BY DEF Event
<1>4. /\ flags'[Parent].done = flags[Parent].done /\ flags'[Parent].enabled = flags[Parent].enabled
      /\ flags'[Parent].raised # {}
      /\ flags[Parent].enabled => flags'[Parent].counter = flags[Parent].counter + 1
      /\ ~flags[Parent].enabled => /\ flags'[Parent].counter = flags[Parent].counter
                                   /\ flags'[Parent].entered = flags[Parent].entered
  BY <1>2, <1>3, Alone, RaiseParts
<1>5. /\ (Spent' <=> Spent) /\ (Held' <=> Held) /\ (Over' <=> Over) /\ (Gone' <=> Gone)
      /\ (Telling' <=> Telling) /\ (Overtaken => Overtaken')
  BY <1>1, <1>2, <1>4 DEF Spent, Held, Over, Gone, Telling, Overtaken
<1>6. MustHaveEvent' /\ Whereabouts' /\ Forgiven' /\ ReturnsInTime'
  BY <1>1, <1>4, <1>5 DEF MustHaveEvent, Whereabouts, Forgiven, ReturnsInTime, Barrier, FirstOfAny
<1>7. Counted' /\ ToldOnce' /\ Buried'
  BY <1>1, <1>4, <1>5 DEF Counted, ToldOnce, Buried
<1>8. Justified'
  <2>1. CASE flags[Parent].enabled
    BY <1>1, <1>4, <2>1 DEF Justified, Verified
  <2>2. CASE ~flags[Parent].enabled
    BY <1>1, <1>4, <2>2 DEF Justified, Verified
  <2> QED
    BY <2>1, <2>2
<1>9. Silent'
  BY <1>1, <1>4, <1>5 DEF Silent
<1>10. Detachable'
  <2> SUFFICES ASSUME kind = "DetachableAwaiter"
               PROVE  Detachable'
    BY <1>1 DEF Detachable
  <2>1. CASE flags[Parent].enabled
    <3>1. Overtaken' /\ ~Held
      BY <1>1, <1>2, <1>4, <2>1 DEF Detachable, Overtaken
    <3>2. flags'[Parent].counter >= made'.doer.counter
      BY <1>1, <1>2, <1>4, <2>1 DEF Detachable
    <3> QED
      BY <1>1, <1>4, <1>5, <2>1, <3>1, <3>2 DEF Detachable
  <2>2. CASE ~flags[Parent].enabled
    BY <1>1, <1>4, <1>5, <2>2 DEF Detachable, Overtaken
  <2> QED
    BY <2>1, <2>2
<1> QED
  BY <1>6, <1>7, <1>8, <1>9, <1>10

LEMMA CoroutineKeeps ==
  ASSUME TypeOK, ResumedOnce, Rest, Coroutine
  PROVE  Rest'
<1> USE DEF Rest
<1>1. JourneyTypeOK
  BY DEF TypeOK, JourneyTypeOK
<1>2. /\ UNCHANGED <<scene, kid, made, kind, Sharers, Tellers>> /\ (Any' <=> Any)
      /\ UNCHANGED <<index, share, left, at, seen>>
  BY <1>1, Still, SleepEffect DEF Alones, waitingVars
<1>3. /\ Becomes(flags[Parent].done, flags[Parent].enabled,
                 flags[Parent].raised, flags[Parent].counter)
      /\ \/ /\ phase[Parent] = "yielded" /\ phase'[Parent] = "suspended"
            /\ flags'[Parent].entered => MayProceed(flags[Parent])
         \/ /\ phase[Parent] = "suspended" /\ phase'[Parent] = "resumed"
            /\ flags[Parent].entered
  BY <1>1, SleepEffect
<1>4. /\ (Spent' <=> Spent) /\ (Held' <=> Held) /\ (Over' <=> Over) /\ (Gone' <=> Gone)
      /\ (Telling' <=> Telling) /\ (Overtaken' <=> Overtaken)
  BY <1>2, <1>3 DEF Spent, Held, Over, Gone, Telling, Overtaken, Becomes
<1>5. MustHaveEvent' /\ Whereabouts' /\ Forgiven' /\ ReturnsInTime' /\ Silent'
  BY <1>2, <1>3, <1>4 DEF MustHaveEvent, Whereabouts, Forgiven, ReturnsInTime, Barrier, FirstOfAny,
     Silent, Becomes
<1>6. Counted' /\ ToldOnce' /\ Buried'
  BY <1>2, <1>3, <1>4 DEF Counted, ToldOnce, Buried, Becomes
<1>7. Justified'
  BY <1>2, <1>3 DEF Justified, Verified, MayProceed, Becomes
<1>8. Detachable'
  BY <1>2, <1>3, <1>4 DEF Detachable, Becomes
<1> QED
  BY <1>5, <1>6, <1>7, <1>8

-----------------------------------------------------------------------------
LEMMA InitInv == Init => WaitingInv
<1> SUFFICES ASSUME Init
             PROVE  WaitingInv
  OBVIOUS
<1>1. /\ NewFlags \in Flags /\ ~NewFlags.done /\ NewFlags.raised = {} /\ NewFlags.counter = 0
      /\ NewFlags.enabled /\ NewFlags.entered
  BY DEF NewFlags, Flags
<1>2. /\ JourneyTypeOK /\ ResumedOnce /\ flags[Parent] = NewFlags /\ phase[Parent] = "running"
      /\ seen[Parent] = NewFlags
  BY <1>1, Alone DEF Init, Started, JourneyTypeOK, ResumedOnce, Phase
<1>3. /\ made.doer.who = Parent /\ made.doer.enabled /\ made.doer.counter = 0 /\ ~made.early
      /\ made \in [doer : DoerType, early : BOOLEAN]
  <2>1. Doer(Parent) \in DoerType
    BY <1>2, Alone, DoerTyped
  <2>2. made = [doer |-> Doer(Parent), early |-> FALSE]
    BY DEF Init
  <2> QED
    BY <1>1, <1>2, <2>1, <2>2 DEF Doer
<1>4. /\ scene \in [kind : Kinds, stuck : SUBSET Kids, fails : SUBSET Kids]
      /\ kid = [k \in Kids |-> "new"] /\ at = "going" /\ (share <=> kind # "goAnyWait")
      /\ share \in BOOLEAN
      /\ index = Nobody /\ left = [how |-> "no", cut |-> {}]
  BY DEF Init
<1>5. TypeOK
  BY <1>2, <1>3, <1>4 DEF TypeOK
<1>6. /\ Sharers = {} /\ Tellers = {} /\ ~Telling /\ ~Gone /\ ~Held /\ ~Spent
      /\ index \notin Kids \cup {NoKid}
  BY <1>4, WaitingAssumption DEF Sharers, Tellers, Telling, Gone, Held, Spent, Any
<1>7. MustHaveEvent /\ Whereabouts /\ Justified /\ Forgiven /\ Silent /\ ReturnsInTime
  BY <1>1, <1>2, <1>4, <1>6 DEF MustHaveEvent, Whereabouts, Justified, Forgiven, Silent,
     ReturnsInTime, Barrier, FirstOfAny, Verified
<1>8. Counted /\ ToldOnce /\ Buried
  BY <1>1, <1>2, <1>4, <1>6 DEF Counted, ToldOnce, Buried
<1>9. Detachable
  BY <1>1, <1>2, <1>3, <1>4, <1>6 DEF Detachable
<1> QED
  BY <1>2, <1>5, <1>7, <1>8, <1>9 DEF WaitingInv

LEMMA NextInv == WaitingInv /\ [Next]_vars => WaitingInv'
<1> SUFFICES ASSUME WaitingInv, [Next]_vars
             PROVE  WaitingInv'
  OBVIOUS
<1>1. TypeOK /\ ResumedOnce /\ Rest
  BY DEF WaitingInv, Rest
<1>2. ASSUME TypeOK', ResumedOnce', Rest'
      PROVE  WaitingInv'
  BY <1>2 DEF WaitingInv, Rest
<1>3. ASSUME NEW k \in Kids, Go(k) \/ Kid(k)
      PROVE  TypeOK' /\ ResumedOnce' /\ Rest'
  <2>1. TypeOK' /\ ResumedOnce'
    BY <1>1, <1>3, KidTyped
  <2> QED
    BY <1>1, <1>3, <2>1, GoKeeps, FinishKeeps, ClaimKeeps, DropKeeps, TellFirstKeeps,
       TellLastKeeps, AcquireKeeps, ReleaseKeeps DEF Kid
<1>4. ASSUME Alones
      PROVE  TypeOK' /\ ResumedOnce' /\ Rest'
  <2>1. TypeOK' /\ ResumedOnce'
    BY <1>1, <1>4, ParentTyped
  <2>2. Rest'
    BY <1>1, <1>4, WaitKeeps, AbandonKeeps, EventKeeps, CoroutineKeeps, LastHereKeeps, DetachKeeps,
       ResetKeeps, SuspendKeeps, ForceKeeps, UnforceKeeps, DyingKeeps, DeadKeeps, UnguardKeeps,
       HandleKeeps, ReturnKeeps, ThrowKeeps DEF Alones, Steps
  <2> QED
    BY <2>1, <2>2
<1>5. ASSUME UNCHANGED vars
      PROVE  TypeOK' /\ ResumedOnce' /\ Rest'
  <2>1. /\ UNCHANGED journeyVars /\ UNCHANGED <<flags, phase, seen, ready, kept, events>>
        /\ UNCHANGED <<scene, kid, at, share, index, made, asked, left>>
    BY <1>5 DEF vars, journeyVars, waitingVars
  <2>2. TypeOK' /\ ResumedOnce'
    BY <1>1, <2>1 DEF TypeOK, JourneyTypeOK, ResumedOnce
  <2>3. /\ UNCHANGED <<kind, Sharers, Tellers>> /\ (Any' <=> Any) /\ (Gone' <=> Gone)
        /\ (Telling' <=> Telling) /\ (Held' <=> Held) /\ (Overtaken' <=> Overtaken)
    BY <2>1, KindKept DEF Sharers, Tellers, Gone, Telling, Held, Overtaken
  <2>4. (Spent' <=> Spent) /\ (Over' <=> Over)
    BY <2>1, <2>3 DEF Spent, Over
  <2>5. MustHaveEvent' /\ Whereabouts' /\ Justified' /\ Forgiven' /\ Silent' /\ ReturnsInTime'
    BY <1>1, <2>1, <2>3, <2>4 DEF Rest, MustHaveEvent, Whereabouts, Justified, Forgiven, Silent,
       ReturnsInTime, Barrier, FirstOfAny
  <2>6. Counted' /\ ToldOnce' /\ Buried' /\ Detachable'
    BY <1>1, <2>1, <2>3, <2>4 DEF Rest, Counted, ToldOnce, Buried, Detachable
  <2> QED
    BY <2>2, <2>5, <2>6 DEF Rest
<1>6. Next => Alones \/ \E k \in Kids : Go(k) \/ Kid(k)
  BY DEF Next, Alones
<1> QED
  BY <1>2, <1>3, <1>4, <1>5, <1>6

(* The runtime can rely on all of WaitingInv: the count goes to zero once, *)
(* and Done is set once and never early.  The VERIFYs of handleEvents()    *)
(* hold in a wait on a plain Doer, and in that of a DetachableAwaiter if   *)
(* no event came before its doer was made.                                 *)
THEOREM WaitingHolds == Spec => []WaitingInv
<1> QED
  BY InitInv, NextInv, PTL DEF Spec

(* A wait for all never returns before the last child that was started is  *)
(* finished, and goAnyWait and goAnyResult return the first that did not   *)
(* throw, however the completers' counts and the events interleave.        *)
THEOREM WaitReturnsInTime == Spec => []ReturnsInTime
<1>1. WaitingInv => ReturnsInTime
  BY DEF WaitingInv
<1> QED
  BY <1>1, WaitingHolds, PTL

(* ~Awaiter() and ~Awaiter2() never let the children outlive what they     *)
(* use, but for the last child of an Awaiter2 that an event ended.         *)
THEOREM DestructorsOutlive == Spec => []Outlives
<1>1. ASSUME WaitingInv
      PROVE  Outlives
  <2> SUFFICES ASSUME Gone
               PROVE  Outlives
    BY DEF Outlives
  <2>1. TypeOK /\ Forgiven /\ Buried /\ left.cut \subseteq Kids
    BY <1>1 DEF WaitingInv, TypeOK
  <2>2. kind = "Awaiter" => Sharers \cup Tellers = {}
    BY <2>1 DEF Forgiven, Gone, Over, Spent, Any
  <2>3. kind = "Awaiter2" => Sharers = {}
    BY <2>1 DEF Buried, Gone, Spent, Any
  <2>4. ASSUME kind = "Awaiter2", left.cut # {}
        PROVE  left.how = "threw" /\ Cardinality(left.cut) = 1
    <3>1. PICK k \in Kids : k \in left.cut
      BY <2>1, <2>4
    <3>2. left.cut = {k}
      BY <2>1, <2>4, <3>1 DEF Buried
    <3> QED
      BY <2>1, <2>4, <3>2, FS_Singleton DEF Buried
  <2> QED
    BY <2>2, <2>3, <2>4 DEF Outlives
<1> QED
  BY <1>1, WaitingHolds, PTL

(* A parent that has left is not told any more, so that no later wait of   *)
(* its own ends early: detachDoers() and the reset of Done do what they    *)
(* are for, but for the holes that LeavesNothing names.                    *)
THEOREM NothingIsLeft == Spec => []LeavesNothing
<1>1. WaitingInv => LeavesNothing
  BY DEF WaitingInv, Silent, LeavesNothing
<1> QED
  BY <1>1, WaitingHolds, PTL
=============================================================================
