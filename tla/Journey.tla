------------------------------- MODULE Journey -------------------------------
(***************************************************************************)
(* Journeys (coroutines) that wait: src/journey.cpp, the Journey and its   *)
(* JourneyState, and the doers of src/oers.cpp.                            *)
(*                                                                         *)
(* This module has the operations; the modules that extend it have the     *)
(* programs that use them.  Each operation is called by some thread of the *)
(* pool, and all of them work on one atomic word of flags, so what happens *)
(* to that word in one instruction is one action.  The instruction that    *)
(* sets Entered and the scheduling of proceed0() after it are one action,  *)
(* too: nobody else schedules a journey whose Entered flag is set.         *)
(***************************************************************************)
EXTENDS Integers, Sequences

CONSTANTS
  Journeys,   \* the coroutines
  MaxEvents   \* bound: how often somebody calls cancel() or timedout()

ASSUME JourneyAssumption == MaxEvents \in Nat

VARIABLES
  flags,   \* flags[j]: the word state_, its parts named
  phase,   \* phase[j]: where the coroutine is on its way through a wait
  seen,    \* seen[j]: what handleEvents() loaded, NewFlags outside of it
  ready,   \* ready[j]: how many calls of proceed0() are scheduled
  kept,    \* kept[j]: what a DtorEventsGuard that is there remembers
  events   \* how many events were raised so far

journeyVars == <<flags, phase, seen, ready, kept, events>>

-----------------------------------------------------------------------------
Flags == [entered : BOOLEAN, enabled : BOOLEAN, done : BOOLEAN,
          raised : SUBSET {"cancelled", "timedout"}, counter : Nat]

NewFlags == [entered |-> TRUE, enabled |-> TRUE, done |-> FALSE,
             raised |-> {}, counter |-> 0]

(* A journey runs; or has yielded, with proceed0() still on its way out;   *)
(* or is suspended; or goes on in waitForDone() behind the suspension; or  *)
(* is in handleEvents(), the flags loaded; or has ended.                   *)
Phase == {"running", "yielded", "suspended", "resumed", "handling", "ended"}

(* The journeys of J run, the others have ended; n events were raised.     *)
Started(J, n) ==
  /\ flags = [j \in Journeys |-> NewFlags]
  /\ phase = [j \in Journeys |-> IF j \in J THEN "running" ELSE "ended"]
  /\ seen = [j \in Journeys |-> NewFlags]
  /\ ready = [j \in Journeys |-> 0]
  /\ kept = [j \in Journeys |-> "nothing"]
  /\ events = n

(* With events or without any.                                             *)
JourneyInit == \E n \in {0, MaxEvents + 1} : Started(Journeys, n)

(* Nobody raises events, from a start with more of them than the bound.    *)
Calm == events > MaxEvents

(* The flags of j become f, with Entered: whoever sets it proceeds.        *)
Enter(j, f) ==
  /\ flags' = [flags EXCEPT ![j] = [f EXCEPT !.entered = TRUE]]
  /\ ready' = [ready EXCEPT ![j] = IF flags[j].entered THEN @ ELSE @ + 1]

Done(j) == Enter(j, [flags[j] EXCEPT !.done = TRUE])

(* cancel() and timedout().  While events are disabled they only leave     *)
(* their flag.                                                             *)
Raise(j, event) ==
  LET f == [flags[j] EXCEPT !.raised = @ \cup {event}]
  IN  /\ events < MaxEvents
      /\ events' = events + 1
      /\ \/ /\ flags[j].enabled
            /\ Enter(j, [f EXCEPT !.counter = @ + 1])
         \/ /\ ~flags[j].enabled
            /\ flags' = [flags EXCEPT ![j] = f]
            /\ UNCHANGED ready
      /\ UNCHANGED <<phase, seen, kept>>

-----------------------------------------------------------------------------
(* A DetachableDoer made now by j.                                         *)
Doer(j) == [who |-> j, counter |-> flags[j].counter, enabled |-> flags[j].enabled]

(* A slip: it succeeds for a journey that had an event, too.               *)
AcquirableAnyway(d) == TRUE

(* acquire() succeeds when no event was raised since the doer was made ... *)
Acquirable(d) == d.enabled => flags[d.who].counter = d.counter

(* ... and then keeps further ones from being raised.                      *)
Disabled(d) ==
  [flags[d.who] EXCEPT !.enabled = IF d.enabled THEN FALSE ELSE @]

(* A slip: events are enabled again, but nobody is told.                   *)
ReleaseOnly(d) == Enter(d.who, [flags[d.who] EXCEPT !.enabled = @ \/ d.enabled])

ReleaseAndDone(d) ==
  Enter(d.who, [flags[d.who] EXCEPT !.done = TRUE, !.enabled = @ \/ d.enabled])

-----------------------------------------------------------------------------
Moves(j, from, to) == phase[j] = from /\ phase' = [phase EXCEPT ![j] = to]

(* waitForDone() up to the suspension, if there is need of one.            *)
WaitForDone(j) ==
  /\ Moves(j, "running", IF flags[j].done THEN "resumed" ELSE "yielded")
  /\ UNCHANGED <<flags, seen, ready, kept, events>>

(* reschedule() up to the suspension.                                      *)
Reschedule(j) ==
  /\ Moves(j, "running", "yielded")
  /\ Done(j)
  /\ UNCHANGED <<seen, kept, events>>

(* Slips in mayProceed(): what happened on the way into the suspension is  *)
(* forgotten, or only the events are; or events count though disabled.     *)
MayProceedNever(f) == FALSE
MayProceedDone(f) == f.done
MayProceedRaised(f) == f.done \/ f.raised # {}

MayProceed(f) == f.done \/ (f.enabled /\ f.raised # {})

(* resetEnteredAndCheckEvents(): something came while j was still Entered  *)
(* and nobody proceeded, or else the next one to come has to.              *)
ResetEntered(j) ==
  /\ Moves(j, "yielded", "suspended")
  /\ IF MayProceed(flags[j])
       THEN /\ ready' = [ready EXCEPT ![j] = @ + 1]
            /\ UNCHANGED flags
       ELSE /\ flags' = [flags EXCEPT ![j].entered = FALSE]
            /\ UNCHANGED ready
  /\ UNCHANGED <<seen, kept, events>>

(* proceed0() resumes the coroutine.                                       *)
Proceed0(j) ==
  /\ ready[j] > 0
  /\ ready' = [ready EXCEPT ![j] = @ - 1]
  /\ phase' = [phase EXCEPT ![j] = "resumed"]
  /\ UNCHANGED <<flags, seen, kept, events>>

(* handleEvents() loads the flags ...                                      *)
Load(j) ==
  /\ Moves(j, "resumed", "handling")
  /\ seen' = [seen EXCEPT ![j] = flags[j]]
  /\ UNCHANGED <<flags, ready, kept, events>>

(* A slip: handleEvents() without its VERIFYs.                             *)
VerifiedAlways(f) == TRUE

(* ... and its two VERIFYs look at them.                                   *)
Verified(f) == f.done \/ (f.enabled /\ f.raised # {})

Handled(j) ==
  /\ Moves(j, "handling", "running")
  /\ seen' = [seen EXCEPT ![j] = NewFlags]

(* A slip: Done is not reset behind the wait.                              *)
ReturnsDone(j) ==
  /\ Handled(j)
  /\ Verified(seen[j])
  /\ ~(seen[j].enabled /\ seen[j].raised # {})
  /\ UNCHANGED <<flags, ready, kept, events>>

(* Then it returns, ...                                                    *)
Returns(j) ==
  /\ Handled(j)
  /\ Verified(seen[j])
  /\ ~(seen[j].enabled /\ seen[j].raised # {})
  /\ flags' = [flags EXCEPT ![j].done = FALSE]
  /\ UNCHANGED <<ready, kept, events>>

(* ... or throws the event; a cancellation swallows a timeout; ...         *)
ThrowsEvent(j) ==
  LET left == IF "cancelled" \in seen[j].raised
                THEN {} ELSE flags[j].raised \ {"timedout"}
  IN  /\ Handled(j)
      /\ seen[j].enabled
      /\ seen[j].raised # {}
      /\ flags' = [flags EXCEPT ![j].done = FALSE, ![j].raised = left]
      /\ UNCHANGED <<ready, kept, events>>

(* ... or throws what a failed VERIFY throws.                              *)
ThrowsError(j) ==
  /\ Handled(j)
  /\ ~Verified(seen[j])
  /\ UNCHANGED <<flags, ready, kept, events>>

Throws(j) == ThrowsEvent(j) \/ ThrowsError(j)

(* The coroutine is completed: proceed0() deletes the journey, its state   *)
(* stays as long as somebody has a doer or a goer.                         *)
Ends(j) ==
  /\ Moves(j, "running", "ended")
  /\ UNCHANGED <<flags, seen, ready, kept, events>>

-----------------------------------------------------------------------------
(* DtorEventsGuard: no events until it is destroyed, and no check then.    *)
Guard(j) ==
  /\ phase[j] = "running"
  /\ kept[j] = "nothing"
  /\ kept' = [kept EXCEPT ![j] = IF flags[j].enabled THEN "enabled" ELSE "disabled"]
  /\ flags' = [flags EXCEPT ![j].enabled = FALSE]
  /\ UNCHANGED <<phase, seen, ready, events>>

Unguard(j) ==
  /\ phase[j] = "running"
  /\ kept[j] # "nothing"
  /\ kept' = [kept EXCEPT ![j] = "nothing"]
  /\ flags' = [flags EXCEPT ![j].enabled = @ \/ kept[j] = "enabled"]
  /\ UNCHANGED <<phase, seen, ready, events>>
=============================================================================
