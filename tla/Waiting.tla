------------------------------- MODULE Waiting -------------------------------
(***************************************************************************)
(* A journey that starts others and waits for them: Awaiter, Awaiter2,     *)
(* DetachableAwaiter, AsyncWaiter, goWait, goAnyWait and goAnyResult of    *)
(* src/core.cpp and core.h, over the flags of Journey.                     *)
(*                                                                         *)
(* All of them count.  The parent has a share in the count until it starts *)
(* to wait, each child until it is finished: the counter_ of a completer,  *)
(* which is 0 when nobody has a share, or the use count of a shared_ptr.   *)
(* Whoever drops the last share tells the parent.  The children run on     *)
(* other threads; an atomic operation of theirs is one action.             *)
(***************************************************************************)
EXTENDS Journey, FiniteSets

CONSTANTS
  Parent,  \* the one journey whose flags are modelled
  Kids,    \* the children
  NoKid,   \* the index that stands for "no result"
  Nobody   \* and for "nobody was first yet"

ASSUME WaitingAssumption ==
  /\ Journeys = {Parent}
  /\ IsFiniteSet(Kids)
  /\ NoKid \notin Kids
  /\ Nobody \notin Kids \cup {NoKid}

VARIABLES
  scene,  \* what the parent waits with, which children end only if they are
          \* cancelled, and which throw or have no result: it never changes
  kid,    \* kid[k]: where the child is
  at,     \* where the parent is
  share,  \* the parent has its share
  index,  \* goAnyWait, goAnyResult: who was first, NoKid for no result
  made,   \* the DoerScoped of a DetachableAwaiter, and whether an event was
          \* on its way to the parent when it was made
  asked,  \* the children were cancelled
  left    \* how the parent left: "no", "returned", "threw" or "died"; and the
          \* children that were about to tell it so at that moment

waitingVars == <<scene, kid, at, share, index, made, asked, left>>
vars == <<journeyVars, waitingVars>>

-----------------------------------------------------------------------------
Kinds == {"Awaiter", "Awaiter2", "DetachableAwaiter", "AsyncWaiter",
          "goWait", "goAnyWait", "goAnyResult"}

kind == scene.kind
Any == kind \in {"goAnyWait", "goAnyResult"}

Init ==
  /\ Started(Journeys, 0)
  /\ scene \in [kind : Kinds, stuck : SUBSET Kids, fails : SUBSET Kids]
  /\ Any \/ scene.fails = {}
  /\ kid = [k \in Kids |-> "new"]
  /\ at = "going"
  /\ share = (kind # "goAnyWait")
  /\ index = Nobody
  /\ made = [doer |-> Doer(Parent), early |-> FALSE]
  /\ asked = FALSE
  /\ left = [how |-> "no", cut |-> {}]

Sharers == {k \in Kids : kid[k] \in {"working", "claiming", "first", "dropping"}}
Tellers == {k \in Kids : kid[k] \in {"first", "last", "acquired"}}

(* A slip: the parent's share is not counted.                              *)
IsLastUnshared(k) == Sharers \subseteq {k}

(* Nobody else has a share.                                                *)
IsLast(k) == Sharers \subseteq {k} /\ ~share

Tell == Done(Parent) /\ UNCHANGED <<phase, seen, kept, events>>

-----------------------------------------------------------------------------
(* The children.                                                           *)
KidGoes(k, from, to) ==
  /\ kid[k] = from
  /\ kid' = [kid EXCEPT ![k] = to]
  /\ UNCHANGED <<scene, at, share, asked, left>>

(* go(): one more.  The first makes the doer of a DetachableAwaiter.       *)
Go(k) ==
  /\ at = "going"
  /\ KidGoes(k, "new", "working")
  /\ made' = IF \A c \in Kids : kid[c] = "new"
               THEN [doer |-> Doer(Parent), early |-> flags[Parent].raised # {}]
               ELSE made
  /\ UNCHANGED <<journeyVars, index>>

MayClaim(k) == Any /\ k \notin scene.fails

(* Its handler returns or throws.                                          *)
Finish(k) ==
  /\ k \in scene.stuck => asked
  /\ KidGoes(k, "working", IF MayClaim(k) THEN "claiming"
                           ELSE IF kind = "goAnyWait" THEN "over" ELSE "dropping")
  /\ UNCHANGED <<journeyVars, index, made>>

BehindClaim == IF kind = "goAnyWait" THEN "over" ELSE "dropping"

Claims(k) == index' = IF index = Nobody THEN k ELSE index

(* ++counter == 1: the first leaves its index or result.                   *)
Claim(k) ==
  /\ Claims(k)
  /\ KidGoes(k, "claiming", IF index = Nobody THEN "first" ELSE BehindClaim)
  /\ UNCHANGED <<journeyVars, made>>

TellFirst(k) ==
  /\ KidGoes(k, "first", BehindClaim)
  /\ Tell
  /\ UNCHANGED <<index, made>>

(* Without a share left the destructor of goAnyResult's Counter claims     *)
(* that there is no result.                                                *)
ClaimsNothing(k) == kind = "goAnyResult" /\ IsLast(k) /\ index = Nobody

MustTell(k) == IsLast(k) /\ (kind = "goAnyResult" => index = Nobody)

Drop(k) ==
  /\ KidGoes(k, "dropping", IF MustTell(k) THEN "last" ELSE "over")
  /\ index' = IF ClaimsNothing(k) THEN NoKid ELSE index
  /\ UNCHANGED <<journeyVars, made>>

TellLast(k) ==
  /\ kind # "DetachableAwaiter"
  /\ KidGoes(k, "last", "over")
  /\ Tell
  /\ UNCHANGED <<index, made>>

(* DetachableDoer::done() in its two halves.                               *)
AcquireDoer ==
  /\ flags' = IF Acquirable(made.doer)
                THEN [flags EXCEPT ![Parent] = Disabled(made.doer)] ELSE flags
  /\ UNCHANGED <<phase, seen, ready, kept, events, index, made>>

ReleaseDoer ==
  /\ ReleaseAndDone(made.doer)
  /\ UNCHANGED <<phase, seen, kept, events, index, made>>

Acquire(k) ==
  /\ kind = "DetachableAwaiter"
  /\ KidGoes(k, "last", IF Acquirable(made.doer) THEN "acquired" ELSE "over")
  /\ AcquireDoer

Release(k) == KidGoes(k, "acquired", "over") /\ ReleaseDoer

-----------------------------------------------------------------------------
(* The parent.                                                             *)
Goes(from, to) ==
  /\ at = from
  /\ at' = to
  /\ UNCHANGED <<scene, kid>>

Stays == UNCHANGED <<share, index, made, asked, left>>

Leave(how) == left' = [how |-> how, cut |-> Tellers]

(* The parent drops its share before it waits.  The last one tells itself, *)
(* or sees that there is nothing to wait for.                              *)
Wait ==
  /\ \E k \in Kids : kid[k] # "new"
  /\ share' = FALSE
  /\ index' = IF kind = "goAnyResult" /\ Sharers = {} /\ index = Nobody
                THEN NoKid ELSE index
  /\ UNCHANGED <<made, asked>>
  /\ \/ /\ kind \in {"Awaiter2", "AsyncWaiter"} /\ Sharers = {}
        /\ Goes("going", "left")
        /\ Leave("returned")
        /\ UNCHANGED journeyVars
     \/ /\ kind = "DetachableAwaiter" /\ Sharers = {}
        /\ Goes("going", "last")
        /\ UNCHANGED <<journeyVars, left>>
     \/ /\ (kind \in {"Awaiter", "goWait"} /\ Sharers = {}) \/ index' # index
        /\ Goes("going", "waiting")
        /\ Tell
        /\ UNCHANGED left
     \/ /\ Sharers # {} \/ (Any /\ index' = index)
        /\ Goes("going", "waiting")
        /\ UNCHANGED <<journeyVars, left>>

(* An exception between go() and wait(): the destructor has to wait.       *)
Abandon ==
  /\ \E k \in Kids : kid[k] # "new"
  /\ UNCHANGED <<index, made, asked, left>>
  /\ \/ /\ kind = "Awaiter"
        /\ Goes("going", "dying")
        /\ share' = FALSE
        /\ IF Sharers = {} THEN Tell ELSE UNCHANGED journeyVars
     \/ /\ kind = "Awaiter2"
        /\ Goes("going", "dying")
        /\ UNCHANGED <<journeyVars, share>>
     \/ /\ kind = "DetachableAwaiter"
        /\ Goes("going", IF Sharers = {} THEN "deadlast" ELSE "detaching")
        /\ share' = FALSE
        /\ UNCHANGED journeyVars

(* The last child of a DetachableAwaiter was over before.                  *)
LastHere ==
  \/ /\ Goes("last", IF Acquirable(made.doer) THEN "acquired" ELSE "waiting")
     /\ AcquireDoer
     /\ UNCHANGED <<share, asked, left>>
  \/ /\ Goes("deadlast", IF Acquirable(made.doer) THEN "deadacquired" ELSE "detaching")
     /\ AcquireDoer
     /\ UNCHANGED <<share, asked, left>>
  \/ /\ Goes("acquired", "waiting") \/ Goes("deadacquired", "detaching")
     /\ ReleaseDoer
     /\ UNCHANGED <<share, asked, left>>

(* A slip: the counter stays.                                              *)
DetachNobody(f) == f

Detach(f) == [f EXCEPT !.counter = @ + 1]

(* detachDoers(): the counter is increased, then Done reset.               *)
DetachDoers ==
  /\ Goes("detaching", "detached")
  /\ flags' = [flags EXCEPT ![Parent] = Detach(@)]
  /\ UNCHANGED <<phase, seen, ready, kept, events>>
  /\ Stays

ResetDone ==
  /\ Goes("detached", "left")
  /\ flags' = [flags EXCEPT ![Parent].done = FALSE]
  /\ Leave("died")
  /\ UNCHANGED <<phase, seen, ready, kept, events, share, index, made, asked>>

(* The first suspension in waitForDone() and waitForDoneAlways().          *)
Suspend ==
  /\ Goes("waiting", IF kind = "Awaiter" THEN "woken" ELSE "handling")
  /\ WaitForDone(Parent)
  /\ Stays

(* DtorEventsGuard.                                                        *)
EventsOff ==
  /\ kept' = [kept EXCEPT ![Parent] =
                IF flags[Parent].enabled THEN "enabled" ELSE "disabled"]
  /\ flags' = [flags EXCEPT ![Parent].enabled = FALSE]

EventsOn ==
  /\ kept' = [kept EXCEPT ![Parent] = "nothing"]
  /\ flags' = [flags EXCEPT ![Parent].enabled = @ \/ kept[Parent] = "enabled"]

(* A slip in waitForDoneAlways(): woken by an event, it goes on.           *)
ForcedNever(f) == FALSE

(* waitForDoneAlways() was woken by an event, not by its children.         *)
Forced(f) == ~f.done

(* Then they are cancelled and waited for without events.                  *)
ForceDone ==
  /\ phase[Parent] = "resumed"
  /\ IF Forced(flags[Parent])
       THEN /\ Goes("woken", "forced")
            /\ EventsOff
            /\ asked' = TRUE
            /\ phase' = [phase EXCEPT ![Parent] = "yielded"]
       ELSE /\ Goes("woken", "handling")
            /\ UNCHANGED <<flags, kept, asked, phase>>
  /\ UNCHANGED <<seen, ready, events, share, index, made, left>>

Unforce ==
  /\ phase[Parent] = "resumed"
  /\ Goes("forced", "handling")
  /\ EventsOn
  /\ UNCHANGED <<phase, seen, ready, events>>
  /\ Stays

(* The destructors: no events from here, and the children are cancelled.   *)
Dying ==
  /\ Goes("dying", "dead")
  /\ EventsOff
  /\ asked' = TRUE
  /\ UNCHANGED <<phase, seen, ready, events, share, index, made, left>>

(* ~Awaiter2(): the count says that all children are finished.             *)
NothingLeft == kind = "Awaiter2" /\ Sharers = {}

Dead ==
  /\ share' = FALSE
  /\ UNCHANGED <<index, made, asked, left>>
  /\ IF NothingLeft
       THEN Goes("dead", "unguarding") /\ UNCHANGED journeyVars
       ELSE Goes("dead", "burying") /\ WaitForDone(Parent)

Unguarding ==
  /\ Goes("unguarding", "left")
  /\ EventsOn
  /\ left' = [left EXCEPT !.how = IF @ = "no" THEN "died" ELSE @,
                          !.cut = @ \cup Tellers]
  /\ UNCHANGED <<phase, seen, ready, events, share, index, made, asked>>

(* handleEvents() and what follows.                                        *)
Handle ==
  /\ at \in {"handling", "burying"}
  /\ Goes(at, at)
  /\ Load(Parent)
  /\ Stays

Return ==
  /\ Returns(Parent)
  /\ UNCHANGED <<share, index, made, asked>>
  /\ \/ Goes("handling", "left") /\ Leave("returned")
     \/ Goes("burying", "unguarding") /\ UNCHANGED left

Throw ==
  /\ Throws(Parent)
  /\ UNCHANGED <<share, index, made, asked>>
  /\ Goes("handling", IF kind = "Awaiter2" THEN "dying" ELSE "left")
  /\ Leave("threw")

-----------------------------------------------------------------------------
Event ==
  /\ \E event \in {"cancelled", "timedout"} : Raise(Parent, event)
  /\ UNCHANGED waitingVars

Kid(k) ==
  \/ Finish(k) \/ Claim(k) \/ TellFirst(k) \/ Drop(k)
  \/ TellLast(k) \/ Acquire(k) \/ Release(k)

Coroutine ==
  /\ ResetEntered(Parent) \/ Proceed0(Parent)
  /\ UNCHANGED waitingVars

Steps ==
  \/ LastHere \/ DetachDoers \/ ResetDone \/ Suspend \/ ForceDone \/ Unforce
  \/ Dying \/ Dead \/ Unguarding \/ Handle \/ Return \/ Throw

Next ==
  \/ \E k \in Kids : Go(k) \/ Kid(k)
  \/ Wait \/ Abandon \/ Event \/ Coroutine \/ Steps

Spec == Init /\ [][Next]_vars

(* A child that can end does, and a scheduled journey runs.                *)
Fairness ==
  /\ \A k \in Kids : WF_vars(Kid(k))
  /\ WF_vars(Coroutine \/ Steps)

FairSpec == Spec /\ Fairness
=============================================================================
