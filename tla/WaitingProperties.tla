-------------------------- MODULE WaitingProperties --------------------------
(***************************************************************************)
(* What a journey can rely on when it waits for others.                    *)
(***************************************************************************)
EXTENDS Waiting, JourneyProperties

Gone == at = "left"

(* Every variable has its type.                                            *)
TypeOK ==
  /\ JourneyTypeOK
  /\ scene \in [kind : Kinds, stuck : SUBSET Kids, fails : SUBSET Kids]
  /\ kid \in [Kids -> {"new", "working", "claiming", "first", "dropping",
                       "last", "acquired", "over"}]
  /\ share \in BOOLEAN
  /\ index \in Kids \cup {NoKid, Nobody}
  /\ made \in [doer : DoerType, early : BOOLEAN]
  /\ left \in [how : {"no", "returned", "threw", "died"}, cut : SUBSET Kids]

(* Behind a wait for all that returned, every child that was started is    *)
(* finished, and the parent cannot have been told early: not by a child    *)
(* that ends before all are started, nor by an event in between.           *)
Barrier ==
  Gone /\ left.how = "returned" /\ ~Any => Sharers = {}

(* Behind a goAnyWait that returned, index is the child that was first and *)
(* did not throw; goAnyResult has no result only if no child had one.      *)
FirstOfAny ==
  Gone /\ left.how = "returned" /\ Any =>
    \/ index \in Kids \ scene.fails
    \/ /\ kind = "goAnyResult"
       /\ index = NoKid
       /\ Sharers = {}
       /\ \A k \in Kids : kid[k] # "new" => k \in scene.fails

(* What a wait of each kind promises when it returns.                      *)
ReturnsInTime == Barrier /\ FirstOfAny

(* The destructors of Awaiter and Awaiter2 outlive the children, which use *)
(* their memory: in an Awaiter for certain.  In an Awaiter2 there is one   *)
(* hole: an event ends the wait while the last child stands between add()  *)
(* and doer_.done(), and the second wait sees the count and does not wait. *)
Outlives ==
  Gone => CASE kind = "Awaiter" -> Sharers \cup Tellers = {}
            [] kind = "Awaiter2" ->
                 /\ Sharers = {}
                 /\ left.cut # {} => left.how = "threw" /\ Cardinality(left.cut) = 1
            [] OTHER -> TRUE

(* What the parent leaves behind never ends a later wait of its own: no    *)
(* Done flag is set when it has left, or afterwards, by children that are  *)
(* still running.  The holes are those of the FIXME in detachDoers(), a    *)
(* child caught between the two halves of its done(); an event older than  *)
(* the doer, which acquire() does not see; and the second wait of an       *)
(* Awaiter2, which sees the count but leaves the flag.  goWait, goAnyWait, *)
(* goAnyResult and AsyncWaiter have no destructor: they promise it only    *)
(* when they return.                                                       *)
LeavesNothing ==
  /\ Gone
  /\ left.cut = {}
  /\ ~made.early
  /\ left.how = "threw" => kind \in {"Awaiter", "DetachableAwaiter"}
  => ~flags[Parent].done

(* The VERIFYs in handleEvents() hold, also inside the destructors, where  *)
(* a throw would end the program: in every wait on a plain Doer, and in    *)
(* the wait of a DetachableAwaiter whose doer is older than any event.     *)
MustHaveEvent ==
  phase[Parent] = "handling" /\ (kind # "DetachableAwaiter" \/ ~made.early) =>
    Verified(seen[Parent])

-----------------------------------------------------------------------------
(* Why that is so: the parent runs unless it is in one of the suspensions, *)
(* and events are off where they have to be.                               *)
Whereabouts ==
  /\ phase[Parent] \in {"running", "ended"} <=>
       at \notin {"woken", "forced", "handling", "burying"}
  /\ phase[Parent] = "handling" => at \in {"handling", "burying"}
  /\ phase[Parent] # "ended"
  /\ at \in {"woken", "forced"} => kind = "Awaiter"
  /\ at \in {"dying", "dead", "burying", "unguarding"} => kind \in {"Awaiter", "Awaiter2"}
  /\ at \in {"forced", "dead", "burying", "unguarding"} => ~flags[Parent].enabled
  /\ left.how \in {"returned", "died"} => Gone
  /\ Gone => left.how # "no"
  /\ ~Gone /\ left.how = "threw" =>
       kind = "Awaiter2" /\ at \in {"dying", "dead", "burying", "unguarding"}

(* The parent itself is the last and tells itself.                         *)
Telling == at \in {"last", "acquired", "deadlast", "deadacquired"}

(* The count has gone to 0, or there is a first one: it cannot again.      *)
Spent == IF Any THEN index # Nobody ELSE ~share /\ Sharers = {}

(* Who has a share, and who claims.                                        *)
Counted ==
  /\ \A k \in Kids :
       /\ kid[k] \in {"claiming", "first"} => Any /\ k \notin scene.fails
       /\ kid[k] \in {"dropping", "last"} => kind # "goAnyWait"
       /\ kid[k] = "acquired" => kind = "DetachableAwaiter"
       /\ Any /\ kid[k] \in {"first", "dropping", "last", "over"} /\ k \notin scene.fails
            => index # Nobody
  /\ index \in Kids => Any /\ index \notin scene.fails
  /\ index = NoKid => /\ kind = "goAnyResult" /\ ~share /\ Sharers = {}
                      /\ \A k \in Kids : kid[k] # "new" => k \in scene.fails
  /\ at = "going" /\ kind # "goAnyWait" => share
  /\ share => kind # "goAnyWait" /\ at \in {"going", "dying", "dead"}
  /\ kind = "Awaiter" /\ share => at = "going"
  /\ kind = "Awaiter2" /\ at \in {"dying", "dead"} => (share <=> left.how = "no")
  /\ Telling \/ at \in {"detaching", "detached"} => kind = "DetachableAwaiter"

(* Done is set once for each wait, and only when the count says so.        *)
ToldOnce ==
  /\ \A k, m \in Tellers : k = m
  /\ Tellers # {} => Spent /\ ~Telling
  /\ Telling => Spent
  /\ flags[Parent].done \/ (phase[Parent] = "handling" /\ seen[Parent].done) =>
       Spent /\ Tellers = {} /\ ~Telling

(* Nobody sets Done any more; or nobody can, events having been counted    *)
(* since the doer was made, or those of the destructor.                    *)
Over == Spent /\ Tellers = {} /\ ~Telling
Overtaken == flags[Parent].counter > made.doer.counter

Held == at \in {"acquired", "deadacquired"} \/ \E k \in Kids : kid[k] = "acquired"

(* What wakes the parent is there when it looks for it.                    *)
Justified ==
  kind # "DetachableAwaiter" \/ ~made.early =>
    /\ \/ phase[Parent] = "resumed"
       \/ phase[Parent] = "suspended" /\ flags[Parent].entered
       => Verified(flags[Parent])
    /\ phase[Parent] = "handling" => Verified(seen[Parent])

(* An Awaiter goes on when it is told, and not before.                     *)
Forgiven ==
  kind = "Awaiter" =>
    /\ at = "handling" => flags[Parent].done
    /\ at \in {"unguarding", "left"} => Over /\ ~flags[Parent].done

(* An Awaiter2 may be left by an event before it is told; one child at     *)
(* most has to tell it then.                                               *)
Buried ==
  kind = "Awaiter2" =>
    /\ at \in {"unguarding", "left"} => Spent
    /\ \A k, m \in left.cut \cup Tellers : k = m
    /\ left.cut # {} => Spent /\ left.how = "threw"
    /\ at \in {"unguarding", "left"} /\ left.how # "threw" => Over /\ ~flags[Parent].done

(* Whoever acquired the doer of a DetachableAwaiter holds off the events,  *)
(* and whoever finds that there were some since it was made cannot.        *)
Detachable ==
  kind = "DetachableAwaiter" =>
    /\ made.doer.who = Parent /\ made.doer.enabled
    /\ flags[Parent].counter >= made.doer.counter
    /\ Held <=> ~flags[Parent].enabled
    /\ Held /\ at \notin {"detached", "left"} => ~Overtaken
    /\ at = "detached" => Overtaken
    /\ (\E k \in Kids : kid[k] # "new") /\ flags[Parent].raised # {} /\ ~made.early =>
         Overtaken \/ Held \/ Over
    /\ phase[Parent] = "handling" /\ seen[Parent].enabled /\ seen[Parent].raised # {}
         /\ ~made.early => Overtaken \/ Over
    /\ at # "going" => \E k \in Kids : kid[k] # "new"

(* Then nobody can tell a parent that has left, unless it is in one of the *)
(* holes.                                                                  *)
Silent ==
  /\ Gone
  /\ left.cut = {}
  /\ ~made.early
  /\ left.how = "threw" => kind \in {"Awaiter", "DetachableAwaiter"}
  => /\ ~flags[Parent].done
     /\ Over \/ (kind = "DetachableAwaiter" /\ Overtaken /\ ~Held)

(* What the runtime relies on in each of these waits; it is inductive.     *)
WaitingInv ==
  /\ TypeOK /\ ResumedOnce /\ MustHaveEvent
  /\ Whereabouts /\ Counted /\ ToldOnce /\ Justified
  /\ Forgiven /\ Buried /\ Detachable /\ Silent
  /\ ReturnsInTime

(* Every wait ends: when all children can end and one of goAnyWait's does  *)
(* not throw, or an event comes - an Awaiter cancels its children then.    *)
Begun == {k \in Kids : kid[k] # "new"}

CanEnd ==
  \/ flags[Parent].raised # {} /\ flags[Parent].enabled
  \/ /\ scene.stuck = {}
     /\ kind = "goAnyWait" => ~(Begun \subseteq scene.fails)

WaitEnds == at # "going" /\ CanEnd ~> Gone
=============================================================================
