------------------------------- MODULE Chronos -------------------------------
(***************************************************************************)
(* The example chronos.cpp: a scheduler that is replicated on all nodes    *)
(* and runs each handler on one of them, and its Detector; over            *)
(* ReplobApplySync of replob.h, and Timer and Timeout of core.cpp.         *)
(*                                                                         *)
(* The replication is what Voting does: every transaction that is applied  *)
(* gets one place in a log, which the nodes execute in this order, each at *)
(* its own pace.  Each node has one thread.  The clocks show the same, but *)
(* a transaction is executed later on one node than on another.            *)
(***************************************************************************)
EXTENDS Integers, FiniteSets, SequencesExt

CONSTANTS
  Nodes,      \* the nodes, which are numbers
  Home,       \* the node that adds events
  Events,     \* the events that are added, numbered in this order
  Faulty,     \* those whose handler may throw
  MaxTime,    \* bound on the clock
  MaxCrashes, \* bound on the nodes that stop
  MaxLate,    \* bound on the calls that time out
  MaxRemovals \* bound on the removals that are applied

ASSUME ChronosAssumption ==
  /\ Nodes \subseteq Nat /\ Home \in Nodes
  /\ Faulty \subseteq Events /\ Events \subseteq Nat
  /\ {MaxTime, MaxCrashes, MaxLate, MaxRemovals} \subseteq Nat

VARIABLES
  prompt,   \* whether what is applied is executed, and a pulse is there, before
            \* the clock goes on
  time,     \* the clock
  sent,     \* transactions that were applied but have no place in the log
  log,      \* transactions: their kind, the node they are from, and what of
  pos,      \* pos[n]: how much of the log node n has executed
  view,     \* view[n]: the Chronos of node n
  timer,    \* timer[n]: its nextEvent_ is armed
  watched,  \* watched[n]: the other nodes in nodesTs_ of its Detector
  todo,     \* todo[n]: removals it executed but has not completed
  jobs,     \* jobs[n]: the handlers that run on it
  runs,     \* runs[e]: how many handlers of e were started
  thrown,   \* the events whose handler threw
  caller,   \* caller[e]: the coroutine that adds e
  late,     \* calls that are over while their transaction is not executed
  faults,   \* how many calls timed out, removals were applied and nodes stopped
  crashed   \* the nodes that stopped

calls == <<caller, late>>
vars == <<prompt, time, sent, log, pos, view, timer, watched, todo, jobs, runs, thrown, calls,
          faults, crashed>>

-----------------------------------------------------------------------------
(* The Chronos of a node: events_ with their times, the earliest first,    *)
(* and awaiting_, running_ and slots_.                                     *)
NewView == [events |-> <<>>, awaiting |-> <<>>, running |-> <<>>,
            slots |-> SetToSortSeq(Nodes, <)]

(* At time t, with the events es to be added and some faults behind.       *)
New(t, es, count) ==
  /\ prompt \in BOOLEAN
  /\ time = t
  /\ sent = {}
  /\ log = <<>>
  /\ pos = [n \in Nodes |-> 0]
  /\ view = [n \in Nodes |-> NewView]
  /\ timer = [n \in Nodes |-> FALSE]
  /\ watched = [n \in Nodes |-> Nodes \ {n}]
  /\ todo = [n \in Nodes |-> {}]
  /\ jobs = [n \in Nodes |-> {}]
  /\ runs = [e \in Events |-> 0]
  /\ thrown = {}
  /\ caller = [e \in Events |-> IF e \in es THEN "new" ELSE "returned"]
  /\ late = {}
  /\ faults = count
  /\ crashed = {}

NoFaults == [late |-> 0, removed |-> 0, stopped |-> 0]

Init == New(0, Events, NoFaults)

Smaller(a, b) == IF a < b THEN a ELSE b
Without(f, x) == [y \in DOMAIN f \ {x} |-> f[y]]

(* triggerAwaitings(): how many handlers get a slot, and which turns are   *)
(* those of node n.                                                        *)
Given(v) == Smaller(Len(v.awaiting), Len(v.slots))
Turns(v, n) == {i \in 1 .. Given(v) : v.slots[i] = n}

Gets(v, n) == {v.awaiting[i] : i \in Turns(v, n)}

SlotsLeft(v) == SubSeq(v.slots, Given(v) + 1, Len(v.slots))

(* The Chronos after it: the last handler n gets is the one in running_.   *)
Triggered(v) ==
  [v EXCEPT !.running = [n \in DOMAIN @ \cup {m \in Nodes : Turns(v, m) # {}} |->
                           IF Turns(v, n) = {} THEN @[n] ELSE v.awaiting[Max(Turns(v, n))]],
            !.awaiting = SubSeq(@, Given(v) + 1, Len(@)),
            !.slots = SlotsLeft(v)]

(* addEvent(): behind the events that are not later.                       *)
AddEvent(v, e, ts) ==
  LET Before(x) == x.ts <= ts
      After(x) == x.ts > ts
  IN  [v EXCEPT !.events =
         SelectSeq(@, Before) \o <<[event |-> e, ts |-> ts]>> \o SelectSeq(@, After)]

(* scheduleEventsUpTo(), before it triggers.                               *)
EventsUpTo(v, now) ==
  LET n == Cardinality({i \in DOMAIN v.events : v.events[i].ts < now})
  IN  [v EXCEPT !.awaiting = @ \o [i \in 1 .. n |-> v.events[i].event],
                !.events = SubSeq(@, n + 1, Len(@))]

(* onHandlerCompleted(), before it triggers.                               *)
HandlerCompleted(v, id) ==
  [v EXCEPT !.running = Without(@, id), !.slots = Append(@, id)]

(* A slip: what the node was running is forgotten.                         *)
AwaitsNothing(v, id) == v.awaiting

AwaitsAgain(v, id) == Append(v.awaiting, v.running[id])

(* A slip: its slot is forgotten.                                          *)
SlotsOfAll(v, id) == v.slots

SlotsOfOthers(v, id) == LET Other(n) == n # id IN SelectSeq(v.slots, Other)

(* onNodeRemove(), before it triggers.                                     *)
NodeRemoved(v, id) ==
  LET w == [v EXCEPT !.slots = SlotsOfOthers(v, id)]
  IN  IF id \in DOMAIN v.running
        THEN [w EXCEPT !.awaiting = AwaitsAgain(v, id), !.running = Without(@, id)]
        ELSE w

-----------------------------------------------------------------------------
(* replobApply().                                                          *)
Transaction(kind, n, what) == [kind |-> kind, from |-> n, of |-> what]
Apply(kind, n, what) == sent' = sent \cup {Transaction(kind, n, what)}

(* The Chronos of n becomes v and triggers: n runs what it gave itself.    *)
Triggers(n, v) ==
  /\ view' = [view EXCEPT ![n] = Triggered(v)]
  /\ jobs' = [jobs EXCEPT ![n] = @ \cup Gets(v, n)]
  /\ runs' = [e \in Events |-> IF e \in Gets(v, n) THEN runs[e] + 1 ELSE runs[e]]

(* A slip: the timer is not armed again.                                   *)
ScheduleWaitNever(n, v) == UNCHANGED timer

(* scheduleWait().                                                         *)
ScheduleWait(n, v) == timer' = [timer EXCEPT ![n] = v.events # <<>>]

(* replobApplySync(): the caller waits until its transaction is executed.  *)
Sync(e) ==
  /\ caller' = [caller EXCEPT ![e] = "waiting"]
  /\ Apply("add", Home, e)

NotYetAdded == {e \in Events : caller[e] = "new"}

Add(e) ==
  /\ Home \notin crashed /\ time < MaxTime
  /\ e \in NotYetAdded /\ \A d \in NotYetAdded : e <= d
  /\ Sync(e)
  /\ UNCHANGED <<prompt, time, log, pos, view, timer, watched, todo, jobs, runs, thrown, late, faults, crashed>>

(* The call that applied x is over.  The DetachableDoer was on its stack,  *)
(* x keeps the pointer; the memory goes to calls that begin from now on.   *)
Over(x) == [call |-> x, later |-> NotYetAdded]

IsOver(x) == \E l \in late : l.call = x

(* The Timeout of replobApplySync(): the call throws, the transaction      *)
(* stays where it is.  A removal is applied without a call that waits.     *)
TimedOut(x) ==
  /\ ~prompt /\ faults.late < MaxLate
  /\ x.kind # "remove" /\ x.from \notin crashed /\ ~IsOver(x)
  /\ caller' = IF x.kind = "add" THEN [caller EXCEPT ![x.of] = "threw"] ELSE caller
  /\ late' = late \cup {Over(x)}
  /\ faults' = [faults EXCEPT !.late = @ + 1]
  /\ UNCHANGED <<prompt, time, sent, log, pos, view, timer, watched, todo, jobs, runs, thrown, crashed>>

Pending(n) ==
  {x \in sent : x.from = n}
    \cup {log[i] : i \in {j \in pos[n] + 1 .. Len(log) : log[j].from = n}}

(* The replication: a transaction gets its place.                          *)
Commit(x) ==
  /\ log' = Append(log, x)
  /\ sent' = sent \ {x}
  /\ UNCHANGED <<prompt, time, pos, view, timer, watched, todo, jobs, runs, thrown, calls, faults, crashed>>

(* A slip: whoever executes it first answers.                              *)
MineAnyway(n, x) == TRUE

Mine(n, x) == x.from = n

(* ReplobApplySync::operator(): on the node it is from doer_->done() wakes *)
(* the caller.  When the call is over doer_ is dangling: nothing happens,  *)
(* or a later call has its doer in that place and is woken too early (its  *)
(* own doer_ is then dangling, too).                                       *)
Answer(n, x) ==
  \/ ~Mine(n, x) /\ UNCHANGED calls
  \/ /\ Mine(n, x) /\ ~IsOver(x)
     /\ caller' = IF x.kind = "add" THEN [caller EXCEPT ![x.of] = "returned"] ELSE caller
     /\ late' = late
  \/ \E l \in late :
       /\ Mine(n, x) /\ l.call = x
       /\ \/ late' = late \ {l} /\ caller' = caller
          \/ \E e \in l.later :
               /\ n = Home /\ caller[e] = "waiting"
               /\ caller' = [caller EXCEPT ![e] = "returned"]
               /\ late' = (late \ {l}) \cup {Over(Transaction("add", Home, e))}

(* addEvent(diff, h) takes the time of the clock when it is executed.      *)
Stamp(n) == time

Execute(n) ==
  /\ n \notin crashed /\ pos[n] < Len(log)
  /\ pos' = [pos EXCEPT ![n] = @ + 1]
  /\ LET x == log[pos'[n]]
     IN  \/ /\ x.kind = "add"
            /\ view' = [view EXCEPT ![n] = AddEvent(@, x.of, Stamp(n))]
            /\ ScheduleWait(n, view'[n])
            /\ Answer(n, x)
            /\ UNCHANGED <<todo, jobs, runs>>
         \/ /\ x.kind = "upto"
            /\ Triggers(n, EventsUpTo(view[n], x.of))
            /\ ScheduleWait(n, view'[n])
            /\ Answer(n, x)
            /\ UNCHANGED todo
         \/ /\ x.kind = "done"
            /\ Triggers(n, HandlerCompleted(view[n], x.of))
            /\ Answer(n, x)
            /\ UNCHANGED <<timer, todo>>
         \/ /\ x.kind = "remove"
            /\ todo' = [todo EXCEPT ![n] = @ \cup {x.of}]
            /\ UNCHANGED <<view, timer, jobs, runs, calls>>
  /\ UNCHANGED <<prompt, time, sent, log, watched, thrown, faults, crashed>>

-----------------------------------------------------------------------------
(* The timer: scheduleEvents() applies the time.                           *)
Fire(n) ==
  /\ n \notin crashed /\ timer[n]
  /\ view[n].events # <<>> /\ Head(view[n].events).ts < time
  /\ timer' = [timer EXCEPT ![n] = FALSE]
  /\ Apply("upto", n, time)
  /\ UNCHANGED <<prompt, time, log, pos, view, watched, todo, jobs, runs, thrown, calls, faults, crashed>>

(* The coroutine of executeHandler(): unless h throws the slot is free.    *)
JobEnds(n, e) ==
  /\ n \notin crashed /\ e \in jobs[n]
  /\ jobs' = [jobs EXCEPT ![n] = @ \ {e}]
  /\ \/ Apply("done", n, n) /\ UNCHANGED thrown
     \/ e \in Faulty /\ thrown' = thrown \cup {e} /\ UNCHANGED sent
  /\ UNCHANGED <<prompt, time, log, pos, view, timer, watched, todo, runs, calls, faults, crashed>>

(* Detector::check() has not seen a pulse of d for too long, and says so   *)
(* again each time it looks.  If all is prompt d has stopped.              *)
Detect(n, d) ==
  /\ n \notin crashed /\ d \in watched[n]
  /\ prompt => d \in crashed
  /\ faults.removed < MaxRemovals
  /\ faults' = [faults EXCEPT !.removed = @ + 1]
  /\ Transaction("remove", n, d) \notin sent
  /\ Apply("remove", n, d)
  /\ UNCHANGED <<prompt, time, log, pos, view, timer, watched, todo, jobs, runs, thrown, calls, crashed>>

(* Detector::update(): a pulse of d that comes behind its removal puts it  *)
(* back.                                                                   *)
Update(n, d) ==
  /\ n \notin crashed /\ d \notin watched[n] \cup {n}
  /\ ~prompt
  /\ watched' = [watched EXCEPT ![n] = @ \cup {d}]
  /\ UNCHANGED <<prompt, time, sent, log, pos, view, timer, todo, jobs, runs, thrown, calls, faults, crashed>>

(* Detector::removeNodeComplete(), in a coroutine of its own: while d is   *)
(* watched it calls onNodeRemove(), which triggers if d was running.  No   *)
(* node watches itself.                                                    *)
Complete(n, d) ==
  /\ n \notin crashed /\ d \in todo[n]
  /\ todo' = [todo EXCEPT ![n] = @ \ {d}]
  /\ watched' = [watched EXCEPT ![n] = @ \ {d}]
  /\ IF d \notin watched[n]
       THEN UNCHANGED <<view, jobs, runs>>
       ELSE IF d \in DOMAIN view[n].running
              THEN Triggers(n, NodeRemoved(view[n], d))
              ELSE /\ view' = [view EXCEPT ![n] = NodeRemoved(@, d)]
                   /\ UNCHANGED <<jobs, runs>>
  /\ UNCHANGED <<prompt, time, sent, log, pos, timer, thrown, calls, faults, crashed>>

-----------------------------------------------------------------------------
Tick ==
  /\ time < MaxTime
  /\ prompt => sent = {} /\ \A n \in Nodes \ crashed : pos[n] = Len(log)
  /\ time' = time + 1
  /\ UNCHANGED <<prompt, sent, log, pos, view, timer, watched, todo, jobs, runs, thrown, calls, faults, crashed>>

(* A node stops, another one than Home; what it applied may be lost.       *)
Crash(n) ==
  /\ n \notin crashed \cup {Home} /\ faults.stopped < MaxCrashes
  /\ faults' = [faults EXCEPT !.stopped = @ + 1]
  /\ crashed' = crashed \cup {n}
  /\ \E lost \in {{}, {x \in sent : x.from = n}} : sent' = sent \ lost
  /\ UNCHANGED <<prompt, time, log, pos, view, timer, watched, todo, jobs, runs, thrown, calls>>

Node(n) ==
  \/ Execute(n) \/ Fire(n)
  \/ \E e \in Events : JobEnds(n, e)
  \/ \E d \in Nodes : Detect(n, d) \/ Complete(n, d)

Next ==
  \/ \E e \in Events : Add(e)
  \/ \E x \in sent : Commit(x)
  \/ \E n \in Nodes : \/ Node(n) \/ Crash(n)
                      \/ \E d \in Nodes : Update(n, d)
                      \/ \E x \in Pending(n) : TimedOut(x)
  \/ Tick

(* The nodes run, the replication goes on, and so does the clock.          *)
Fairness ==
  /\ WF_vars(\E x \in sent : Commit(x))
  /\ \A n \in Nodes : WF_vars(Node(n))
  /\ WF_vars(Tick)

Spec == Init /\ [][Next]_vars /\ Fairness
=============================================================================
