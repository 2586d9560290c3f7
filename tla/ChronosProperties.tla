-------------------------- MODULE ChronosProperties --------------------------
(***************************************************************************)
(* What those rely on who schedule handlers with Chronos.                  *)
(***************************************************************************)
EXTENDS Chronos

Image(s) == {s[i] : i \in DOMAIN s}
Held(v) == Image([i \in DOMAIN v.events |-> v.events[i].event])
             \cup Image(v.awaiting) \cup Image(v.running)
Executed(n, kind, of) == \E i \in 1 .. pos[n] : log[i].kind = kind /\ log[i].of = of

(* Nobody stopped, and nothing was executed late.                          *)
Calm == prompt /\ crashed = {}

(* ... or one is left alone: several that survive need not agree any more, *)
(* since each takes the slot of the dead away outside the transaction.     *)
Undisputed == prompt /\ (crashed = {} \/ Cardinality(Nodes) = 2)

(* The types, and that a handler is given out when there is a slot.        *)
TypeOK ==
  /\ time \in 0 .. MaxTime
  /\ caller \in [Events -> {"new", "waiting", "returned", "threw"}]
  /\ \A l \in late : l.call.from \in Nodes /\ l.later \subseteq Events
  /\ \A n \in Nodes :
       /\ pos[n] \in 0 .. Len(log)
       /\ jobs[n] \subseteq Events
       /\ view[n].awaiting = <<>> \/ view[n].slots = <<>>

(* In the eyes of each node every other node has a slot or runs a handler, *)
(* and never both or a slot twice, also a node that was removed.           *)
OneSlotEach ==
  Undisputed => \A n \in Nodes :
    LET v == view[n]
    IN  /\ \A i, j \in DOMAIN v.slots : v.slots[i] = v.slots[j] => i = j
        /\ Image(v.slots) \cap DOMAIN v.running = {}
        /\ watched[n] \cup {n} \subseteq Image(v.slots) \cup DOMAIN v.running

(* A node runs one handler at a time, whatever the others believe that it  *)
(* does.                                                                   *)
OneJobAtATime == \A n \in Nodes : Cardinality(jobs[n]) <= 1

(* A node that was removed, also one that a pulse put back, has a slot or  *)
(* runs a handler only because it has completed a handler, and this was    *)
(* ordered behind its removal.                                             *)
GhostSlot ==
  \A n \in Nodes : \A d \in Nodes \ ({n} \cup todo[n]) :
    LET Places(kind) == {i \in 1 .. pos[n] : log[i].kind = kind /\ log[i].of = d}
    IN  Places("remove") # {} /\ d \in Image(view[n].slots) \cup DOMAIN view[n].running
          => \E i \in Places("remove"), j \in Places("done") : i < j

(* Whoever adds an event and returns finds it on its own node, also while  *)
(* others execute it first and others' calls time out: but not when it is  *)
(* woken in the place of a call that was over before it began.             *)
ReadsOwnWrite ==
  [][\A e \in Events : caller[e] = "waiting" /\ caller'[e] = "returned" =>
       \/ \E i \in 1 .. pos'[Home] : log[i] = Transaction("add", Home, e)
       \/ \E l \in late \ late' : /\ e \in l.later
                                  /\ l.call.from = Home
                                  /\ log[pos'[Home]] = l.call]_vars

(* While events wait, a node waits for its timer or has applied the time.  *)
TimerIsSet ==
  \A n \in Nodes \ crashed : view[n].events # <<>> =>
    \/ timer[n]
    \/ \E x \in sent : x.kind = "upto" /\ x.from = n
    \/ \E i \in pos[n] + 1 .. Len(log) : log[i].kind = "upto" /\ log[i].from = n

(* As long as nobody stopped and nothing was late, the nodes agree on who  *)
(* runs what at every place of the log.                                    *)
Uniform ==
  Calm => \A n, m \in Nodes : pos[n] = pos[m] => view[n] = view[m]

(* ... and no event is run twice.                                          *)
RunsOnce == Calm => \A e \in Events : runs[e] <= 1

(* A node forgets an event only when the node that it believes runs it has *)
(* completed a handler: and this handler was started and runs no more.     *)
KeptUntilDone ==
  [][Undisputed => \A n \in Nodes : \A e \in Held(view[n]) \ Held(view'[n]) :
       LET x == log[pos'[n]]
       IN  /\ pos'[n] > pos[n] /\ x.kind = "done"
           /\ x.of \in DOMAIN view[n].running /\ view[n].running[x.of] = e
           /\ runs[e] > 0 /\ e \notin jobs[x.of]]_vars

(* A call of replobApplySync() ends without its Timeout, and the event it  *)
(* adds is run once its time has come, unless somebody stopped, something  *)
(* was late, or a handler threw: the slot it had is not given back.        *)
EventRuns ==
  \A e \in Events :
    caller[e] = "waiting"
      ~> ((caller[e] = "returned" /\ runs[e] > 0) \/ ~Calm \/ thrown # {})

-----------------------------------------------------------------------------
(* How the nodes share slots and handlers, each at its own place of the    *)
(* log, and that the next event is always waited for.                      *)
ChronosInv ==
  /\ TypeOK
  /\ OneSlotEach /\ GhostSlot /\ OneJobAtATime
  /\ Uniform /\ RunsOnce
  /\ TimerIsSet
=============================================================================
