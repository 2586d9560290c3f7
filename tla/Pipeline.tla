------------------------------- MODULE Pipeline -------------------------------
(***************************************************************************)
(* Pipelines of data.h: stages that get values from one channel and put    *)
(* what they make of them into the next, each with some workers, which are *)
(* journeys that close the next channel when they end.                     *)
(*                                                                         *)
(* A channel is what Fifo says, and it is closed or not.  ThreadPool's     *)
(* wait() returns when nothing can run, as it does for one thread (Pool).  *)
(***************************************************************************)
EXTENDS Integers, Sequences

CONSTANTS
  Shapes,     \* pipelines: how many workers each stage has
  Yields,     \* Yields[k]: how many values stage k may make of one: 1 in
              \* piping1to1, 0 or 1 in piping1to01, any in piping1toMany
  Faulty,     \* the values that the handler of a stage may throw for
  MaxValues,  \* bound on the values, which are 1, 2, 3 ...
  MaxCancels  \* bound on the calls of cancel()

ASSUME PipelineAssumption == MaxValues \in Nat /\ MaxCancels \in Nat

VARIABLES
  shape,    \* the pipeline of this run: it never changes
  chan,     \* chan[k]: what is in the channel behind stage k; 0 is the first
  closed,   \* the channels that were closed
  worker,   \* worker[k][i]: where it is, its value, how many it has to put
  pending,  \* the workers that have an event, as <<k, i>>
  feeder,   \* who fills the first channel: with a "closer", which has "closed"
            \* then; or to "closeAndWait", "waiting" there, and "returned"
  fed,      \* how many values it has put
  skipped,  \* values that a handler made nothing of
  lost,     \* those that were lost, where and why
  cancels   \* how many calls of cancel() there were

vars == <<shape, chan, closed, worker, pending, feeder, fed, skipped, lost, cancels>>

-----------------------------------------------------------------------------
Stages == 1 .. Len(shape)
Workers == UNION {{<<k, i>> : i \in 1 .. shape[k]} : k \in Stages}

At(place, v, n) == [at |-> place, value |-> v, left |-> n]

Init ==
  /\ shape \in Shapes
  /\ chan = [k \in 0 .. Len(shape) |-> <<>>]
  /\ closed = {}
  /\ worker = [w \in Workers |-> At("new", 0, 0)]
  /\ pending = {}
  /\ feeder \in {"closer", "closeAndWait"}
  /\ fed = 0
  /\ skipped = {}
  /\ lost = {}
  /\ cancels = 0

Goes(w, place, v, n) == worker' = [worker EXCEPT ![w] = At(place, v, n)]

Source(w) == chan[w[1] - 1]
SourceClosed(w) == w[1] - 1 \in closed

(* goN(): it comes to run.                                                 *)
Start(w) ==
  /\ worker[w].at = "new"
  /\ Goes(w, "get", 0, 0)
  /\ UNCHANGED <<shape, chan, closed, pending, feeder, fed, skipped, lost, cancels>>

(* The next value of the loop over the source is there ...                *)
Take(w) ==
  /\ worker[w].at = "get" /\ Source(w) # <<>>
  /\ Goes(w, "work", Head(Source(w)), 0)
  /\ chan' = [chan EXCEPT ![w[1] - 1] = Tail(@)]
  /\ UNCHANGED <<shape, closed, pending, feeder, fed, skipped, lost, cancels>>

(* ... or the worker waits, is given one, and wakes up with it.            *)
Wait(w) ==
  /\ worker[w].at = "get" /\ Source(w) = <<>> /\ ~SourceClosed(w)
  /\ Goes(w, "wait", 0, 0)
  /\ UNCHANGED <<shape, chan, closed, pending, feeder, fed, skipped, lost, cancels>>

Wake(w) ==
  /\ worker[w].at = "given" /\ w \notin pending
  /\ Goes(w, "work", worker[w].value, 0)
  /\ UNCHANGED <<shape, chan, closed, pending, feeder, fed, skipped, lost, cancels>>

(* A slip: the closer is there only if the loop came to its end.            *)
ClosesAtEnd(w) == closed' = IF w \in pending THEN closed ELSE closed \cup {w[1]}

(* ~Closer().                                                              *)
Closes(w) == closed' = closed \cup {w[1]}

AtEnd(w) == Source(w) = <<>> /\ SourceClosed(w)

(* The loop is over: the source is, or an event is thrown out of it, and a *)
(* value that was given to the worker by then is lost.                     *)
Leave(w) ==
  /\ \/ worker[w].at \in {"get", "wait"} /\ AtEnd(w)
     \/ worker[w].at \in {"wait", "given"} /\ w \in pending
  /\ Goes(w, "left", 0, 0)
  /\ Closes(w)
  /\ pending' = pending \ {w}
  /\ lost' = IF worker[w].at = "given"
               THEN lost \cup {[value |-> worker[w].value, stage |-> w[1], why |-> "event"]}
               ELSE lost
  /\ UNCHANGED <<shape, chan, feeder, fed, skipped, cancels>>

-----------------------------------------------------------------------------
(* A worker that has to put v n more times.                                *)
ToPut(v, n) == IF n = 0 THEN At("get", 0, 0) ELSE At("put", v, n)

(* The handler makes n values of one ...                                   *)
Work(w, n) ==
  /\ worker[w].at = "work"
  /\ worker' = [worker EXCEPT ![w] = ToPut(@.value, n)]
  /\ skipped' = IF n = 0 THEN skipped \cup {worker[w].value} ELSE skipped
  /\ UNCHANGED <<shape, chan, closed, pending, feeder, fed, lost, cancels>>

(* ... or throws, perhaps an event: the loop goes on in either case.       *)
Throw(w) ==
  /\ worker[w].at = "work"
  /\ worker[w].value \in Faulty \/ w \in pending
  /\ Goes(w, "get", 0, 0)
  /\ pending' \in {pending, pending \ {w}}
  /\ worker[w].value \notin Faulty => pending' # pending
  /\ skipped' = skipped \cup {worker[w].value}
  /\ UNCHANGED <<shape, chan, closed, feeder, fed, lost, cancels>>

Queued(q, v) == Append(q, v)

(* put(v) into chan[k], the workers being ws: whoever waits there and had  *)
(* no event is given v.                                                    *)
Gives(k, v, ws) ==
  LET waiting == {w \in Workers : w[1] = k + 1 /\ ws[w].at = "wait" /\ w \notin pending}
  IN  \/ /\ waiting = {}
         /\ chan' = [chan EXCEPT ![k] = Queued(@, v)]
         /\ worker' = ws
      \/ \E w \in waiting :
           /\ worker' = [ws EXCEPT ![w] = At("given", v, 0)]
           /\ UNCHANGED chan

(* put() throws if somebody has closed the channel, and that is caught.    *)
Put(w) ==
  LET v == worker[w].value
  IN  /\ worker[w].at = "put"
      /\ \/ /\ w[1] \notin closed
            /\ Gives(w[1], v, [worker EXCEPT ![w] = ToPut(v, worker[w].left - 1)])
            /\ UNCHANGED lost
         \/ /\ w[1] \in closed
            /\ lost' = lost \cup {[value |-> v, stage |-> w[1], why |-> "closed"]}
            /\ Goes(w, "get", 0, 0)
            /\ UNCHANGED chan
  /\ UNCHANGED <<shape, closed, pending, feeder, fed, skipped, cancels>>

-----------------------------------------------------------------------------
Feed ==
  /\ feeder \in {"closer", "closeAndWait"} /\ fed < MaxValues
  /\ fed' = fed + 1
  /\ Gives(0, fed', worker)
  /\ UNCHANGED <<shape, closed, pending, feeder, skipped, lost, cancels>>

(* Nothing can run: every worker waits, or has left.                       *)
Idle ==
  \A w \in Workers :
    \/ worker[w].at = "left"
    \/ worker[w].at = "wait" /\ w \notin pending /\ ~SourceClosed(w)

(* A slip: closeAndWait() waits only behind the close.                     *)
MayCloseAtOnce == fed = MaxValues

MayClose == fed = MaxValues /\ (feeder = "closeAndWait" => Idle)

Close ==
  /\ feeder \in {"closer", "closeAndWait"}
  /\ MayClose
  /\ closed' = closed \cup {0}
  /\ feeder' = IF feeder = "closer" THEN "closed" ELSE "waiting"
  /\ UNCHANGED <<shape, chan, worker, pending, fed, skipped, lost, cancels>>

Return ==
  /\ feeder = "waiting" /\ Idle
  /\ feeder' = "returned"
  /\ UNCHANGED <<shape, chan, closed, worker, pending, fed, skipped, lost, cancels>>

(* Somebody cancels a worker.                                              *)
Cancel(w) ==
  /\ worker[w].at \notin {"new", "left"} /\ cancels < MaxCancels
  /\ pending' = pending \cup {w}
  /\ cancels' = cancels + 1
  /\ UNCHANGED <<shape, chan, closed, worker, feeder, fed, skipped, lost>>

Step(w) ==
  \/ Start(w) \/ Take(w) \/ Wait(w) \/ Wake(w) \/ Leave(w)
  \/ (\E n \in Yields[w[1]] : Work(w, n)) \/ Throw(w) \/ Put(w)

Feeder == Feed \/ Close \/ Return

Next == Feeder \/ \E w \in Workers : Step(w) \/ Cancel(w)

(* The pool runs what can run, and the handlers return.                    *)
Fairness ==
  /\ WF_vars(Feeder)
  /\ \A k \in 1 .. 3, i \in 1 .. 3 : WF_vars(<<k, i>> \in Workers /\ Step(<<k, i>>))

Spec == Init /\ [][Next]_vars /\ Fairness
=============================================================================
