------------------------------- MODULE Channel -------------------------------
(***************************************************************************)
(* The channel of include/synca/channel.h.  Journeys get values from it    *)
(* and wait if there are none; threads put values and close it, which      *)
(* suspends nobody.  Whoever waits leaves the address of a variable on its *)
(* stack, its frame here, and the value is written there.                  *)
(*                                                                         *)
(* What is done under the mutex is one action.  A put() in a closed        *)
(* channel throws and a get() from a closed, empty one returns FALSE at    *)
(* once: neither changes anything.                                         *)
(***************************************************************************)
EXTENDS Journey

CONSTANTS
  Callers,    \* the threads that put, close and open
  MaxPuts,    \* bound: how many values are put, 1, 2, 3 ...
  MaxCloses   \* bound: how often the channel is closed

ASSUME ChannelAssumption == MaxPuts \in Nat /\ MaxCloses \in Nat

VARIABLES
  queue,    \* the values nobody waits for
  waiters,  \* waiters_
  closed,   \* closed
  frame,    \* frame[j]: val and wasSet of a get() of j that waits
  doing,    \* doing[c]: what c is about to do, the mutex released
  puts,     \* how many values were put
  closes,   \* how often the channel was closed
  calls,    \* calls[j]: how many get() of j had to wait
  got       \* got[j]: the values that get() returned to j

channelVars == <<queue, waiters, closed, frame, doing, puts, closes, calls, got>>

vars == <<journeyVars, channelVars>>

-----------------------------------------------------------------------------
(* The frame of the k-th get() that waits, entered when the channel had    *)
(* been closed n times; and no frame.                                      *)
NewFrame(k, n) == [call |-> k, since |-> n, wasSet |-> FALSE, value |-> 0]

NoFrame == NewFrame(0, 0)

Idle == [op |-> "idle", value |-> 0, ws |-> <<>>]

(* A new channel, as if n values were put and it was closed m times.       *)
New(n, m) ==
  /\ queue = <<>>
  /\ waiters = <<>>
  /\ closed = FALSE
  /\ frame = [j \in Journeys |-> NoFrame]
  /\ doing = [c \in Callers |-> Idle]
  /\ puts = n
  /\ closes = m
  /\ calls = [j \in Journeys |-> 0]
  /\ got = [j \in Journeys |-> <<>>]

Init == JourneyInit /\ New(0, 0)

Waits(j) == frame[j] # NoFrame

Popped(q) == Tail(q)

(* get() with a value in the queue.                                        *)
GetNow(j) ==
  /\ phase[j] = "running"
  /\ ~Waits(j)
  /\ queue # <<>>
  /\ got' = [got EXCEPT ![j] = Append(@, Head(queue))]
  /\ queue' = Popped(queue)
  /\ UNCHANGED <<journeyVars, waiters, closed, frame, doing, puts, closes, calls>>

(* Something from before a get() may end it: an event, the Done flag, or a *)
(* waiter that an earlier get() left behind.                               *)
MayEnd(j) ==
  LET Left(ws) == \E i \in DOMAIN ws : ws[i].doer.who = j
  IN  \/ flags[j].done \/ flags[j].raised # {}
      \/ Left(waiters) \/ \E c \in Callers : Left(doing[c].ws)

(* get() with none: leave a waiter and wait.                               *)
GetWait(j) ==
  /\ ~Waits(j)
  /\ queue = <<>>
  /\ ~closed
  /\ calls' = [calls EXCEPT ![j] = @ + 1]
  /\ waiters' = Append(waiters, [doer |-> Doer(j), call |-> calls'[j],
                               late |-> MayEnd(j)])
  /\ frame' = [frame EXCEPT ![j] = NewFrame(calls'[j], closes)]
  /\ WaitForDone(j)
  /\ UNCHANGED <<queue, closed, doing, puts, closes, got>>

GetReturns(j) ==
  /\ Waits(j)
  /\ Returns(j)
  /\ got' = [got EXCEPT ![j] = IF frame[j].wasSet
                                 THEN Append(@, frame[j].value) ELSE @]
  /\ frame' = [frame EXCEPT ![j] = NoFrame]
  /\ UNCHANGED <<queue, waiters, closed, doing, puts, closes, calls>>

GetThrows(j) ==
  /\ Waits(j)
  /\ Throws(j)
  /\ frame' = [frame EXCEPT ![j] = NoFrame]
  /\ UNCHANGED <<queue, waiters, closed, doing, puts, closes, calls, got>>

-----------------------------------------------------------------------------
(* A waiter that acquire() succeeds for, and those behind the i-th.        *)
Usable(w) == Acquirable(w.doer)

(* A slip: the waiter that was acquired stays in the queue.                *)
BehindNone(i) == SubSeq(waiters, i, Len(waiters))

Behind(i) == SubSeq(waiters, i + 1, Len(waiters))

(* put() gives the value to the first waiter that can be acquired.         *)
Put(c) ==
  /\ doing[c] = Idle
  /\ ~closed
  /\ puts < MaxPuts
  /\ puts' = puts + 1
  /\ \/ /\ \A i \in DOMAIN waiters : ~Usable(waiters[i])
        /\ waiters' = <<>>
        /\ queue' = Append(queue, puts')
        /\ UNCHANGED <<doing, flags>>
     \/ \E i \in DOMAIN waiters :
          /\ Usable(waiters[i])
          /\ \A k \in 1 .. i - 1 : ~Usable(waiters[k])
          /\ waiters' = Behind(i)
          /\ doing' = [doing EXCEPT ![c] =
                         [op |-> "set", value |-> puts', ws |-> <<waiters[i]>>]]
          /\ flags' = [flags EXCEPT ![waiters[i].doer.who] = Disabled(waiters[i].doer)]
          /\ UNCHANGED queue
  /\ UNCHANGED <<phase, seen, ready, kept, events, closed, frame, closes, calls, got>>

(* Whether the stack still has what the waiter points to.                  *)
HasFrame(w) == frame[w.doer.who].call = w.call

(* A slip in set(): nobody says that there is a value.                     *)
FilledUnmarked(f, v) == [f EXCEPT !.value = v]

Filled(f, v) == [f EXCEPT !.wasSet = TRUE, !.value = v]

(* Waiter::set() writes the value; if the frame is gone the write goes     *)
(* anywhere, and the value is lost.  Then it tells the journey.            *)
Set(c) ==
  LET w == Head(doing[c].ws)
      j == w.doer.who
  IN  /\ doing[c].op = "set"
      /\ frame' = IF HasFrame(w)
                    THEN [frame EXCEPT ![j] = Filled(@, doing[c].value)] ELSE frame
      /\ doing' = [doing EXCEPT ![c].op = "tell"]
      /\ UNCHANGED <<journeyVars, queue, waiters, closed, puts, closes, calls, got>>

-----------------------------------------------------------------------------
(* A slip in close(): the last of those that wait is left alone.           *)
ClosingButLast(ws) ==
  IF Len(ws) < 2 THEN Idle ELSE [op |-> "close", value |-> 0, ws |-> ws]

Closing(ws) ==
  IF ws = <<>> THEN Idle ELSE [op |-> "close", value |-> 0, ws |-> ws]

Close(c) ==
  /\ doing[c] = Idle
  /\ ~closed
  /\ closes < MaxCloses
  /\ closed' = TRUE
  /\ closes' = closes + 1
  /\ doing' = [doing EXCEPT ![c] = Closing(waiters)]
  /\ waiters' = <<>>
  /\ UNCHANGED <<journeyVars, queue, frame, puts, calls, got>>

(* Waiter::reset() acquires, if it can, ...                                *)
Reset(c) ==
  LET w == Head(doing[c].ws)
  IN  /\ doing[c].op = "close"
      /\ \/ /\ Usable(w)
            /\ doing' = [doing EXCEPT ![c].op = "reset"]
            /\ flags' = [flags EXCEPT ![w.doer.who] = Disabled(w.doer)]
         \/ /\ ~Usable(w)
            /\ doing' = [doing EXCEPT ![c] = Closing(Tail(doing[c].ws))]
            /\ UNCHANGED flags
      /\ UNCHANGED <<phase, seen, ready, kept, events,
                     queue, waiters, closed, frame, puts, closes, calls, got>>

(* ... and tells the journey, as set() does.                               *)
Told(c) ==
  /\ doing[c].op \in {"tell", "reset"}
  /\ ReleaseAndDone(Head(doing[c].ws).doer)
  /\ doing' = [doing EXCEPT ![c] = Closing(Tail(doing[c].ws))]
  /\ UNCHANGED <<phase, seen, kept, events,
                 queue, waiters, closed, frame, puts, closes, calls, got>>

Open(c) ==
  /\ doing[c] = Idle
  /\ closed
  /\ closed' = FALSE
  /\ UNCHANGED <<journeyVars, queue, waiters, frame, doing, puts, closes, calls, got>>

-----------------------------------------------------------------------------
(* Outside of get() a journey may protect itself from events, or end.      *)
Prepare(j) ==
  /\ ~Waits(j)
  /\ Guard(j) \/ Unguard(j) \/ Ends(j)
  /\ UNCHANGED channelVars

Run(j) ==
  /\ ResetEntered(j) \/ Proceed0(j) \/ Load(j)
  /\ UNCHANGED channelVars

Event(j) ==
  /\ \E event \in {"cancelled", "timedout"} : Raise(j, event)
  /\ UNCHANGED channelVars

Getter(j) ==
  \/ GetNow(j) \/ GetWait(j) \/ GetReturns(j) \/ GetThrows(j)
  \/ Prepare(j) \/ Run(j) \/ Event(j)

Caller(c) ==
  \/ Put(c) \/ Set(c) \/ Close(c) \/ Reset(c) \/ Told(c) \/ Open(c)

Next == (\E j \in Journeys : Getter(j)) \/ (\E c \in Callers : Caller(c))

Spec == Init /\ [][Next]_vars

(* The threads of the pool run what is scheduled, and put() and close()    *)
(* come to their end once begun.                                           *)
Fairness ==
  /\ \A j \in Journeys : WF_vars(Run(j) \/ GetReturns(j) \/ GetThrows(j))
  /\ \A c \in Callers : WF_vars(Set(c) \/ Reset(c) \/ Told(c))

FairSpec == Spec /\ Fairness
=============================================================================
