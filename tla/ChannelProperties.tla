-------------------------- MODULE ChannelProperties --------------------------
(***************************************************************************)
(* What is checked of a channel.                                           *)
(***************************************************************************)
EXTENDS Channel, JourneyProperties, FiniteSets

-----------------------------------------------------------------------------
(* Every variable has its type; who closes a channel has somebody to tell, *)
(* and who puts a value tells one.                                         *)
Values == 1 .. MaxPuts

Waiter == [doer : DoerType, call : Nat, late : BOOLEAN]

TypeOK ==
  /\ JourneyTypeOK
  /\ queue \in Seq(Values)
  /\ waiters \in Seq(Waiter)
  /\ closed \in BOOLEAN
  /\ frame \in [Journeys -> [call : Nat, since : Nat, wasSet : BOOLEAN, value : Nat]]
  /\ doing \in [Callers -> [op : {"idle", "set", "tell", "close", "reset"}, value : Nat, ws : Seq(Waiter)]]
  /\ puts \in 0 .. MaxPuts
  /\ closes \in 0 .. MaxCloses
  /\ calls \in [Journeys -> Nat]
  /\ got \in [Journeys -> Seq(Values)]

Busy ==
  /\ \A c \in Callers :
       /\ doing[c].op = "idle" <=> doing[c].ws = <<>>
       /\ doing[c].op \in {"set", "tell"} =>
            Len(doing[c].ws) = 1 /\ doing[c].value \in 1 .. puts
  /\ \A j \in Journeys : frame[j].wasSet => frame[j].value \in 1 .. puts

(* A journey is in a get() that waits from its suspension to its return,   *)
(* and the get() is the last of those that had to.                         *)
Whereabouts ==
  \A j \in Journeys :
    /\ Waits(j) <=> phase[j] \notin {"running", "ended"}
    /\ Waits(j) => frame[j].call = calls[j] /\ calls[j] > 0 /\ frame[j].since <= closes

(* A value is in one place at a time: in the queue, with the thread that   *)
(* hands it over, in the frame of the one that waited, or got.  So no      *)
(* value is got twice, whoever is cancelled when.                          *)
Places(v) ==
  {<<"queue", i>> : i \in {i \in DOMAIN queue : queue[i] = v}}
    \cup {<<"doing", c>> : c \in {c \in Callers : doing[c].op = "set" /\ doing[c].value = v}}
    \cup {<<"frame", j>> : j \in {j \in Journeys : frame[j].wasSet /\ frame[j].value = v}}
    \cup UNION {{<<"got", j, i>> : i \in {i \in DOMAIN got[j] : got[j][i] = v}} : j \in Journeys}

GotOnce == \A v \in Values : Cardinality(Places(v)) <= 1

(* The same without counting: each kind of place has a value once, a value *)
(* is in one kind of place, and there are those only that were put.        *)
InQueue(v) == \E i \in DOMAIN queue : queue[i] = v
InHands(v) == \E c \in Callers : doing[c].op = "set" /\ doing[c].value = v
InFrame(v) == \E j \in Journeys : frame[j].wasSet /\ frame[j].value = v
IsGot(v) == \E j \in Journeys : \E i \in DOMAIN got[j] : got[j][i] = v

There(v) == InQueue(v) \/ InHands(v) \/ InFrame(v) \/ IsGot(v)

NoneTwice ==
  /\ \A i, k \in DOMAIN queue : queue[i] = queue[k] => i = k
  /\ \A c, d \in Callers :
       doing[c].op = "set" /\ doing[d].op = "set" /\ doing[c].value = doing[d].value => c = d
  /\ \A j, k \in Journeys :
       frame[j].wasSet /\ frame[k].wasSet /\ frame[j].value = frame[k].value => j = k
  /\ \A j, k \in Journeys : \A i \in DOMAIN got[j] : \A l \in DOMAIN got[k] :
       got[j][i] = got[k][l] => j = k /\ i = l

Apart ==
  \A v \in Values :
    /\ InQueue(v) => ~InHands(v) /\ ~InFrame(v) /\ ~IsGot(v)
    /\ InHands(v) => ~InFrame(v) /\ ~IsGot(v)
    /\ InFrame(v) => ~IsGot(v)
    /\ InQueue(v) \/ InHands(v) \/ InFrame(v) \/ IsGot(v) => v \in 1 .. puts

-----------------------------------------------------------------------------
(* The waiters that were left and not dropped yet, in the channel or in    *)
(* the hands of a thread, and those of them that a thread has acquired.    *)
Pending ==
  {waiters[i] : i \in DOMAIN waiters}
    \cup UNION {{doing[c].ws[i] : i \in DOMAIN doing[c].ws} : c \in Callers}

Acquired ==
  {Head(doing[c].ws) : c \in {c \in Callers : doing[c].op \in {"set", "tell", "reset"}}}

(* A waiter is of a get() that did wait, and left in one place.            *)
Same(v, w) == v.doer.who = w.doer.who /\ v.call = w.call

LeftOnce ==
  /\ \A i, k \in DOMAIN waiters : Same(waiters[i], waiters[k]) => i = k
  /\ \A c \in Callers : \A i, k \in DOMAIN doing[c].ws :
       Same(doing[c].ws[i], doing[c].ws[k]) => i = k
  /\ \A c \in Callers : \A i \in DOMAIN waiters : \A k \in DOMAIN doing[c].ws :
       ~Same(waiters[i], doing[c].ws[k])
  /\ \A c, d \in Callers : \A i \in DOMAIN doing[c].ws : \A k \in DOMAIN doing[d].ws :
       Same(doing[c].ws[i], doing[d].ws[k]) => c = d

(* If the get() still waits, nothing was written to it until set() did,    *)
(* and nothing but an event can have made its waiter useless.              *)
Written(w) == \E c \in Callers : doing[c].op = "tell" /\ Head(doing[c].ws) = w

LeftByWaiting ==
  \A w \in Pending :
    /\ w.call \in 1 .. calls[w.doer.who]
    /\ w.doer.counter <= flags[w.doer.who].counter
    /\ HasFrame(w) => (frame[w.doer.who].wasSet <=> Written(w))
    /\ HasFrame(w) /\ w.doer.counter < flags[w.doer.who].counter
         => flags[w.doer.who].raised # {}

(* One whom a thread that closes is to tell waited before.                 *)
ClosedLater ==
  \A c \in Callers : doing[c].op \in {"close", "reset"} =>
    \A i \in DOMAIN doing[c].ws :
      LET w == doing[c].ws[i]
      IN  HasFrame(w) => frame[w.doer.who].since < closes

(* Somebody waits only if there is nothing to be had.                      *)
NothingToGet == waiters # <<>> => queue = <<>> /\ ~closed

(* A journey sleeps and nothing is there that could wake it.               *)
Asleep(j) ==
  /\ phase[j] \in {"yielded", "suspended"}
  /\ phase[j] = "suspended" => ~flags[j].entered
  /\ ~flags[j].done
  /\ flags[j].enabled => flags[j].raised = {}

(* A waiter left with nothing from before is the only one of its journey,  *)
(* and the journey sleeps in that get() as long as the waiter is acquired  *)
(* or can be.                                                              *)
SleepsSoundly ==
  \A w \in Pending :
    LET j == w.doer.who
    IN  ~w.late /\ (w \in Acquired \/ Usable(w)) =>
          /\ HasFrame(w)
          /\ Asleep(j)
          /\ flags[j].enabled = (w.doer.enabled /\ w \notin Acquired)
          /\ \A v \in Pending : v.doer.who = j => v = w

(* Nobody who waits is forgotten: the one that waits is done, or an event  *)
(* is on its way to it, or its waiter is there for the next to put or to   *)
(* close - and then there is no value that it could have got - or is in    *)
(* the hands of one that puts or closes.                                   *)
NobodyForgotten ==
  \A j \in Journeys :
    LET Mine(w) == w.doer.who = j /\ w.call = frame[j].call
    IN  Waits(j) =>
          \/ flags[j].done
          \/ flags[j].raised # {}
          \/ /\ \E i \in DOMAIN waiters : Mine(waiters[i])
             /\ queue = <<>> /\ ~closed
          \/ \E c \in Callers : \E i \in DOMAIN doing[c].ws : Mine(doing[c].ws[i])

(* Nobody has raised an event, or nobody ever will.                        *)
Undisturbed == events = 0 \/ Calm

(* A value that was put is lost only to events, and in two ways.  One is   *)
(* thrown out of the get() whose frame has the value already; or put()     *)
(* gives the value to a waiter whose get() is over.  Such a get() began    *)
(* when something was there that could end it: an event, the Done flag     *)
(* that an earlier get() had left, or an earlier get()'s waiter.  It need  *)
(* not throw: ended by the flag it returns FALSE, its own waiter stays     *)
(* behind, and the next value that is given to it sets the flag again.     *)
ThrownOut(v) == \E j \in Journeys : frame[j].wasSet /\ frame[j].value = v /\ GetThrows(j)

GivenTooLate(v) ==
  \E c \in Callers :
    LET w == Head(doing[c].ws)
    IN  Set(c) /\ doing[c].value = v /\ w.late /\ ~HasFrame(w)

LostToEventsOnly ==
  [][\A v \in Values :
       There(v) /\ ~There(v)' => ~Undisturbed /\ (ThrownOut(v) \/ GivenTooLate(v))]_vars

(* The frame that set() writes to is there, unless something from before   *)
(* the get() could end it: such a call leaves a waiter that can be         *)
(* acquired.  No event that comes later can do that.                       *)
FrameIsThere ==
  \A c \in Callers : doing[c].op = "set" =>
    HasFrame(Head(doing[c].ws)) \/ Head(doing[c].ws).late

-----------------------------------------------------------------------------
(* Before the first event there is nothing from before a get(), and a      *)
(* get() that goes on is done and returns.                                 *)
CalmWaiting ==
  Undisturbed =>
    /\ \A w \in Pending : ~w.late /\ Usable(w)
    /\ \A j \in Journeys :
         /\ flags[j].raised = {} /\ seen[j].raised = {}
         /\ flags[j].done => Waits(j)
         /\ phase[j] = "suspended" /\ flags[j].entered => flags[j].done
         /\ phase[j] = "resumed" => flags[j].done
         /\ phase[j] = "handling" => seen[j].done

(* Before the first event get() returns FALSE, the end of a loop over the  *)
(* channel, only if the channel was closed since it was called.            *)
EndMeansClosed ==
  \A j \in Journeys :
    Undisturbed /\ Waits(j) /\ flags[j].done /\ ~frame[j].wasSet => closes > frame[j].since

(* Without events a get() that waits when the channel is closed returns,   *)
(* even if the channel is opened again.                                    *)
ClosedIsTold ==
  \A j \in Journeys : Calm /\ Waits(j) /\ closes > frame[j].since ~> ~Waits(j)

(* Without events a channel is a queue: the values go to those that get    *)
(* them first in, first out.                                               *)
Handed(j) ==
  IF frame[j].wasSet
    THEN <<frame[j].value>>
    ELSE IF \E c \in Callers : doing[c].op = "set" /\ Head(doing[c].ws).doer.who = j
           THEN LET c == CHOOSE c \in Callers :
                           doing[c].op = "set" /\ Head(doing[c].ws).doer.who = j
                IN  <<doing[c].value>>
           ELSE <<>>

Queue == INSTANCE Fifo WITH
  Getters <- Journeys,
  items <- queue,
  given <- [j \in Journeys |-> got[j] \o Handed(j)],
  made <- puts

FirstInFirstOut ==
  /\ Calm => Queue!Init
  /\ [][Calm => Queue!Next]_(Queue!vars)

-----------------------------------------------------------------------------
(* Together they are inductive.                                            *)
ValuesHold == NoneTwice /\ Apart

WaitersHold ==
  LeftOnce /\ LeftByWaiting /\ ClosedLater /\ NothingToGet /\ SleepsSoundly

CalmHolds == CalmWaiting /\ EndMeansClosed

ChannelInv ==
  /\ TypeOK /\ Busy /\ ResumedOnce /\ Whereabouts
  /\ ValuesHold /\ GotOnce
  /\ WaitersHold /\ FrameIsThere
  /\ CalmHolds
=============================================================================
