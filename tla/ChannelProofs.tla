---------------------------- MODULE ChannelProofs ----------------------------
(***************************************************************************)
(* Proofs about the channel, for every set of journeys and of threads, any *)
(* number of values and of events, and a channel closed any number of      *)
(* times.                                                                  *)
(***************************************************************************)
EXTENDS ChannelProperties, JourneyProofs, SequenceTheorems, FiniteSetTheorems

USE ChannelAssumption

Work == [op : {"idle", "set", "tell", "close", "reset"}, value : Nat, ws : Seq(Waiter)]

Frame == [call : Nat, since : Nat, wasSet : BOOLEAN, value : Nat]

-----------------------------------------------------------------------------
(* The parts of waiters, of frames and of what a thread is doing.          *)
LEMMA WaiterParts ==
  ASSUME NEW w \in Waiter
  PROVE  /\ w.doer \in DoerType
         /\ w.doer.who \in Journeys /\ w.doer.counter \in Nat /\ w.doer.enabled \in BOOLEAN
         /\ w.call \in Nat /\ w.late \in BOOLEAN
BY DEF Waiter, DoerType

LEMMA Frames ==
  ASSUME TypeOK, NEW j \in Journeys
  PROVE  /\ frame[j] \in Frame
         /\ frame[j].call \in Nat /\ frame[j].since \in Nat
         /\ frame[j].wasSet \in BOOLEAN /\ frame[j].value \in Nat
         /\ calls[j] \in Nat
BY DEF TypeOK, Frame

(* A waiter is of a call of get() that was numbered, an idle frame is not. *)
LEMMA CallsNumbered ==
  ASSUME TypeOK, LeftByWaiting, NEW w \in Pending, NEW j \in Journeys, w.doer.who = j
  PROVE  w.call > 0 /\ w.call \in Nat
<1>1. w.call \in 1 .. calls[w.doer.who]
  BY DEF LeftByWaiting
<1>2. w.call \in 1 .. calls[j] /\ calls[j] \in Nat
  BY <1>1, Frames
<1> QED
  BY <1>2

LEMMA NumberedWaits ==
  ASSUME NEW j \in Journeys, frame[j].call # 0
  PROVE  Waits(j)
<1>1. NoFrame.call = 0
  BY DEF NoFrame, NewFrame
<1> QED
  BY <1>1 DEF Waits

LEMMA FlagParts ==
  ASSUME JourneyTypeOK, NEW j \in Journeys
  PROVE  /\ flags[j] \in Flags
         /\ flags[j].entered \in BOOLEAN /\ flags[j].enabled \in BOOLEAN
         /\ flags[j].done \in BOOLEAN /\ flags[j].counter \in Nat
         /\ flags[j].raised \in SUBSET {"cancelled", "timedout"}
         /\ seen[j] \in Flags
BY DEF JourneyTypeOK, Flags

LEMMA Lists ==
  ASSUME TypeOK
  PROVE  /\ Len(queue) \in Nat /\ DOMAIN queue = 1 .. Len(queue)
         /\ \A i \in DOMAIN queue : queue[i] \in Values
         /\ Len(waiters) \in Nat /\ DOMAIN waiters = 1 .. Len(waiters)
         /\ \A i \in DOMAIN waiters : waiters[i] \in Waiter
         /\ \A j \in Journeys :
              /\ Len(got[j]) \in Nat /\ DOMAIN got[j] = 1 .. Len(got[j])
              /\ \A i \in DOMAIN got[j] : got[j][i] \in Values
<1>1. queue \in Seq(Values) /\ waiters \in Seq(Waiter)
  BY DEF TypeOK
<1>2. ASSUME NEW j \in Journeys
      PROVE  got[j] \in Seq(Values)
  BY DEF TypeOK
<1> QED
  BY <1>1, <1>2, LenProperties, ElementOfSeq

LEMMA Hands ==
  ASSUME TypeOK, NEW c \in Callers
  PROVE  /\ doing[c] \in Work
         /\ doing[c].op \in {"idle", "set", "tell", "close", "reset"} /\ doing[c].value \in Nat
         /\ doing[c].ws \in Seq(Waiter)
         /\ Len(doing[c].ws) \in Nat /\ DOMAIN doing[c].ws = 1 .. Len(doing[c].ws)
         /\ \A i \in DOMAIN doing[c].ws : doing[c].ws[i] \in Waiter
<1>1. doing[c] \in Work
  BY DEF TypeOK, Work
<1>2. doing[c].ws \in Seq(Waiter)
  BY <1>1 DEF Work
<1>3. doing[c].op \in {"idle", "set", "tell", "close", "reset"} /\ doing[c].value \in Nat
  BY <1>1 DEF Work
<1> QED
  BY <1>1, <1>2, <1>3, LenProperties, ElementOfSeq

(* Who does something has a waiter at hand.                                *)
LEMMA First ==
  ASSUME TypeOK, Busy, NEW c \in Callers, doing[c].op # "idle"
  PROVE  /\ doing[c].ws # <<>> /\ 1 \in DOMAIN doing[c].ws
         /\ Head(doing[c].ws) = doing[c].ws[1]
         /\ Head(doing[c].ws) \in Waiter
<1>1. doing[c].ws \in Seq(Waiter) /\ doing[c].ws # <<>>
  BY Hands DEF Busy
<1>2. Len(doing[c].ws) # 0 /\ 1 \in DOMAIN doing[c].ws
  BY <1>1, Hands, EmptySeq
<1> QED
  BY <1>1, <1>2, HeadTailProperties

(* What is left of a list, its first waiter or its first few gone.         *)
LEMMA Rest ==
  ASSUME NEW ws \in Seq(Waiter), ws # <<>>
  PROVE  /\ Tail(ws) \in Seq(Waiter)
         /\ DOMAIN Tail(ws) = 1 .. Len(ws) - 1
         /\ \A i \in DOMAIN Tail(ws) : i + 1 \in DOMAIN ws /\ Tail(ws)[i] = ws[i + 1]
         /\ \A k \in DOMAIN ws : k = 1 \/ k - 1 \in DOMAIN Tail(ws)
<1>1. /\ Tail(ws) \in Seq(Waiter) /\ Len(Tail(ws)) = Len(ws) - 1
      /\ \A i \in 1 .. Len(Tail(ws)) : Tail(ws)[i] = ws[i + 1]
  BY HeadTailProperties
<1>2. DOMAIN ws = 1 .. Len(ws) /\ Len(ws) \in Nat
  BY LenProperties
<1>3. DOMAIN Tail(ws) = 1 .. Len(Tail(ws))
  BY <1>1, LenProperties
<1> QED
  BY <1>1, <1>2, <1>3

LEMMA RestBehind ==
  ASSUME TypeOK, NEW i \in DOMAIN waiters
  PROVE  /\ Behind(i) \in Seq(Waiter)
         /\ DOMAIN Behind(i) = 1 .. Len(waiters) - i
         /\ \A k \in DOMAIN Behind(i) : i + k \in DOMAIN waiters /\ Behind(i)[k] = waiters[i + k]
         /\ \A k \in DOMAIN waiters : k <= i \/ k - i \in DOMAIN Behind(i)
<1>1. i \in Nat /\ i + 1 \in Int /\ Len(waiters) \in Int
  BY Lists
<1>2. \A k \in i + 1 .. Len(waiters) : waiters[k] \in Waiter
  BY <1>1, Lists
<1>3. /\ Behind(i) \in Seq(Waiter)
      /\ Len(Behind(i)) = IF i + 1 <= Len(waiters) THEN Len(waiters) - (i + 1) + 1 ELSE 0
      /\ \A k \in 1 .. Len(waiters) - (i + 1) + 1 : Behind(i)[k] = waiters[i + 1 + k - 1]
  BY <1>1, <1>2, SubSeqProperties DEF Behind
<1>4. DOMAIN Behind(i) = 1 .. Len(Behind(i))
  BY <1>3, LenProperties
<1>5. Len(Behind(i)) = Len(waiters) - i
  BY <1>1, <1>3, Lists
<1>6. \A k \in 1 .. Len(waiters) - i : i + 1 + k - 1 = i + k
  BY <1>1
<1>7. \A k \in DOMAIN Behind(i) : i + k \in DOMAIN waiters /\ Behind(i)[k] = waiters[i + k]
  BY <1>1, <1>3, <1>4, <1>5, <1>6, Lists
<1> QED
  BY <1>1, <1>3, <1>4, <1>5, <1>7, Lists

(* A thread that is to tell some waiters.                                  *)
LEMMA ClosingParts ==
  ASSUME NEW ws \in Seq(Waiter)
  PROVE  /\ Closing(ws) \in Work
         /\ Closing(ws).ws = ws
         /\ Closing(ws).op = IF ws = <<>> THEN "idle" ELSE "close"
BY DEF Closing, Idle, Work

-----------------------------------------------------------------------------
(* Every step of one that gets is an operation on its journey, but for a   *)
(* get() that finds a value.                                               *)
LEMMA GetterOp ==
  ASSUME NEW j \in Journeys, Getter(j)
  PROVE  AnyOp(j) \/ GetNow(j)
BY DEF Getter, AnyOp, GetWait, GetReturns, GetThrows, Throws, Prepare, Run, Event

(* What is common to all: nothing is put or closed.                        *)
LEMMA GetterLeaves ==
  ASSUME NEW j \in Journeys, Getter(j)
  PROVE  UNCHANGED <<closed, doing, puts, closes>>
BY DEF Getter, GetNow, GetWait, GetReturns, GetThrows, Prepare, Run, Event, channelVars

(* The get() that waits, with its waiter and its frame.                    *)
NewWaiter(j) == [doer |-> Doer(j), call |-> calls[j] + 1, late |-> MayEnd(j)]

LEMMA Waiting ==
  ASSUME TypeOK, NEW j \in Journeys, GetWait(j)
  PROVE  /\ phase[j] = "running"
         /\ ~Waits(j) /\ Waits(j)'
         /\ NewWaiter(j) \in Waiter
         /\ waiters' = Append(waiters, NewWaiter(j))
         /\ calls' = [calls EXCEPT ![j] = calls[j] + 1]
         /\ frame' = [frame EXCEPT ![j] = NewFrame(calls[j] + 1, closes)]
         /\ NewFrame(calls[j] + 1, closes) \in Frame
         /\ UNCHANGED flags
<1>1. calls' = [calls EXCEPT ![j] = calls[j] + 1] /\ calls'[j] = calls[j] + 1 /\ calls[j] \in Nat
  BY DEF GetWait, TypeOK
<1>2. Doer(j) \in DoerType
  BY DoerTyped DEF TypeOK
<1>3. MayEnd(j) \in BOOLEAN
  <2>1. flags[j].done \in BOOLEAN
    BY FlagParts DEF TypeOK
  <2> QED
    BY <2>1 DEF MayEnd
<1>4. NewWaiter(j) \in Waiter
  BY <1>1, <1>2, <1>3 DEF NewWaiter, Waiter
<1>5. NewFrame(calls[j] + 1, closes) \in Frame
  BY <1>1 DEF NewFrame, Frame, TypeOK
<1>6. waiters' = Append(waiters, NewWaiter(j))
  BY <1>1 DEF GetWait, NewWaiter
<1>7. frame' = [frame EXCEPT ![j] = NewFrame(calls[j] + 1, closes)]
  BY <1>1 DEF GetWait
<1>8. ~Waits(j) /\ Waits(j)'
  <2>1. frame'[j].call = calls[j] + 1 /\ calls[j] + 1 # 0
    BY <1>1, <1>7 DEF TypeOK, NewFrame
  <2>2. NoFrame.call = 0
    BY DEF NoFrame, NewFrame
  <2>3. frame'[j] # NoFrame
    BY <2>1, <2>2
  <2> QED
    BY <2>3 DEF GetWait, Waits
<1>9. phase[j] = "running" /\ UNCHANGED flags
  BY DEF GetWait, WaitForDone, Moves
<1> QED
  BY <1>1, <1>4, <1>5, <1>6, <1>7, <1>8, <1>9

LEMMA GetterTyped ==
  ASSUME TypeOK, Busy, ResumedOnce, NEW j \in Journeys, Getter(j)
  PROVE  TypeOK' /\ ResumedOnce'
<1>1. JourneyTypeOK /\ queue \in Seq(Values) /\ waiters \in Seq(Waiter)
  BY DEF TypeOK
<1>2. JourneyTypeOK' /\ ResumedOnce'
  <2>1. CASE AnyOp(j)
    BY <1>1, <2>1, OpKeeps
  <2>2. CASE GetNow(j)
    BY <1>1, <2>2 DEF GetNow, journeyVars, JourneyTypeOK, ResumedOnce
  <2> QED
    BY <2>1, <2>2, GetterOp
<1>3. /\ queue' \in Seq(Values) /\ waiters' \in Seq(Waiter) /\ calls' \in [Journeys -> Nat]
      /\ frame' \in [Journeys -> Frame] /\ got' \in [Journeys -> Seq(Values)]
  <2>1. CASE GetNow(j)
    <3>1. Head(queue) \in Values /\ Tail(queue) \in Seq(Values)
      BY <1>1, <2>1, HeadTailProperties DEF GetNow
    <3>2. Append(got[j], Head(queue)) \in Seq(Values)
      BY <3>1, AppendProperties DEF TypeOK
    <3>3. /\ got' = [got EXCEPT ![j] = Append(got[j], Head(queue))]
          /\ queue' = Tail(queue)
          /\ UNCHANGED <<waiters, frame, calls>>
      BY <2>1 DEF GetNow, Popped
    <3> QED
      BY <3>1, <3>2, <3>3 DEF TypeOK, Frame
  <2>2. CASE GetWait(j)
    <3>1. waiters' \in Seq(Waiter)
      BY <1>1, <2>2, Waiting, AppendProperties
    <3>2. frame' \in [Journeys -> Frame]
      <4>1. frame \in [Journeys -> Frame]
        BY DEF TypeOK, Frame
      <4>2. PICK f \in Frame : frame' = [frame EXCEPT ![j] = f]
        BY <2>2, Waiting
      <4> QED
        BY <4>1, <4>2
    <3>3. calls' \in [Journeys -> Nat]
      <4>1. calls' = [calls EXCEPT ![j] = calls[j] + 1]
        BY <2>2, Waiting
      <4> QED
        BY <4>1 DEF TypeOK
    <3> QED
      BY <2>2, <3>1, <3>2, <3>3 DEF GetWait, TypeOK
  <2>3. CASE GetReturns(j) \/ GetThrows(j) \/ Prepare(j) \/ Run(j) \/ Event(j)
    <3>1. NoFrame \in Frame
      BY DEF NoFrame, NewFrame, Frame
    <3>2. UNCHANGED <<queue, waiters, calls>>
      BY <2>3 DEF GetReturns, GetThrows, Prepare, Run, Event, channelVars
    <3>3. frame' = frame \/ frame' = [frame EXCEPT ![j] = NoFrame]
      BY <2>3 DEF GetReturns, GetThrows, Prepare, Run, Event, channelVars
    <3>4. got' \in [Journeys -> Seq(Values)]
      <4>1. CASE UNCHANGED got
        BY <4>1 DEF TypeOK
      <4>2. CASE GetReturns(j)
        <5>1. /\ frame[j].wasSet => frame[j].value \in Values
              /\ got[j] \in Seq(Values)
          BY DEF Busy, TypeOK, Values
        <5> DEFINE s == IF frame[j].wasSet THEN Append(got[j], frame[j].value) ELSE got[j]
        <5>2. s \in Seq(Values)
          BY <5>1, AppendProperties
        <5>3. got' = [got EXCEPT ![j] = s]
          BY <4>2 DEF GetReturns
        <5> HIDE DEF s
        <5> QED
          BY <5>2, <5>3 DEF TypeOK
      <4> QED
        BY <2>3, <4>1, <4>2 DEF GetThrows, Prepare, Run, Event, channelVars
    <3> QED
      <4>1. frame' \in [Journeys -> Frame]
        <5>1. frame \in [Journeys -> Frame]
          BY DEF TypeOK, Frame
        <5>2. NoFrame \in Frame
          BY DEF NoFrame, NewFrame, Frame
        <5> QED
          BY <3>3, <5>1, <5>2
      <4> QED
        BY <3>1, <3>2, <3>4, <4>1 DEF TypeOK, Frame
  <2> QED
    BY <2>1, <2>2, <2>3 DEF Getter
<1>4. UNCHANGED <<closed, doing, puts, closes>>
  BY GetterLeaves
<1> QED
  BY <1>2, <1>3, <1>4 DEF TypeOK, Frame

LEMMA GetterPlaced ==
  ASSUME TypeOK, Busy, ResumedOnce, Whereabouts, NEW j \in Journeys, Getter(j), TypeOK'
  PROVE  Busy' /\ Whereabouts'
<1>1. UNCHANGED <<doing, puts, closes>>
  BY GetterLeaves
<1>2. JourneyTypeOK /\ JourneyTypeOK' /\ ~NoFrame.wasSet
  BY DEF TypeOK, NoFrame, NewFrame
<1>3. CASE GetWait(j)
  <2>1. /\ frame' = [frame EXCEPT ![j] = NewFrame(calls[j] + 1, closes)]
        /\ calls' = [calls EXCEPT ![j] = calls[j] + 1]
        /\ Waits(j)'
    BY <1>3, Waiting
  <2>2. /\ frame'[j].call = calls'[j] /\ calls'[j] > 0 /\ frame'[j].since = closes
        /\ ~frame'[j].wasSet
    BY <2>1 DEF TypeOK, NewFrame
  <2>3. phase'[j] \notin {"running", "ended"}
    BY <1>2, <1>3 DEF GetWait, WaitForDone, Moves, JourneyTypeOK
  <2>4. \A k \in Journeys \ {j} : frame'[k] = frame[k] /\ calls'[k] = calls[k] /\ phase'[k] = phase[k]
    BY <1>2, <1>3, <2>1 DEF GetWait, WaitForDone, Moves, JourneyTypeOK, TypeOK
  <2>5. closes \in Nat
    BY DEF TypeOK
  <2> QED
    BY <1>1, <2>1, <2>2, <2>3, <2>4, <2>5 DEF Busy, Whereabouts, Waits
<1>4. CASE GetReturns(j) \/ GetThrows(j)
  <2>1. frame' = [frame EXCEPT ![j] = NoFrame] /\ UNCHANGED calls
    BY <1>4 DEF GetReturns, GetThrows
  <2>2. phase' = [phase EXCEPT ![j] = "running"]
    BY <1>4 DEF GetReturns, GetThrows, Throws, Returns, ThrowsEvent, ThrowsError, Handled, Moves
  <2> QED
    BY <1>1, <1>2, <2>1, <2>2 DEF Busy, Whereabouts, Waits, TypeOK, JourneyTypeOK
<1>5. CASE GetNow(j) \/ Event(j)
  <2>1. UNCHANGED <<frame, calls, phase>>
    BY <1>5 DEF GetNow, Event, Raise, journeyVars, channelVars
  <2> QED
    BY <1>1, <2>1 DEF Busy, Whereabouts, Waits
<1>6. CASE Prepare(j)
  <2>1. UNCHANGED <<frame, calls>> /\ ~Waits(j)
    BY <1>6 DEF Prepare, channelVars
  <2>2. phase' = phase \/ phase' = [phase EXCEPT ![j] = "ended"]
    BY <1>6 DEF Prepare, Guard, Unguard, Ends, Moves
  <2> QED
    BY <1>1, <1>2, <2>1, <2>2 DEF Busy, Whereabouts, Waits, JourneyTypeOK
<1>7. CASE Run(j)
  <2>1. UNCHANGED <<frame, calls>>
    BY <1>7 DEF Run, channelVars
  <2>2. /\ phase[j] \notin {"running", "ended"}
        /\ \E p \in {"suspended", "resumed", "handling"} : phase' = [phase EXCEPT ![j] = p]
    BY <1>2, <1>7 DEF Run, ResetEntered, Proceed0, Load, Moves, ResumedOnce
  <2> QED
    BY <1>1, <1>2, <2>1, <2>2 DEF Busy, Whereabouts, Waits, JourneyTypeOK
<1> QED
  BY <1>3, <1>4, <1>5, <1>6, <1>7 DEF Getter

-----------------------------------------------------------------------------
(* A put() that nobody waits for, and one that is given to the i-th.       *)
Queues(c) ==
  /\ \A i \in DOMAIN waiters : ~Usable(waiters[i])
  /\ waiters' = <<>>
  /\ queue' = Append(queue, puts + 1)
  /\ UNCHANGED <<doing, flags>>

Gift(i) == [op |-> "set", value |-> puts + 1, ws |-> <<waiters[i]>>]

Gives(c, i) ==
  /\ Usable(waiters[i])
  /\ \A k \in 1 .. i - 1 : ~Usable(waiters[k])
  /\ waiters' = Behind(i)
  /\ doing' = [doing EXCEPT ![c] = Gift(i)]
  /\ flags' = [flags EXCEPT ![waiters[i].doer.who] = Disabled(waiters[i].doer)]
  /\ UNCHANGED queue

LEMMA PutCases ==
  ASSUME TypeOK, NEW c \in Callers, Put(c)
  PROVE  /\ doing[c] = Idle /\ doing[c].op = "idle" /\ ~closed
         /\ puts' = puts + 1 /\ puts' \in 0 .. MaxPuts /\ puts \in Nat
         /\ Queues(c) \/ \E i \in DOMAIN waiters : Gives(c, i)
         /\ UNCHANGED <<phase, seen, ready, kept, events, closed, frame, closes, calls, got>>
<1>1. puts' = puts + 1 /\ puts' \in 0 .. MaxPuts /\ puts \in Nat
  BY DEF Put, TypeOK
<1>2. Queues(c) \/ \E i \in DOMAIN waiters : Gives(c, i)
  BY <1>1 DEF Put, Queues, Gives, Gift
<1>3. doing[c].op = "idle"
  BY DEF Put, Idle
<1> QED
  BY <1>1, <1>2, <1>3 DEF Put

(* What a thread does in the other steps is less than before.              *)
LEMMA LessToDo ==
  ASSUME TypeOK, Busy, NEW c \in Callers, doing[c].op # "idle"
  PROVE  /\ Closing(Tail(doing[c].ws)) \in Work
         /\ Closing(Tail(doing[c].ws)).ws = Tail(doing[c].ws)
         /\ Closing(Tail(doing[c].ws)).op = IF Tail(doing[c].ws) = <<>> THEN "idle" ELSE "close"
<1>1. Tail(doing[c].ws) \in Seq(Waiter)
  BY First, Hands, Rest
<1> QED
  BY <1>1, ClosingParts

(* Nobody but c does something else then.                                  *)
LEMMA OneDoing ==
  ASSUME TypeOK, NEW c \in Callers, NEW r \in Work, doing' = [doing EXCEPT ![c] = r]
  PROVE  /\ doing' \in [Callers -> Work]
         /\ doing'[c] = r
         /\ \A d \in Callers \ {c} : doing'[d] = doing[d]
<1>1. doing \in [Callers -> Work]
  BY DEF TypeOK, Work
<1> QED
  BY <1>1

LEMMA Doing ==
  ASSUME TypeOK, Busy, NEW c \in Callers, Caller(c)
  PROVE  doing' = doing \/ \E r \in Work : doing' = [doing EXCEPT ![c] = r]
<1>1. Idle \in Work
  BY EmptySeq DEF Idle, Work
<1>2. CASE Put(c)
  <2>1. ASSUME NEW i \in DOMAIN waiters, Gives(c, i)
        PROVE  Gift(i) \in Work
    <3>1. waiters[i] \in Waiter /\ puts + 1 \in Nat
      BY Lists DEF TypeOK
    <3>2. <<waiters[i]>> \in Seq(Waiter)
      BY <3>1
    <3> QED
      BY <3>1, <3>2 DEF Gift, Work
  <2> QED
    BY <1>2, <2>1, PutCases DEF Queues, Gives
<1>3. CASE Set(c)
  <2>1. [doing[c] EXCEPT !.op = "tell"] \in Work
    BY Hands DEF Work
  <2> QED
    BY <1>3, <2>1 DEF Set
<1>4. CASE Close(c)
  <2>1. Closing(waiters) \in Work
    BY ClosingParts DEF TypeOK
  <2> QED
    BY <1>4, <2>1 DEF Close
<1>5. CASE Reset(c)
  <2>1. [doing[c] EXCEPT !.op = "reset"] \in Work
    BY Hands DEF Work
  <2>2. doing[c].op # "idle"
    BY <1>5 DEF Reset
  <2> QED
    BY <1>5, <2>1, <2>2, LessToDo DEF Reset
<1>6. CASE Told(c)
  <2>1. doing[c].op # "idle"
    BY <1>6 DEF Told
  <2> QED
    BY <1>6, <2>1, LessToDo DEF Told
<1>7. CASE Open(c)
  BY <1>7 DEF Open
<1> QED
  BY <1>2, <1>3, <1>4, <1>5, <1>6, <1>7 DEF Caller

(* The flags of a journey whose waiter is acquired, and of one that is     *)
(* told.                                                                   *)
Takes(w) == flags' = [flags EXCEPT ![w.doer.who] = Disabled(w.doer)] /\ UNCHANGED ready

LEMMA TakesKeeps ==
  ASSUME JourneyTypeOK, ResumedOnce, NEW w \in Waiter, Takes(w),
         UNCHANGED <<phase, seen, kept, events>>
  PROVE  JourneyTypeOK' /\ ResumedOnce'
<1>1. w.doer \in DoerType /\ w.doer.who \in Journeys
  BY WaiterParts
<1>2. Disabled(w.doer) \in Flags /\ Disabled(w.doer).entered = flags[w.doer.who].entered
  BY <1>1, DisabledTyped
<1>3. NobodySleepsOrWakes
  BY DEF NobodySleepsOrWakes
<1> QED
  BY <1>1, <1>2, <1>3, FlagsKeep DEF Takes, JourneyTypeOK

LEMMA TellsKeeps ==
  ASSUME JourneyTypeOK, ResumedOnce, NEW w \in Waiter, ReleaseAndDone(w.doer),
         UNCHANGED <<phase, seen, kept, events>>
  PROVE  JourneyTypeOK' /\ ResumedOnce'
<1>1. w.doer \in DoerType /\ w.doer.who \in Journeys
  BY WaiterParts
<1> DEFINE f == [flags[w.doer.who] EXCEPT !.done = TRUE, !.enabled = @ \/ w.doer.enabled]
<1>2. f \in Flags
  BY <1>1, ReleasedTyped
<1>3. Enter(w.doer.who, f)
  BY DEF ReleaseAndDone
<1>4. NobodySleepsOrWakes
  BY DEF NobodySleepsOrWakes
<1> HIDE DEF f
<1> QED
  BY <1>1, <1>2, <1>3, <1>4, EnterKeeps DEF JourneyTypeOK

LEMMA CallerTyped ==
  ASSUME TypeOK, Busy, ResumedOnce, NEW c \in Callers, Caller(c)
  PROVE  TypeOK' /\ ResumedOnce'
<1>1. JourneyTypeOK /\ queue \in Seq(Values) /\ waiters \in Seq(Waiter)
  BY DEF TypeOK
<1>2. UNCHANGED <<phase, seen, kept, events, calls, got>>
  BY DEF Caller, Put, Set, Close, Reset, Told, Open, journeyVars
<1>3. JourneyTypeOK' /\ ResumedOnce'
  <2>1. CASE UNCHANGED <<flags, ready>>
    BY <1>1, <1>2, <2>1 DEF JourneyTypeOK, ResumedOnce
  <2>2. CASE \E w \in Waiter : Takes(w)
    BY <1>1, <1>2, <2>2, TakesKeeps
  <2>3. CASE \E w \in Waiter : ReleaseAndDone(w.doer)
    BY <1>1, <1>2, <2>3, TellsKeeps
  <2>4. CASE Put(c)
    BY <2>1, <2>2, <2>4, PutCases, Lists DEF Queues, Gives, Takes
  <2>5. CASE Told(c)
    <3>1. doing[c].op # "idle"
      BY <2>5 DEF Told
    <3> QED
      BY <2>3, <2>5, <3>1, First DEF Told
  <2>6. CASE Reset(c)
    <3>1. doing[c].op # "idle"
      BY <2>6 DEF Reset
    <3> QED
      BY <2>1, <2>2, <2>6, <3>1, First DEF Reset, Takes
  <2>7. CASE Set(c) \/ Close(c) \/ Open(c)
    BY <2>1, <2>7 DEF Set, Close, Open, journeyVars
  <2> QED
    BY <2>4, <2>5, <2>6, <2>7 DEF Caller
<1>4. queue' \in Seq(Values) /\ waiters' \in Seq(Waiter) /\ puts' \in 0 .. MaxPuts
  <2>1. CASE Put(c)
    <3>1. puts + 1 \in Values /\ puts' \in 0 .. MaxPuts
      BY <2>1, PutCases DEF Values
    <3>2. Append(queue, puts + 1) \in Seq(Values)
      BY <1>1, <3>1, AppendProperties
    <3>3. <<>> \in Seq(Waiter)
      OBVIOUS
    <3>4. CASE Queues(c)
      BY <3>1, <3>2, <3>3, <3>4 DEF Queues
    <3>5. CASE \E i \in DOMAIN waiters : Gives(c, i)
      BY <1>1, <3>1, <3>5, RestBehind DEF Gives
    <3> QED
      BY <2>1, <3>4, <3>5, PutCases
  <2>2. CASE ~Put(c)
    <3>1. UNCHANGED <<queue, puts>> /\ (waiters' = waiters \/ waiters' = <<>>)
      BY <2>2 DEF Caller, Set, Close, Reset, Told, Open, journeyVars
    <3>2. <<>> \in Seq(Waiter)
      OBVIOUS
    <3> QED
      BY <1>1, <3>1, <3>2 DEF TypeOK
  <2> QED
    BY <2>1, <2>2
<1>5. doing' \in [Callers -> Work]
  <2>1. doing \in [Callers -> Work]
    BY DEF TypeOK, Work
  <2> QED
    BY <2>1, Doing, OneDoing
<1>6. frame' \in [Journeys -> Frame]
  <2>1. frame \in [Journeys -> Frame]
    BY DEF TypeOK, Frame
  <2>2. CASE Set(c)
    <3>1. doing[c].op # "idle"
      BY <2>2 DEF Set
    <3> DEFINE j == Head(doing[c].ws).doer.who
               f == Filled(frame[j], doing[c].value)
    <3>2. j \in Journeys /\ doing[c].value \in Nat
      BY <3>1, First, Hands, WaiterParts
    <3>3. f \in Frame
      BY <2>1, <3>2 DEF Filled, Frame
    <3>4. frame' = frame \/ frame' = [frame EXCEPT ![j] = f]
      BY <2>2 DEF Set
    <3> HIDE DEF f, j
    <3> QED
      BY <2>1, <3>2, <3>3, <3>4
  <2>3. CASE ~Set(c)
    BY <2>1, <2>3 DEF Caller, Put, Close, Reset, Told, Open
  <2> QED
    BY <2>2, <2>3
<1>7. closed' \in BOOLEAN /\ closes' \in 0 .. MaxCloses
  <2>1. closed \in BOOLEAN /\ closes \in 0 .. MaxCloses
    BY DEF TypeOK
  <2>2. CASE Close(c)
    BY <2>1, <2>2 DEF Close
  <2>3. CASE ~Close(c)
    BY <2>1, <2>3 DEF Caller, Put, Set, Reset, Told, Open
  <2> QED
    BY <2>2, <2>3
<1> QED
  BY <1>2, <1>3, <1>4, <1>5, <1>6, <1>7 DEF TypeOK, Frame, Work

(* What set() writes to, if it is there.                                   *)
Filling(c, j) ==
  /\ Set(c) /\ j = Head(doing[c].ws).doer.who /\ HasFrame(Head(doing[c].ws))
  /\ frame'[j].wasSet /\ frame'[j].value = doing[c].value

LEMMA FrameFilled ==
  ASSUME TypeOK, Busy, NEW c \in Callers, Caller(c), NEW j \in Journeys
  PROVE  /\ frame'[j].call = frame[j].call /\ frame'[j].since = frame[j].since
         /\ frame'[j] = frame[j] \/ Filling(c, j)
         /\ Set(c) => doing[c].op = "set" /\ Head(doing[c].ws) \in Waiter
<1>1. CASE ~Set(c)
  BY <1>1 DEF Caller, Put, Close, Reset, Told, Open
<1>2. CASE Set(c)
  <2>1. doing[c].op = "set" /\ doing[c].op # "idle"
    BY <1>2 DEF Set
  <2> DEFINE w == Head(doing[c].ws)
  <2>2. w \in Waiter /\ w.doer.who \in Journeys
    BY <2>1, First, WaiterParts
  <2>3. CASE HasFrame(w)
    <3>1. frame' = [frame EXCEPT ![w.doer.who] = Filled(frame[w.doer.who], doing[c].value)]
      BY <1>2, <2>3 DEF Set
    <3>2. CASE j = w.doer.who
      <4>1. frame[j] \in Frame
        BY Frames
      <4>2. frame'[j] = Filled(frame[j], doing[c].value)
        BY <2>2, <3>1, <3>2 DEF TypeOK
      <4>3. /\ frame'[j].call = frame[j].call /\ frame'[j].since = frame[j].since
            /\ frame'[j].wasSet /\ frame'[j].value = doing[c].value
        BY <4>1, <4>2 DEF Filled, Frame
      <4> QED
        BY <1>2, <2>1, <2>2, <2>3, <3>2, <4>3 DEF Filling
    <3>3. CASE j # w.doer.who
      BY <2>1, <2>2, <3>1, <3>3 DEF TypeOK
    <3> QED
      BY <3>2, <3>3
  <2>4. CASE ~HasFrame(w)
    <3>1. frame' = frame
      BY <1>2, <2>4 DEF Set
    <3> QED
      BY <2>1, <2>2, <3>1
  <2> QED
    BY <2>3, <2>4
<1> QED
  BY <1>1, <1>2

LEMMA HandsPending ==
  ASSUME TypeOK, Busy, NEW c \in Callers, doing[c].op # "idle"
  PROVE  Head(doing[c].ws) \in Pending /\ Head(doing[c].ws) \in Waiter
BY First DEF Pending

LEMMA CallerPlaced ==
  ASSUME TypeOK, Busy, Whereabouts, LeftByWaiting, NEW c \in Callers, Caller(c), TypeOK'
  PROVE  Busy' /\ Whereabouts'
<1>1. UNCHANGED <<phase, calls>> /\ (closes' = closes \/ closes' = closes + 1) /\ closes \in Nat
  BY DEF Caller, Put, Set, Close, Reset, Told, Open, journeyVars, TypeOK
<1>2. puts \in Nat /\ (puts' = puts \/ puts' = puts + 1)
  BY DEF Caller, Put, Set, Close, Reset, Told, Open, TypeOK
<1>3. \A j \in Journeys : frame'[j].wasSet => frame'[j].value \in 1 .. puts'
  <2> SUFFICES ASSUME NEW j \in Journeys, frame'[j].wasSet
               PROVE  frame'[j].value \in 1 .. puts
    BY <1>2
  <2>1. CASE frame'[j] = frame[j]
    BY <2>1 DEF Busy
  <2>2. CASE Filling(c, j)
    BY <2>2, FrameFilled DEF Filling, Busy
  <2> QED
    BY <2>1, <2>2, FrameFilled
<1>4. ASSUME NEW d \in Callers
      PROVE  /\ doing'[d].op = "idle" <=> doing'[d].ws = <<>>
             /\ doing'[d].op \in {"set", "tell"} =>
                  Len(doing'[d].ws) = 1 /\ doing'[d].value \in 1 .. puts'
  <2>1. CASE doing'[d] = doing[d]
    BY <1>2, <2>1 DEF Busy
  <2>2. CASE doing'[d] # doing[d]
    <3>1. d = c
      BY <2>2, Doing, OneDoing
    <3>2. CASE Put(c)
      <4>1. PICK i \in DOMAIN waiters : Gives(c, i)
        BY <2>2, <3>2, PutCases DEF Queues
      <4>2. doing'[c] = Gift(i)
        BY <4>1 DEF Gives, TypeOK
      <4>3. Len(<<waiters[i]>>) = 1 /\ <<waiters[i]>> # <<>>
        OBVIOUS
      <4>4. puts + 1 \in 1 .. puts' /\ puts' = puts + 1
        BY <3>2, PutCases
      <4> QED
        BY <3>1, <4>2, <4>3, <4>4 DEF Gift
    <3>3. CASE Set(c)
      <4>1. /\ doing'[c].op = "tell" /\ doing'[c].ws = doing[c].ws
            /\ doing'[c].value = doing[c].value /\ doing[c].op = "set"
        BY <3>3, Hands DEF Set, TypeOK, Work
      <4> QED
        BY <1>2, <3>1, <4>1 DEF Busy
    <3>4. CASE Close(c)
      <4>1. doing'[c] = Closing(waiters)
        BY <3>4 DEF Close, TypeOK
      <4> QED
        BY <3>1, <4>1, ClosingParts DEF TypeOK
    <3>5. CASE Reset(c) \/ Told(c)
      <4>1. doing[c].op \in {"tell", "close", "reset"}
        BY <3>5 DEF Reset, Told
      <4>2. CASE doing' = [doing EXCEPT ![c].op = "reset"]
        <5>1. doing'[c].op = "reset" /\ doing'[c].ws = doing[c].ws
          BY <4>2, Hands DEF TypeOK
        <5> QED
          BY <3>1, <4>1, <5>1 DEF Busy
      <4>3. CASE doing' = [doing EXCEPT ![c] = Closing(Tail(doing[c].ws))]
        <5>1. doing'[c] = Closing(Tail(doing[c].ws))
          BY <4>3 DEF TypeOK
        <5> QED
          BY <3>1, <4>1, <5>1, LessToDo
      <4> QED
        BY <3>5, <4>2, <4>3 DEF Reset, Told
    <3>6. CASE Open(c)
      BY <2>2, <3>6 DEF Open
    <3> QED
      BY <3>2, <3>3, <3>4, <3>5, <3>6 DEF Caller
  <2> QED
    BY <2>1, <2>2
<1>5. ASSUME NEW j \in Journeys
      PROVE  Waits(j)' <=> Waits(j)
  <2>1. CASE frame'[j] = frame[j]
    BY <2>1 DEF Waits
  <2>2. CASE Filling(c, j)
    <3>1. Head(doing[c].ws) \in Pending /\ Head(doing[c].ws) \in Waiter
      BY <2>2, FrameFilled, HandsPending DEF Filling
    <3>2. frame[j].call > 0 /\ frame[j].call \in Nat
      <4> DEFINE w == Head(doing[c].ws)
      <4>1. w \in Pending /\ w.doer.who = j /\ frame[j].call = w.call
        BY <2>2, <3>1 DEF Filling, HasFrame
      <4>2. w.call > 0 /\ w.call \in Nat
        BY <4>1, CallsNumbered
      <4> QED
        BY <4>1, <4>2
    <3>3. frame'[j].call # 0 /\ frame[j].call # 0 /\ NoFrame.call = 0
      BY <3>2, FrameFilled DEF NoFrame, NewFrame
    <3> QED
      BY <3>3 DEF Waits
  <2> QED
    BY <2>1, <2>2, FrameFilled
<1>6. Whereabouts'
  <2>1. \A j \in Journeys : frame'[j].call = frame[j].call /\ frame'[j].since = frame[j].since
    BY FrameFilled
  <2>2. \A j \in Journeys : frame[j].since \in Nat
    BY Frames
  <2> QED
    BY <1>1, <1>5, <2>1, <2>2 DEF Whereabouts
<1> QED
  BY <1>3, <1>4, <1>6 DEF Busy

-----------------------------------------------------------------------------
(* A value that is got next is got once, and none other is got then.       *)
GotTwice == \E j, k \in Journeys : \E i \in DOMAIN got[j] : \E l \in DOMAIN got[k] :
              got[j][i] = got[k][l] /\ ~(j = k /\ i = l)

LEMMA OneMore ==
  ASSUME TypeOK, NEW j \in Journeys, NEW v \in Values,
         got' = [got EXCEPT ![j] = Append(got[j], v)]
  PROVE  /\ \A u : IsGot(u)' <=> IsGot(u) \/ u = v
         /\ ~GotTwice /\ ~IsGot(v) => ~GotTwice'
<1>1. got[j] \in Seq(Values) /\ got'[j] = Append(got[j], v) /\ Len(got[j]) \in Nat
      /\ DOMAIN got[j] = 1 .. Len(got[j])
  BY Lists DEF TypeOK
<1>2. /\ Len(got'[j]) = Len(got[j]) + 1 /\ got'[j] \in Seq(Values)
      /\ got'[j][Len(got[j]) + 1] = v
      /\ \A i \in 1 .. Len(got[j]) : got'[j][i] = got[j][i]
  BY <1>1, AppendProperties
<1>3. DOMAIN got'[j] = 1 .. Len(got[j]) + 1
  BY <1>2, LenProperties
<1>4. \A k \in Journeys \ {j} : got'[k] = got[k]
  BY DEF TypeOK
<1>5. \A i : i \in DOMAIN got'[j] <=> i \in DOMAIN got[j] \/ i = Len(got[j]) + 1
  BY <1>1, <1>3
<1>6. Len(got[j]) + 1 \notin DOMAIN got[j]
  BY <1>1
<1>7. ASSUME NEW u
      PROVE  IsGot(u)' <=> IsGot(u) \/ u = v
  <2>1. ASSUME IsGot(u)'
        PROVE  IsGot(u) \/ u = v
    BY <1>1, <1>2, <1>4, <1>5, <2>1 DEF IsGot
  <2>2. ASSUME IsGot(u)
        PROVE  IsGot(u)'
    BY <1>1, <1>2, <1>4, <1>5, <2>2 DEF IsGot
  <2>3. IsGot(v)'
    BY <1>2, <1>5 DEF IsGot
  <2> QED
    BY <2>1, <2>2, <2>3
<1>8. ASSUME ~GotTwice, ~IsGot(v)
      PROVE  ~GotTwice'
  <2> SUFFICES ASSUME NEW k \in Journeys, NEW m \in Journeys,
                      NEW i \in DOMAIN got'[k], NEW l \in DOMAIN got'[m],
                      got'[k][i] = got'[m][l]
               PROVE  k = m /\ i = l
    BY DEF GotTwice
  <2> DEFINE Old(a, b) == a # j \/ b \in DOMAIN got[j]
  <2>1. \A a \in Journeys : \A b \in DOMAIN got'[a] :
          IF Old(a, b) THEN b \in DOMAIN got[a] /\ got'[a][b] = got[a][b]
                       ELSE a = j /\ b = Len(got[j]) + 1 /\ got'[a][b] = v
    BY <1>1, <1>2, <1>4, <1>5
  <2> HIDE DEF Old
  <2>2. CASE Old(k, i) /\ Old(m, l)
    BY <1>8, <2>1, <2>2 DEF GotTwice
  <2>3. CASE ~Old(k, i) /\ ~Old(m, l)
    BY <2>1, <2>3
  <2>4. CASE Old(k, i) /\ ~Old(m, l)
    BY <1>8, <2>1, <2>4 DEF IsGot
  <2>5. CASE ~Old(k, i) /\ Old(m, l)
    BY <1>8, <2>1, <2>5 DEF IsGot
  <2> QED
    BY <2>2, <2>3, <2>4, <2>5
<1> QED
  BY <1>7, <1>8

(* The first value of the queue leaves it.                                 *)
LEMMA OneFewer ==
  ASSUME TypeOK, NoneTwice, queue # <<>>, queue' = Tail(queue)
  PROVE  /\ Head(queue) \in Values /\ InQueue(Head(queue))
         /\ \A u : InQueue(u)' <=> InQueue(u) /\ u # Head(queue)
         /\ \A i, k \in DOMAIN queue' : queue'[i] = queue'[k] => i = k
<1>1. queue \in Seq(Values) /\ Len(queue) \in Nat /\ DOMAIN queue = 1 .. Len(queue)
  BY Lists DEF TypeOK
<1>2. Len(queue) # 0
  BY <1>1, EmptySeq
<1>3. 1 \in DOMAIN queue /\ Head(queue) = queue[1] /\ Head(queue) \in Values
  BY <1>1, <1>2, HeadTailProperties
<1>4. /\ queue' \in Seq(Values) /\ Len(queue') = Len(queue) - 1
      /\ \A i \in 1 .. Len(queue') : queue'[i] = queue[i + 1]
  BY <1>1, HeadTailProperties
<1>5. DOMAIN queue' = 1 .. Len(queue) - 1
  BY <1>4, LenProperties
<1>6. /\ \A i \in DOMAIN queue' : i + 1 \in DOMAIN queue /\ queue'[i] = queue[i + 1] /\ i + 1 # 1
      /\ \A i \in DOMAIN queue \ {1} : i - 1 \in DOMAIN queue' /\ queue'[i - 1] = queue[i]
  BY <1>1, <1>4, <1>5
<1>7. \A u : InQueue(u)' <=> InQueue(u) /\ u # Head(queue)
  <2>1. ASSUME NEW u, InQueue(u)'
        PROVE  InQueue(u) /\ u # Head(queue)
    <3>1. PICK i \in DOMAIN queue' : queue'[i] = u
      BY <2>1 DEF InQueue
    <3>2. i + 1 \in DOMAIN queue /\ queue[i + 1] = u /\ i + 1 # 1
      BY <1>6, <3>1
    <3> QED
      BY <1>3, <3>2 DEF InQueue, NoneTwice
  <2>2. ASSUME NEW u, InQueue(u), u # Head(queue)
        PROVE  InQueue(u)'
    <3>1. PICK i \in DOMAIN queue : queue[i] = u
      BY <2>2 DEF InQueue
    <3> QED
      BY <1>3, <1>6, <2>2, <3>1 DEF InQueue
  <2> QED
    BY <2>1, <2>2
<1>8. \A i, k \in DOMAIN queue' : queue'[i] = queue'[k] => i = k
  <2> SUFFICES ASSUME NEW i \in DOMAIN queue', NEW k \in DOMAIN queue', queue'[i] = queue'[k]
               PROVE  i = k
    OBVIOUS
  <2>1. i + 1 = k + 1
    BY <1>6 DEF NoneTwice
  <2> QED
    BY <1>5, <2>1
<1>9. InQueue(Head(queue))
  BY <1>3 DEF InQueue
<1> QED
  BY <1>3, <1>7, <1>8, <1>9

(* What getting does to values.                                            *)
LEMMA GetterValues ==
  ASSUME TypeOK, Busy, NoneTwice, Apart, NEW j \in Journeys, Getter(j)
  PROVE  NoneTwice' /\ Apart'
<1>1. UNCHANGED <<doing, puts>>
  BY GetterLeaves
<1>2. ~GotTwice
  BY DEF NoneTwice, GotTwice
<1>3. \A u : InHands(u)' <=> InHands(u)
  BY <1>1 DEF InHands
<1>4. NoFrame.wasSet = FALSE
  BY DEF NoFrame, NewFrame
<1>5. CASE GetNow(j)
  <2>1. /\ queue # <<>> /\ queue' = Tail(queue) /\ UNCHANGED frame
        /\ got' = [got EXCEPT ![j] = Append(got[j], Head(queue))]
    BY <1>5 DEF GetNow, Popped
  <2> DEFINE v == Head(queue)
  <2>2. v \in Values /\ InQueue(v)
    BY <2>1, OneFewer
  <2>3. \A u : InQueue(u)' <=> InQueue(u) /\ u # v
    BY <2>1, OneFewer
  <2>4. (\A u : IsGot(u)' <=> IsGot(u) \/ u = v) /\ ~GotTwice'
    BY <1>2, <2>1, <2>2, OneMore DEF Apart
  <2>5. \A u : InFrame(u)' <=> InFrame(u)
    BY <2>1 DEF InFrame
  <2>6. Apart'
    BY <1>1, <1>3, <2>2, <2>3, <2>4, <2>5 DEF Apart
  <2>7. \A i, k \in DOMAIN queue' : queue'[i] = queue'[k] => i = k
    BY <2>1, OneFewer
  <2> QED
    BY <1>1, <2>1, <2>4, <2>6, <2>7 DEF NoneTwice, GotTwice
<1>6. CASE GetReturns(j) /\ frame[j].wasSet
  <2> DEFINE v == frame[j].value
  <2>1. /\ UNCHANGED queue /\ frame' = [frame EXCEPT ![j] = NoFrame]
        /\ got' = [got EXCEPT ![j] = Append(got[j], v)]
    BY <1>6 DEF GetReturns
  <2>2. v \in Values /\ InFrame(v)
    BY <1>6 DEF Busy, InFrame, TypeOK, Values
  <2>3. (\A u : IsGot(u)' <=> IsGot(u) \/ u = v) /\ ~GotTwice'
    BY <1>2, <2>1, <2>2, OneMore DEF Apart
  <2>4. \A k \in Journeys : frame'[k].wasSet => k # j /\ frame[k].wasSet /\ frame'[k] = frame[k]
    BY <1>4, <2>1 DEF TypeOK
  <2>5. \A u : InFrame(u)' => InFrame(u) /\ u # v
    BY <1>6, <2>4 DEF InFrame, NoneTwice
  <2>6. \A u : InQueue(u)' <=> InQueue(u)
    BY <2>1 DEF InQueue
  <2>7. Apart'
    BY <1>1, <1>3, <2>2, <2>3, <2>5, <2>6 DEF Apart
  <2>8. \A k, m \in Journeys :
          frame'[k].wasSet /\ frame'[m].wasSet /\ frame'[k].value = frame'[m].value => k = m
    BY <2>4 DEF NoneTwice
  <2> QED
    BY <1>1, <2>1, <2>3, <2>7, <2>8 DEF NoneTwice, GotTwice
<1>7. CASE ~GetNow(j) /\ ~(GetReturns(j) /\ frame[j].wasSet)
  <2>1. UNCHANGED <<queue, got>>
    <3>1. CASE GetReturns(j)
      <4>1. got' = [got EXCEPT ![j] = got[j]]
        BY <1>7, <3>1 DEF GetReturns
      <4> QED
        BY <3>1, <4>1 DEF GetReturns, TypeOK
    <3>2. CASE ~GetReturns(j)
      BY <1>7, <3>2 DEF Getter, GetWait, GetThrows, Prepare, Run, Event, channelVars
    <3> QED
      BY <3>1, <3>2
  <2>2. \A k \in Journeys : frame'[k] = frame[k] \/ ~frame'[k].wasSet
    <3>1. CASE GetWait(j)
      <4>1. frame' = [frame EXCEPT ![j] = NewFrame(calls[j] + 1, closes)]
        BY <3>1, Waiting
      <4> QED
        BY <4>1 DEF TypeOK, NewFrame
    <3>2. CASE ~GetWait(j)
      BY <1>4, <1>7, <3>2
      DEF Getter, GetReturns, GetThrows, Prepare, Run, Event, channelVars, TypeOK
    <3> QED
      BY <3>1, <3>2
  <2>3. \A u : InFrame(u)' => InFrame(u)
    BY <2>2 DEF InFrame
  <2>4. \A u : (InQueue(u)' <=> InQueue(u)) /\ (IsGot(u)' <=> IsGot(u))
    BY <2>1 DEF InQueue, IsGot
  <2>5. Apart'
    BY <1>1, <1>3, <2>3, <2>4 DEF Apart
  <2>6. \A k, m \in Journeys :
          frame'[k].wasSet /\ frame'[m].wasSet /\ frame'[k].value = frame'[m].value => k = m
    BY <2>2 DEF NoneTwice
  <2> QED
    BY <1>1, <2>1, <2>5, <2>6 DEF NoneTwice
<1> QED
  BY <1>5, <1>6, <1>7

(* What putting and closing does to values.                                *)
LEMMA CallerValues ==
  ASSUME TypeOK, Busy, NoneTwice, Apart, NEW c \in Callers, Caller(c), TypeOK'
  PROVE  NoneTwice' /\ Apart'
<1>1. UNCHANGED got
  BY DEF Caller, Put, Set, Close, Reset, Told, Open, journeyVars
<1>2. \A u : IsGot(u)' <=> IsGot(u)
  BY <1>1 DEF IsGot
<1>3. CASE Put(c)
  <2>1. /\ puts' = puts + 1 /\ puts \in Nat /\ doing[c].op = "idle"
        /\ puts' \in Values /\ UNCHANGED frame
    BY <1>3, PutCases DEF Values
  <2>2. ~InQueue(puts') /\ ~InHands(puts') /\ ~InFrame(puts') /\ ~IsGot(puts')
    <3>1. puts' \notin 1 .. puts
      BY <2>1
    <3> QED
      BY <2>1, <3>1 DEF Apart
  <2>3. \A u : InFrame(u)' <=> InFrame(u)
    BY <2>1 DEF InFrame
  <2>4. \A u \in 1 .. puts : u \in 1 .. puts'
    BY <2>1
  <2>5. puts' \in 1 .. puts'
    BY <2>1
  <2>6. CASE Queues(c)
    <3>1. queue \in Seq(Values) /\ Len(queue) \in Nat /\ DOMAIN queue = 1 .. Len(queue)
      BY Lists DEF TypeOK
    <3>2. queue' = Append(queue, puts')
      BY <2>1, <2>6 DEF Queues
    <3>3. /\ DOMAIN queue' = 1 .. Len(queue) + 1
          /\ queue'[Len(queue) + 1] = puts'
          /\ \A i \in DOMAIN queue : queue'[i] = queue[i]
      <4>1. queue' \in Seq(Values) /\ Len(queue') = Len(queue) + 1
        BY <2>1, <3>1, <3>2, AppendProperties
      <4> QED
        BY <2>1, <3>1, <3>2, <4>1, AppendProperties, LenProperties
    <3>4. \A i : i \in DOMAIN queue' <=> i \in DOMAIN queue \/ i = Len(queue) + 1
      BY <3>1, <3>3
    <3>5. \A u : InQueue(u)' <=> InQueue(u) \/ u = puts'
      BY <3>3, <3>4 DEF InQueue
    <3>6. \A i, k \in DOMAIN queue' : queue'[i] = queue'[k] => i = k
      BY <2>2, <3>3, <3>4 DEF InQueue, NoneTwice
    <3>7. UNCHANGED doing
      BY <2>6 DEF Queues
    <3>8. \A u : InHands(u)' <=> InHands(u)
      BY <3>7 DEF InHands
    <3>9. Apart'
      BY <1>2, <2>2, <2>3, <2>4, <2>5, <3>5, <3>8 DEF Apart
    <3> QED
      BY <1>1, <2>1, <3>6, <3>7, <3>9 DEF NoneTwice
  <2>7. CASE \E i \in DOMAIN waiters : Gives(c, i)
    <3>1. PICK i \in DOMAIN waiters : Gives(c, i)
      BY <2>7
    <3>2. /\ doing'[c].op = "set" /\ doing'[c].value = puts'
          /\ \A d \in Callers \ {c} : doing'[d] = doing[d]
      BY <2>1, <3>1 DEF Gives, Gift, TypeOK
    <3>3. UNCHANGED queue
      BY <3>1 DEF Gives
    <3>4. \A u : InHands(u)' => InHands(u) \/ u = puts'
      BY <3>2 DEF InHands
    <3>5. \A u : InQueue(u)' <=> InQueue(u)
      BY <3>3 DEF InQueue
    <3>6. Apart'
      BY <1>2, <2>2, <2>3, <2>4, <2>5, <3>4, <3>5 DEF Apart
    <3>7. \A d, e \in Callers :
            doing'[d].op = "set" /\ doing'[e].op = "set" /\ doing'[d].value = doing'[e].value => d = e
      BY <2>2, <3>2 DEF NoneTwice, InHands
    <3> QED
      BY <1>1, <2>1, <3>3, <3>6, <3>7 DEF NoneTwice
  <2> QED
    BY <1>3, <2>6, <2>7, PutCases
<1>4. CASE Set(c)
  <2> DEFINE v == doing[c].value
  <2>1. doing[c].op = "set" /\ InHands(v) /\ UNCHANGED <<queue, puts>>
    BY <1>4 DEF Set, InHands
  <2>2. doing' = [doing EXCEPT ![c].op = "tell"]
    BY <1>4 DEF Set
  <2>3. \A d \in Callers : doing'[d].op = "set" => d # c /\ doing'[d] = doing[d]
    BY <2>2 DEF TypeOK
  <2>4. \A u : InHands(u)' => InHands(u) /\ u # v
    BY <2>1, <2>3 DEF InHands, NoneTwice
  <2>5. \A j \in Journeys : frame'[j] = frame[j] \/ Filling(c, j)
    BY FrameFilled
  <2>6. \A j, k \in Journeys : Filling(c, j) /\ Filling(c, k) => j = k
    BY DEF Filling
  <2>7. \A j \in Journeys : Filling(c, j) => frame'[j].value = v
    BY DEF Filling
  <2>8. \A u : InFrame(u)' => InFrame(u) \/ u = v
    BY <2>5, <2>7 DEF InFrame
  <2>9. v \in Values /\ ~InFrame(v)
    <3>1. v \in Values
      BY <2>1 DEF Busy, Values, TypeOK
    <3> QED
      BY <2>1, <3>1 DEF Apart
  <2>10. \A j, k \in Journeys :
           frame'[j].wasSet /\ frame'[k].wasSet /\ frame'[j].value = frame'[k].value => j = k
    <3> SUFFICES ASSUME NEW j \in Journeys, NEW k \in Journeys,
                        frame'[j].wasSet, frame'[k].wasSet, frame'[j].value = frame'[k].value
                 PROVE  j = k
      OBVIOUS
    <3>1. CASE frame'[j] = frame[j] /\ frame'[k] = frame[k]
      BY <3>1 DEF NoneTwice
    <3>2. CASE frame'[j] = frame[j] /\ Filling(c, k)
      BY <2>7, <2>9, <3>2 DEF InFrame
    <3>3. CASE Filling(c, j) /\ frame'[k] = frame[k]
      BY <2>7, <2>9, <3>3 DEF InFrame
    <3>4. CASE Filling(c, j) /\ Filling(c, k)
      BY <2>6, <3>4
    <3> QED
      BY <2>5, <3>1, <3>2, <3>3, <3>4
  <2>11. \A u : InQueue(u)' <=> InQueue(u)
    BY <2>1 DEF InQueue
  <2>12. Apart'
    BY <1>2, <2>1, <2>4, <2>8, <2>9, <2>11 DEF Apart
  <2>13. \A d, e \in Callers :
           doing'[d].op = "set" /\ doing'[e].op = "set" /\ doing'[d].value = doing'[e].value => d = e
    BY <2>3 DEF NoneTwice
  <2> QED
    BY <1>1, <2>1, <2>10, <2>12, <2>13 DEF NoneTwice
<1>5. CASE Close(c) \/ Reset(c) \/ Told(c) \/ Open(c)
  <2>1. UNCHANGED <<queue, puts, frame>>
    BY <1>5 DEF Close, Reset, Told, Open
  <2>2. \A d \in Callers : doing'[d].op = "set" => doing'[d] = doing[d]
    <3>1. CASE UNCHANGED doing
      BY <3>1
    <3>2. ASSUME NEW r \in Work, r.op # "set", doing' = [doing EXCEPT ![c] = r]
          PROVE  \A d \in Callers : doing'[d].op = "set" => doing'[d] = doing[d]
      BY <3>2 DEF TypeOK
    <3>3. CASE Close(c)
      <4>1. Closing(waiters) \in Work /\ Closing(waiters).op # "set"
        BY ClosingParts DEF TypeOK
      <4> QED
        BY <3>2, <3>3, <4>1 DEF Close
    <3>4. CASE Reset(c) \/ Told(c)
      <4>1. doing[c].op # "idle"
        BY <3>4 DEF Reset, Told
      <4>2. Closing(Tail(doing[c].ws)) \in Work /\ Closing(Tail(doing[c].ws)).op # "set"
        BY <4>1, LessToDo
      <4>3. [doing[c] EXCEPT !.op = "reset"] \in Work /\ [doing[c] EXCEPT !.op = "reset"].op # "set"
        BY Hands DEF Work
      <4> QED
        BY <3>2, <3>4, <4>2, <4>3 DEF Reset, Told
    <3>5. CASE Open(c)
      BY <3>1, <3>5 DEF Open
    <3> QED
      BY <1>5, <3>3, <3>4, <3>5
  <2>3. \A u : InHands(u)' => InHands(u)
    BY <2>2 DEF InHands
  <2>4. \A u : (InQueue(u)' <=> InQueue(u)) /\ (InFrame(u)' <=> InFrame(u))
    BY <2>1 DEF InQueue, InFrame
  <2>5. Apart'
    BY <1>2, <2>1, <2>3, <2>4 DEF Apart
  <2>6. \A d, e \in Callers :
          doing'[d].op = "set" /\ doing'[e].op = "set" /\ doing'[d].value = doing'[e].value => d = e
    BY <2>2 DEF NoneTwice
  <2> QED
    BY <1>1, <2>1, <2>5, <2>6 DEF NoneTwice
<1> QED
  BY <1>3, <1>4, <1>5 DEF Caller

(* Nothing in two places means that counting the places gives 1 at most.   *)
LEMMA CountedOnce ==
  ASSUME TypeOK, NoneTwice, Apart
  PROVE  GotOnce
<1> SUFFICES ASSUME NEW v \in Values
             PROVE  Cardinality(Places(v)) <= 1
  BY DEF GotOnce
<1>1. ASSUME NEW x \in Places(v), NEW y \in Places(v)
      PROVE  x = y
  <2> DEFINE Q(z) == \E i \in DOMAIN queue : queue[i] = v /\ z = <<"queue", i>>
             H(z) == \E c \in Callers : doing[c].op = "set" /\ doing[c].value = v /\ z = <<"doing", c>>
             F(z) == \E j \in Journeys : frame[j].wasSet /\ frame[j].value = v /\ z = <<"frame", j>>
             G(z) == \E j \in Journeys : \E i \in DOMAIN got[j] :
                       got[j][i] = v /\ z = <<"got", j, i>>
  <2>1. \A z \in Places(v) : Q(z) \/ H(z) \/ F(z) \/ G(z)
    BY DEF Places
  <2>2. /\ \A z : Q(z) => InQueue(v)
        /\ \A z : H(z) => InHands(v)
        /\ \A z : F(z) => InFrame(v)
        /\ \A z : G(z) => IsGot(v)
    BY DEF InQueue, InHands, InFrame, IsGot
  <2>3. Q(x) /\ Q(y) => x = y
    BY DEF NoneTwice
  <2>4. H(x) /\ H(y) => x = y
    BY DEF NoneTwice
  <2>5. F(x) /\ F(y) => x = y
    BY DEF NoneTwice
  <2>6. G(x) /\ G(y) => x = y
    BY DEF NoneTwice
  <2> HIDE DEF Q, H, F, G
  <2> QED
    BY <2>1, <2>2, <2>3, <2>4, <2>5, <2>6 DEF Apart
<1>2. CASE Places(v) = {}
  BY <1>2, FS_EmptySet
<1>3. CASE Places(v) # {}
  <2>1. PICK x : Places(v) = {x}
    BY <1>1, <1>3
  <2>2. Cardinality({x}) = 1
    BY FS_Singleton
  <2>3. Cardinality(Places(v)) = 1
    BY <2>1, <2>2
  <2> QED
    BY <2>3
<1> QED
  BY <1>2, <1>3

-----------------------------------------------------------------------------
(* Waiters leave the lists from the front.                                 *)
Fewer(c, p, q) ==
  /\ \A k \in DOMAIN waiters' : p + k \in DOMAIN waiters /\ waiters'[k] = waiters[p + k]
  /\ \A d \in Callers \ {c} : doing'[d] = doing[d]
  /\ \A k \in DOMAIN doing'[c].ws :
       q + k \in DOMAIN doing[c].ws /\ doing'[c].ws[k] = doing[c].ws[q + k]

LEMMA FewerWaiters ==
  ASSUME TypeOK, TypeOK', LeftOnce, NEW c \in Callers, NEW p \in Nat, NEW q \in Nat,
         Fewer(c, p, q)
  PROVE  LeftOnce' /\ Pending' \subseteq Pending
<1>1. /\ \A k \in DOMAIN waiters' : k \in Nat
      /\ \A d \in Callers : \A k \in DOMAIN doing'[d].ws : k \in Nat
  <2>1. waiters' \in Seq(Waiter) /\ \A d \in Callers : doing'[d].ws \in Seq(Waiter)
    BY DEF TypeOK
  <2> QED
    BY <2>1, LenProperties
<1>2. \A i, k \in DOMAIN waiters' : Same(waiters'[i], waiters'[k]) => i = k
  <2> SUFFICES ASSUME NEW i \in DOMAIN waiters', NEW k \in DOMAIN waiters',
                      Same(waiters'[i], waiters'[k])
               PROVE  i = k
    OBVIOUS
  <2>1. p + i = p + k
    BY DEF Fewer, LeftOnce
  <2> QED
    BY <1>1, <2>1
<1>3. \A d \in Callers : \A i, k \in DOMAIN doing'[d].ws :
        Same(doing'[d].ws[i], doing'[d].ws[k]) => i = k
  <2> SUFFICES ASSUME NEW d \in Callers, NEW i \in DOMAIN doing'[d].ws,
                      NEW k \in DOMAIN doing'[d].ws, Same(doing'[d].ws[i], doing'[d].ws[k])
               PROVE  i = k
    OBVIOUS
  <2>1. CASE d # c
    BY <2>1 DEF Fewer, LeftOnce
  <2>2. CASE d = c
    <3>1. q + i = q + k
      BY <2>2 DEF Fewer, LeftOnce
    <3> QED
      BY <1>1, <2>2, <3>1
  <2> QED
    BY <2>1, <2>2
<1>4. \A d \in Callers : \A k \in DOMAIN doing'[d].ws :
        \E m \in DOMAIN doing[d].ws : doing'[d].ws[k] = doing[d].ws[m]
  <2> SUFFICES ASSUME NEW d \in Callers, NEW k \in DOMAIN doing'[d].ws
               PROVE  \E m \in DOMAIN doing[d].ws : doing'[d].ws[k] = doing[d].ws[m]
    OBVIOUS
  <2>1. CASE d # c
    BY <2>1 DEF Fewer
  <2>2. CASE d = c
    BY <2>2 DEF Fewer
  <2> QED
    BY <2>1, <2>2
<1>5. \A k \in DOMAIN waiters' : \E m \in DOMAIN waiters : waiters'[k] = waiters[m]
  BY DEF Fewer
<1>6. LeftOnce'
  BY <1>2, <1>3, <1>4, <1>5 DEF LeftOnce
<1>7. Pending' \subseteq Pending
  BY <1>4, <1>5 DEF Pending
<1> QED
  BY <1>6, <1>7

(* What is left of those pending, piece by piece.                          *)
LEMMA PendingParts ==
  ASSUME NEW w
  PROVE  w \in Pending <=>
           \/ \E i \in DOMAIN waiters : waiters[i] = w
           \/ \E c \in Callers : \E i \in DOMAIN doing[c].ws : doing[c].ws[i] = w
BY DEF Pending

LEMMA PendingPartsNext ==
  ASSUME NEW w
  PROVE  w \in Pending' <=>
           \/ \E i \in DOMAIN waiters' : waiters'[i] = w
           \/ \E c \in Callers : \E i \in DOMAIN doing'[c].ws : doing'[c].ws[i] = w
BY DEF Pending

LEMMA PendingTyped ==
  ASSUME TypeOK
  PROVE  Pending \subseteq Waiter
BY PendingParts, Lists, Hands

(* put() takes the i-th waiter, and those before it are dropped.           *)
LEMMA GivesMoves ==
  ASSUME TypeOK, TypeOK', Busy, LeftOnce, NEW c \in Callers, doing[c].op = "idle",
         NEW i \in DOMAIN waiters, Gives(c, i)
  PROVE  /\ LeftOnce' /\ Pending' \subseteq Pending
         /\ waiters[i] \in Pending' /\ waiters[i] \notin Acquired
         /\ Acquired' = Acquired \cup {waiters[i]}
         /\ \A w \in Pending \ Pending' : ~Usable(w)
<1> DEFINE new == waiters[i]
<1>1. /\ doing'[c].ws = <<new>> /\ doing'[c].op = "set"
      /\ \A d \in Callers \ {c} : doing'[d] = doing[d]
      /\ waiters' = Behind(i)
  BY DEF Gives, Gift, TypeOK
<1>2. DOMAIN doing'[c].ws = {1} /\ doing'[c].ws[1] = new /\ Head(doing'[c].ws) = new
  BY <1>1
<1>3. i \in Nat /\ Len(waiters) \in Nat /\ DOMAIN waiters = 1 .. Len(waiters)
  BY Lists
<1>4. /\ \A k \in DOMAIN waiters' : /\ k \in Nat /\ k > 0 /\ i + k # i
                                    /\ i + k \in DOMAIN waiters /\ waiters'[k] = waiters[i + k]
      /\ \A k \in DOMAIN waiters : k <= i \/ k - i \in DOMAIN waiters'
  BY <1>1, <1>3, RestBehind
<1>5. LeftOnce'
  <2>1. \A k, m \in DOMAIN waiters' : Same(waiters'[k], waiters'[m]) => k = m
    <3> SUFFICES ASSUME NEW k \in DOMAIN waiters', NEW m \in DOMAIN waiters',
                        Same(waiters'[k], waiters'[m])
                 PROVE  k = m
      OBVIOUS
    <3>1. i + k = i + m
      BY <1>4 DEF LeftOnce
    <3> QED
      BY <1>3, <1>4, <3>1
  <2>2. \A k \in DOMAIN waiters' : ~Same(waiters'[k], new)
    BY <1>4 DEF LeftOnce
  <2>3. \A d \in Callers \ {c} : \A k \in DOMAIN doing'[d].ws : ~Same(new, doing'[d].ws[k])
    BY <1>1 DEF LeftOnce
  <2>4. \A d \in Callers \ {c} : \A k \in DOMAIN doing'[d].ws : ~Same(doing'[d].ws[k], new)
    BY <2>3 DEF Same
  <2>5. \A d \in Callers : \A k, m \in DOMAIN doing'[d].ws :
          Same(doing'[d].ws[k], doing'[d].ws[m]) => k = m
    BY <1>1, <1>2 DEF LeftOnce
  <2>6. \A d \in Callers : \A k \in DOMAIN waiters' : \A m \in DOMAIN doing'[d].ws :
          ~Same(waiters'[k], doing'[d].ws[m])
    BY <1>1, <1>2, <1>4, <2>2 DEF LeftOnce
  <2>7. \A d, e \in Callers : \A k \in DOMAIN doing'[d].ws : \A m \in DOMAIN doing'[e].ws :
          Same(doing'[d].ws[k], doing'[e].ws[m]) => d = e
    BY <1>1, <1>2, <2>3, <2>4 DEF LeftOnce
  <2> QED
    BY <2>1, <2>5, <2>6, <2>7 DEF LeftOnce
<1>6. Pending' \subseteq Pending
  <2> SUFFICES ASSUME NEW w \in Pending'
               PROVE  w \in Pending
    OBVIOUS
  <2>1. CASE \E k \in DOMAIN waiters' : waiters'[k] = w
    BY <1>4, <2>1, PendingParts
  <2>2. CASE \E d \in Callers : \E k \in DOMAIN doing'[d].ws : doing'[d].ws[k] = w
    BY <1>1, <1>2, <2>2, PendingParts
  <2> QED
    BY <2>1, <2>2, PendingPartsNext
<1>7. new \in Pending'
  BY <1>2, PendingPartsNext
<1>8. new \notin Acquired
  <2> SUFFICES ASSUME NEW d \in Callers, doing[d].op \in {"set", "tell", "reset"}, Head(doing[d].ws) = new
               PROVE  FALSE
    BY DEF Acquired
  <2>1. 1 \in DOMAIN doing[d].ws /\ doing[d].ws[1] = new
    BY First
  <2> QED
    BY <2>1 DEF LeftOnce, Same
<1>9. Acquired' = Acquired \cup {new}
  BY <1>1, <1>2 DEF Acquired
<1>10. ASSUME NEW w \in Pending \ Pending'
       PROVE  ~Usable(w)
  <2>1. \A d \in Callers : \A k \in DOMAIN doing[d].ws : doing[d].ws[k] \in Pending'
    <3>1. doing[c].ws = <<>>
      BY DEF Busy
    <3> QED
      BY <1>1, <3>1, PendingPartsNext
  <2>2. PICK k \in DOMAIN waiters : waiters[k] = w
    BY <1>10, <2>1, PendingParts
  <2>3. k # i
    BY <1>7, <1>10, <2>2
  <2>4. ~(k - i \in DOMAIN waiters')
    <3> SUFFICES ASSUME k - i \in DOMAIN waiters'
                 PROVE  FALSE
      OBVIOUS
    <3>1. i + (k - i) = k
      BY <1>3
    <3> QED
      BY <1>4, <1>10, <2>2, <3>1, PendingPartsNext
  <2>5. k \in 1 .. i - 1
    BY <1>3, <1>4, <2>3, <2>4
  <2> QED
    BY <2>2, <2>5 DEF Gives
<1> QED
  BY <1>5, <1>6, <1>7, <1>8, <1>9, <1>10

(* The first waiter of a thread is done with.                              *)
LEMMA HeadGone ==
  ASSUME TypeOK, TypeOK', Busy, LeftOnce, NEW c \in Callers, doing[c].op # "idle",
         UNCHANGED waiters, NEW r \in Work, doing' = [doing EXCEPT ![c] = r],
         r.op \in {"idle", "close"}, r.ws = Tail(doing[c].ws)
  PROVE  /\ LeftOnce' /\ Pending' \subseteq Pending
         /\ Head(doing[c].ws) \notin Pending'
         /\ \A w \in Pending \ Pending' : w = Head(doing[c].ws)
         /\ Acquired' = Acquired \ (IF doing[c].op = "close" THEN {} ELSE {Head(doing[c].ws)})
<1> DEFINE ws == doing[c].ws
           h == Head(ws)
<1>1. /\ ws \in Seq(Waiter) /\ ws # <<>> /\ 1 \in DOMAIN ws /\ h = ws[1]
      /\ DOMAIN ws = 1 .. Len(ws) /\ Len(ws) \in Nat
  BY First, Hands
<1>2. doing'[c] = r /\ \A d \in Callers \ {c} : doing'[d] = doing[d]
  BY OneDoing
<1>3. /\ \A k \in DOMAIN doing'[c].ws : k + 1 \in DOMAIN ws /\ doing'[c].ws[k] = ws[k + 1]
      /\ \A k \in DOMAIN ws : k = 1 \/ k - 1 \in DOMAIN doing'[c].ws
  <2>1. doing'[c].ws = Tail(ws)
    BY <1>2
  <2> HIDE DEF ws
  <2>2. /\ \A i \in DOMAIN Tail(ws) : i + 1 \in DOMAIN ws /\ Tail(ws)[i] = ws[i + 1]
        /\ \A k \in DOMAIN ws : k = 1 \/ k - 1 \in DOMAIN Tail(ws)
    BY <1>1, Rest
  <2> QED
    BY <2>1, <2>2
<1>4. \A k \in DOMAIN doing'[c].ws : k \in Nat /\ k > 0 /\ 1 + k = k + 1 /\ k + 1 # 1
  <2>1. DOMAIN Tail(ws) = 1 .. Len(ws) - 1
    BY <1>1, Rest
  <2> QED
    BY <1>1, <1>2, <2>1
<1>5. \A k \in DOMAIN waiters : 0 + k = k
  BY Lists
<1>6. Fewer(c, 0, 1)
  BY <1>2, <1>3, <1>4, <1>5 DEF Fewer
<1>7. LeftOnce' /\ Pending' \subseteq Pending
  BY <1>6, FewerWaiters
<1>8. h \notin Pending'
  <2>1. ASSUME NEW k \in DOMAIN waiters', waiters'[k] = h
        PROVE  FALSE
    BY <1>1, <2>1 DEF LeftOnce, Same
  <2>2. ASSUME NEW d \in Callers \ {c}, NEW k \in DOMAIN doing'[d].ws, doing'[d].ws[k] = h
        PROVE  FALSE
    BY <1>1, <1>2, <2>2 DEF LeftOnce, Same
  <2>3. ASSUME NEW k \in DOMAIN doing'[c].ws, doing'[c].ws[k] = h
        PROVE  FALSE
    <3>1. k + 1 \in DOMAIN ws /\ ws[k + 1] = ws[1] /\ k + 1 # 1
      BY <1>1, <1>3, <1>4, <2>3
    <3> QED
      BY <1>1, <3>1 DEF LeftOnce, Same
  <2> QED
    BY <2>1, <2>2, <2>3, PendingPartsNext
<1>9. ASSUME NEW w \in Pending \ Pending'
      PROVE  w = h
  <2>1. ~\E k \in DOMAIN waiters : waiters[k] = w
    BY <1>9, PendingPartsNext
  <2>a. PICK d \in Callers : \E k \in DOMAIN doing[d].ws : doing[d].ws[k] = w
    BY <1>9, <2>1, PendingParts
  <2>2. PICK k \in DOMAIN doing[d].ws : doing[d].ws[k] = w
    BY <2>a
  <2>3. d = c
    BY <1>2, <1>9, <2>2, PendingPartsNext
  <2>4. CASE k # 1
    <3>1. k - 1 \in DOMAIN doing'[c].ws /\ (k - 1) + 1 = k
      BY <1>1, <1>3, <2>2, <2>3, <2>4
    <3>2. doing'[c].ws[k - 1] = w
      BY <1>3, <2>2, <2>3, <3>1
    <3> QED
      BY <1>9, <3>1, <3>2, PendingPartsNext
  <2> QED
    BY <1>1, <2>2, <2>3, <2>4
<1>10. \A d \in Callers \ {c} : doing[d].op \in {"set", "tell", "reset"} => Head(doing[d].ws) # h
  <2> SUFFICES ASSUME NEW d \in Callers \ {c}, doing[d].op \in {"set", "tell", "reset"}, Head(doing[d].ws) = h
               PROVE  FALSE
    OBVIOUS
  <2>1. 1 \in DOMAIN doing[d].ws /\ doing[d].ws[1] = ws[1]
    BY <1>1, First
  <2> QED
    BY <1>1, <2>1 DEF LeftOnce, Same
<1>11. Acquired' = Acquired \ (IF doing[c].op = "close" THEN {} ELSE {h})
  <2>1. doing'[c].op \notin {"set", "tell", "reset"} /\ (doing[c].op # "close" => doing[c].op \in {"set", "tell", "reset"})
    BY <1>2, Hands
  <2> HIDE DEF h
  <2>2. \A d \in Callers \ {c} : doing'[d] = doing[d]
    BY <1>2
  <2>3. h = Head(doing[c].ws)
    BY DEF h
  <2>4. CASE doing[c].op = "close"
    BY <2>1, <2>2, <2>4 DEF Acquired
  <2>5. CASE doing[c].op # "close"
    BY <1>10, <2>1, <2>2, <2>3, <2>5 DEF Acquired
  <2> QED
    BY <2>4, <2>5
<1> QED
  BY <1>7, <1>8, <1>9, <1>11

(* A thread acquires one, tells one, or does neither.                      *)
Take(w) ==
  /\ w \in Pending' /\ w \notin Acquired /\ Usable(w) /\ Takes(w)
  /\ Acquired' = Acquired \cup {w}

Tell(c, w) ==
  /\ Told(c)
  /\ w = Head(doing[c].ws) /\ w \in Acquired /\ w \notin Pending' /\ ReleaseAndDone(w.doer)
  /\ Acquired' = Acquired \ {w}

Neither == UNCHANGED <<flags, ready>> /\ Acquired' = Acquired

LEMMA CallerMoves ==
  ASSUME TypeOK, TypeOK', Busy, LeftOnce, NEW c \in Callers, Caller(c)
  PROVE  /\ LeftOnce' /\ Pending' \subseteq Pending
         /\ Neither \/ (\E w \in Pending : Take(w)) \/ (\E w \in Pending : Tell(c, w))
         /\ \A w \in Pending \ Pending' : ~Usable(w) \/ Tell(c, w)
         /\ Told(c) => Tell(c, Head(doing[c].ws))
<1>0. <<>> \in Seq(Waiter) /\ Len(<<>>) = 0 /\ \A k : k \notin DOMAIN <<>>
  BY EmptySeq
<1>1. CASE Put(c)
  <2>1. doing[c].op = "idle" /\ UNCHANGED ready /\ ~Told(c)
    BY <1>1, PutCases DEF Told
  <2>2. CASE Queues(c)
    <3>1. waiters' = <<>> /\ UNCHANGED <<doing, flags>> /\ \A i \in DOMAIN waiters : ~Usable(waiters[i])
      BY <2>2 DEF Queues
    <3>2. \A k \in DOMAIN doing[c].ws : 0 + k = k
      BY Hands
    <3>3. Fewer(c, 0, 0)
      BY <1>0, <3>1, <3>2 DEF Fewer
    <3>4. LeftOnce' /\ Pending' \subseteq Pending
      BY <3>3, FewerWaiters
    <3>5. Neither
      BY <2>1, <3>1 DEF Neither, Acquired
    <3>6. \A w \in Pending \ Pending' : ~Usable(w)
      BY <3>1, PendingParts, PendingPartsNext
    <3> QED
      BY <2>1, <3>4, <3>5, <3>6
  <2>3. CASE \E i \in DOMAIN waiters : Gives(c, i)
    <3>1. PICK i \in DOMAIN waiters : Gives(c, i)
      BY <2>3
    <3>2. /\ LeftOnce' /\ Pending' \subseteq Pending
          /\ waiters[i] \in Pending' /\ waiters[i] \notin Acquired
          /\ Acquired' = Acquired \cup {waiters[i]}
          /\ \A w \in Pending \ Pending' : ~Usable(w)
      BY <2>1, <3>1, GivesMoves
    <3>3. Take(waiters[i])
      BY <2>1, <3>1, <3>2 DEF Take, Takes, Gives
    <3> QED
      BY <2>1, <3>2, <3>3
  <2> QED
    BY <1>1, <2>2, <2>3, PutCases
<1>2. CASE Set(c)
  <2>1. /\ doing[c].op = "set" /\ UNCHANGED <<waiters, flags, ready>> /\ ~Told(c)
        /\ doing' = [doing EXCEPT ![c].op = "tell"]
    BY <1>2 DEF Set, Told, journeyVars
  <2>2. /\ doing'[c].op = "tell" /\ doing'[c].ws = doing[c].ws
        /\ \A d \in Callers \ {c} : doing'[d] = doing[d]
    BY <2>1, Hands DEF TypeOK, Work
  <2>3. \A d \in Callers : /\ doing'[d].ws = doing[d].ws
                           /\ doing'[d].op \in {"set", "tell", "reset"}
                                <=> doing[d].op \in {"set", "tell", "reset"}
    BY <2>1, <2>2
  <2>4. Pending' = Pending /\ LeftOnce' /\ Acquired' = Acquired
    BY <2>1, <2>3 DEF Pending, LeftOnce, Acquired
  <2> QED
    BY <2>1, <2>4 DEF Neither
<1>3. CASE Told(c) \/ (Reset(c) /\ ~Usable(Head(doing[c].ws)))
  <2> DEFINE h == Head(doing[c].ws)
             r == Closing(Tail(doing[c].ws))
  <2>1. /\ doing' = [doing EXCEPT ![c] = r] /\ UNCHANGED waiters /\ doing[c].op # "idle"
        /\ Told(c) => doing[c].op \in {"tell", "reset"} /\ ReleaseAndDone(h.doer)
        /\ ~Told(c) => doing[c].op = "close" /\ UNCHANGED <<flags, ready>> /\ ~Usable(h)
    BY <1>3 DEF Told, Reset
  <2>2. r \in Work /\ r.op \in {"idle", "close"} /\ r.ws = Tail(doing[c].ws)
    BY <2>1, LessToDo
  <2>3. h \in Pending
    BY <2>1, HandsPending
  <2> HIDE DEF h, r
  <2>4. /\ LeftOnce' /\ Pending' \subseteq Pending
        /\ h \notin Pending'
        /\ \A w \in Pending \ Pending' : w = h
        /\ Acquired' = Acquired \ (IF doing[c].op = "close" THEN {} ELSE {h})
    BY <2>1, <2>2, HeadGone DEF h
  <2>5. CASE Told(c)
    <3>1. Acquired' = Acquired \ {h} /\ h \in Acquired
      BY <2>1, <2>4, <2>5 DEF Acquired, h
    <3>2. Tell(c, h)
      BY <2>1, <2>4, <2>5, <3>1 DEF Tell, h
    <3> QED
      BY <2>1, <2>3, <2>4, <3>2 DEF h
  <2>6. CASE ~Told(c)
    <3>1. Neither
      BY <2>1, <2>4, <2>6 DEF Neither
    <3> QED
      BY <2>1, <2>4, <2>6, <3>1
  <2> QED
    BY <2>5, <2>6
<1>4. CASE Reset(c) /\ Usable(Head(doing[c].ws))
  <2> DEFINE h == Head(doing[c].ws)
  <2>1. /\ doing[c].op = "close" /\ doing[c].op # "idle" /\ UNCHANGED <<waiters, ready>>
        /\ doing' = [doing EXCEPT ![c].op = "reset"]
        /\ Usable(h) /\ Takes(h) /\ ~Told(c)
    BY <1>4 DEF Reset, Takes, Told
  <2>2. /\ doing'[c].op = "reset" /\ doing'[c].ws = doing[c].ws
        /\ \A d \in Callers \ {c} : doing'[d] = doing[d]
    BY <2>1, Hands DEF TypeOK
  <2>3. \A d \in Callers : doing'[d].ws = doing[d].ws
    BY <2>2
  <2>4. Pending' = Pending /\ LeftOnce'
    BY <2>1, <2>3 DEF Pending, LeftOnce
  <2>5. h \in Pending
    BY <2>1, HandsPending
  <2>6. h \notin Acquired
    <3> SUFFICES ASSUME NEW d \in Callers, doing[d].op \in {"set", "tell", "reset"}, Head(doing[d].ws) = h
                 PROVE  FALSE
      BY DEF Acquired
    <3>1. 1 \in DOMAIN doing[d].ws /\ doing[d].ws[1] = h
      BY First
    <3>2. 1 \in DOMAIN doing[c].ws /\ doing[c].ws[1] = h
      BY <2>1, First
    <3>3. d = c
      BY <3>1, <3>2 DEF LeftOnce, Same
    <3> QED
      BY <2>1, <3>3
  <2>7. Acquired' = Acquired \cup {h}
    BY <2>1, <2>2 DEF Acquired
  <2>8. Take(h)
    BY <2>1, <2>4, <2>5, <2>6, <2>7 DEF Take
  <2> QED
    BY <2>1, <2>4, <2>5, <2>8
<1>5. CASE Close(c)
  <2>1. /\ doing[c].op = "idle" /\ doing[c].ws = <<>> /\ waiters' = <<>> /\ UNCHANGED <<flags, ready>>
        /\ doing' = [doing EXCEPT ![c] = Closing(waiters)] /\ ~Told(c)
    BY <1>5 DEF Close, Idle, journeyVars, Told
  <2>2. /\ doing'[c].ws = waiters /\ doing'[c].op \in {"idle", "close"}
        /\ \A d \in Callers \ {c} : doing'[d] = doing[d]
    BY <2>1, ClosingParts DEF TypeOK
  <2>3. LeftOnce'
    <3>1. \A d, e \in Callers : \A i \in DOMAIN doing'[d].ws : \A k \in DOMAIN doing'[e].ws :
            Same(doing'[d].ws[i], doing'[e].ws[k]) => d = e
      <4> SUFFICES ASSUME NEW d \in Callers, NEW e \in Callers, NEW i \in DOMAIN doing'[d].ws,
                          NEW k \in DOMAIN doing'[e].ws, Same(doing'[d].ws[i], doing'[e].ws[k]), d # e
                   PROVE  FALSE
        OBVIOUS
      <4>1. CASE d # c /\ e # c
        BY <2>2, <4>1 DEF LeftOnce
      <4>2. CASE d = c
        BY <2>2, <4>2 DEF LeftOnce
      <4>3. CASE e = c
        <5>1. Same(doing'[e].ws[k], doing'[d].ws[i])
          BY DEF Same
        <5> QED
          BY <2>2, <4>3, <5>1 DEF LeftOnce
      <4> QED
        BY <4>1, <4>2, <4>3
    <3>2. \A d \in Callers : \A i, k \in DOMAIN doing'[d].ws :
            Same(doing'[d].ws[i], doing'[d].ws[k]) => i = k
      BY <2>2 DEF LeftOnce
    <3> QED
      BY <1>0, <2>1, <3>1, <3>2 DEF LeftOnce
  <2>4. \A w : w \in Pending' <=> w \in Pending
    <3> SUFFICES ASSUME NEW w
                 PROVE  w \in Pending' <=> w \in Pending
      OBVIOUS
    <3>1. w \in Pending' <=> \E d \in Callers : \E i \in DOMAIN doing'[d].ws : doing'[d].ws[i] = w
      BY <1>0, <2>1, PendingPartsNext
    <3> QED
      BY <1>0, <2>1, <2>2, <3>1, PendingParts
  <2>5. Acquired' = Acquired
    BY <2>1, <2>2 DEF Acquired
  <2> QED
    BY <2>1, <2>3, <2>4, <2>5 DEF Neither
<1>6. CASE Open(c)
  <2>1. UNCHANGED <<flags, ready, waiters, doing>> /\ ~Told(c)
    BY <1>6 DEF Open, journeyVars, Idle, Told
  <2> QED
    BY <2>1 DEF Neither, Acquired, Pending, LeftOnce
<1> QED
  BY <1>1, <1>2, <1>3, <1>4, <1>5, <1>6 DEF Caller

-----------------------------------------------------------------------------
(* A get() that waits leaves a waiter, the other steps of one that gets    *)
(* leave none.                                                             *)
LEMMA GetterPending ==
  ASSUME TypeOK, NEW j \in Journeys, Getter(j)
  PROVE  /\ UNCHANGED Acquired
         /\ GetWait(j) => \A w : w \in Pending' <=> w \in Pending \/ w = NewWaiter(j)
         /\ ~GetWait(j) => UNCHANGED <<waiters, Pending>>
<1>1. UNCHANGED doing
  BY GetterLeaves
<1>2. UNCHANGED Acquired
  BY <1>1 DEF Acquired
<1>3. ASSUME GetWait(j), NEW w
      PROVE  w \in Pending' <=> w \in Pending \/ w = NewWaiter(j)
  <2>1. /\ waiters \in Seq(Waiter) /\ NewWaiter(j) \in Waiter
        /\ waiters' = Append(waiters, NewWaiter(j))
        /\ DOMAIN waiters = 1 .. Len(waiters) /\ Len(waiters) \in Nat
    BY <1>3, Waiting, Lists DEF TypeOK
  <2>2. /\ Len(waiters') = Len(waiters) + 1 /\ waiters' \in Seq(Waiter)
        /\ waiters'[Len(waiters) + 1] = NewWaiter(j)
        /\ \A i \in 1 .. Len(waiters) : waiters'[i] = waiters[i]
    BY <2>1, AppendProperties
  <2>3. DOMAIN waiters' = 1 .. Len(waiters) + 1
    BY <2>2, LenProperties
  <2>4. (\E i \in DOMAIN waiters' : waiters'[i] = w)
          <=> (\E i \in DOMAIN waiters : waiters[i] = w) \/ w = NewWaiter(j)
    BY <2>1, <2>2, <2>3
  <2> QED
    BY <1>1, <2>4, PendingParts, PendingPartsNext
<1>4. ASSUME ~GetWait(j)
      PROVE  UNCHANGED <<waiters, Pending>>
  <2>1. UNCHANGED waiters
    BY <1>4 DEF Getter, GetNow, GetReturns, GetThrows, Prepare, Run, Event, channelVars
  <2> QED
    BY <1>1, <2>1 DEF Pending
<1> QED
  BY <1>2, <1>3, <1>4

(* The frames that are there were there before.                            *)
LEMMA GetterFrames ==
  ASSUME TypeOK, LeftByWaiting, NEW j \in Journeys, Getter(j), NEW w \in Pending, HasFrame(w)'
  PROVE  /\ HasFrame(w) /\ frame'[w.doer.who] = frame[w.doer.who]
         /\ ~(w.doer.who = j /\ (GetReturns(j) \/ GetThrows(j)))
         /\ Waits(w.doer.who)
<1>1. /\ w \in Waiter /\ w.doer.who \in Journeys /\ w.call \in Nat
      /\ w.call > 0 /\ w.call <= calls[w.doer.who] /\ calls[j] \in Nat
  BY PendingTyped, WaiterParts, Frames DEF LeftByWaiting
<1>2. frame'[w.doer.who].call = w.call
  BY DEF HasFrame
<1>3. CASE UNCHANGED frame
  <2>1. HasFrame(w)
    BY <1>2, <1>3 DEF HasFrame
  <2>2. NoFrame.call = 0
    BY DEF NoFrame, NewFrame
  <2>3. Waits(w.doer.who)
    BY <1>1, <2>1, <2>2 DEF Waits, HasFrame
  <2>4. ASSUME w.doer.who = j, GetReturns(j) \/ GetThrows(j)
        PROVE  FALSE
    BY <1>1, <1>2, <2>4 DEF GetReturns, GetThrows, NoFrame, NewFrame, TypeOK
  <2> QED
    BY <1>3, <2>1, <2>3, <2>4
<1>4. ASSUME NEW f \in Frame, frame' = [frame EXCEPT ![j] = f], f.call # w.call \/ w.doer.who # j
      PROVE  w.doer.who # j /\ frame'[w.doer.who] = frame[w.doer.who]
  BY <1>1, <1>2, <1>4 DEF TypeOK
<1>5. CASE GetReturns(j) \/ GetThrows(j)
  <2>1. frame' = [frame EXCEPT ![j] = NoFrame] /\ NoFrame \in Frame /\ NoFrame.call = 0
    BY <1>5 DEF GetReturns, GetThrows, NoFrame, NewFrame, Frame
  <2>2. w.doer.who # j /\ frame'[w.doer.who] = frame[w.doer.who]
    <3>1. NoFrame.call # w.call
      BY <1>1, <2>1
    <3> HIDE DEF NoFrame
    <3> QED
      BY <1>4, <2>1, <3>1
  <2> QED
    BY <1>1, <1>2, <2>1, <2>2 DEF HasFrame, Waits
<1>6. CASE GetWait(j)
  <2>1. /\ frame' = [frame EXCEPT ![j] = NewFrame(calls[j] + 1, closes)]
        /\ NewFrame(calls[j] + 1, closes) \in Frame
    BY <1>6, Waiting
  <2>2. NewFrame(calls[j] + 1, closes).call = calls[j] + 1 /\ NoFrame.call = 0
    BY DEF NewFrame, NoFrame
  <2>3. w.doer.who # j /\ frame'[w.doer.who] = frame[w.doer.who]
    <3>1. CASE w.doer.who = j
      <4>1. NewFrame(calls[j] + 1, closes).call # w.call
        BY <1>1, <2>2, <3>1
      <4> QED
        BY <1>4, <2>1, <4>1
    <3>2. CASE w.doer.who # j
      BY <1>4, <2>1, <3>2
    <3> QED
      BY <3>1, <3>2
  <2> QED
    BY <1>1, <1>2, <2>2, <2>3 DEF HasFrame, Waits
<1> QED
  BY <1>3, <1>5, <1>6 DEF Getter, GetNow, Prepare, Run, Event, channelVars

LEMMA GetterLeftOnce ==
  ASSUME TypeOK, LeftOnce, LeftByWaiting, NEW j \in Journeys, Getter(j)
  PROVE  LeftOnce'
<1>1. UNCHANGED doing
  BY GetterLeaves
<1>2. CASE ~GetWait(j)
  BY <1>1, <1>2, GetterPending DEF LeftOnce
<1>3. CASE GetWait(j)
  <2> DEFINE new == NewWaiter(j)
             n == Len(waiters) + 1
  <2>1. /\ waiters \in Seq(Waiter) /\ new \in Waiter /\ waiters' = Append(waiters, new)
        /\ DOMAIN waiters = 1 .. Len(waiters) /\ Len(waiters) \in Nat
    BY <1>3, Waiting, Lists DEF TypeOK
  <2>2. /\ Len(waiters') = n /\ waiters' \in Seq(Waiter) /\ waiters'[n] = new
        /\ \A i \in 1 .. Len(waiters) : waiters'[i] = waiters[i]
    BY <2>1, AppendProperties
  <2>3. \A i : i \in DOMAIN waiters' <=> i \in DOMAIN waiters \/ i = n
    BY <2>1, <2>2, LenProperties
  <2>4. new.doer.who = j /\ new.call = calls[j] + 1 /\ calls[j] \in Nat
    BY Frames DEF NewWaiter, Doer
  <2>5. ASSUME NEW w \in Pending
        PROVE  ~Same(w, new) /\ ~Same(new, w)
    <3>1. w.call <= calls[w.doer.who] /\ w.call \in Nat
      BY PendingTyped, WaiterParts DEF LeftByWaiting
    <3> HIDE DEF new
    <3>2. ASSUME w.doer.who = j
          PROVE  w.call # new.call
      BY <2>4, <3>1, <3>2
    <3> QED
      BY <2>4, <3>2 DEF Same
  <2> HIDE DEF new, n
  <2>6. /\ \A i \in DOMAIN waiters : ~Same(waiters[i], new) /\ ~Same(new, waiters[i])
        /\ \A c \in Callers : \A k \in DOMAIN doing[c].ws : ~Same(new, doing[c].ws[k])
    BY <2>5, PendingParts
  <2>7. \A i, k \in DOMAIN waiters' : Same(waiters'[i], waiters'[k]) => i = k
    BY <2>1, <2>2, <2>3, <2>6 DEF LeftOnce
  <2>8. \A c \in Callers : \A i \in DOMAIN waiters' : \A k \in DOMAIN doing[c].ws :
          ~Same(waiters'[i], doing[c].ws[k])
    BY <2>1, <2>2, <2>3, <2>6 DEF LeftOnce
  <2> QED
    BY <1>1, <2>7, <2>8 DEF LeftOnce
<1> QED
  BY <1>2, <1>3

(* Counters and events, in one place.                                      *)
LEMMA GetterFlags ==
  ASSUME TypeOK, NEW j \in Journeys, Getter(j)
  PROVE  /\ \A k \in Journeys \ {j} :
              flags'[k] = flags[k] /\ phase'[k] = phase[k] /\ seen'[k] = seen[k]
         /\ flags'[j].counter \in Nat /\ flags'[j].counter >= flags[j].counter
         /\ ~GetThrows(j) =>
              /\ flags[j].raised \subseteq flags'[j].raised
              /\ flags'[j].counter = flags[j].counter \/ flags'[j].raised # {}
         /\ Calm' <=> Calm
         /\ Undisturbed' => Undisturbed
<1>1. JourneyTypeOK /\ flags[j].counter \in Nat
  BY FlagParts DEF TypeOK
<1>2. CASE GetNow(j)
  BY <1>1, <1>2 DEF GetNow, journeyVars, Calm, Undisturbed
<1>3. CASE AnyOp(j)
  <2>1. ~GetThrows(j) => ~ThrowsEvent(j)
    <3> SUFFICES ASSUME ThrowsEvent(j)
                 PROVE  GetThrows(j)
      OBVIOUS
    <3>1. phase[j] = "handling" /\ phase'[j] = "running" /\ seen[j].enabled /\ seen[j].raised # {}
      BY <1>1 DEF ThrowsEvent, Handled, Moves, JourneyTypeOK
    <3>2. ~GetReturns(j)
      BY <3>1 DEF GetReturns, Returns
    <3>3. ~GetNow(j) /\ ~GetWait(j) /\ ~Prepare(j) /\ ~Run(j) /\ ~Event(j)
      BY <1>1, <3>1
      DEF GetNow, GetWait, WaitForDone, Prepare, Guard, Unguard, Ends, Run, ResetEntered, Proceed0,
          Load, Event, Raise, Moves, JourneyTypeOK
    <3> QED
      BY <3>2, <3>3 DEF Getter
  <2>2. Undisturbed' => Undisturbed
    <3>1. CASE Event(j)
      <4>1. events' = events + 1 /\ events < MaxEvents /\ events \in Nat
        BY <1>1, <3>1 DEF Event, Raise, JourneyTypeOK
      <4> QED
        BY <4>1, JourneyAssumption DEF Undisturbed, Calm
    <3>2. CASE ~Event(j)
      <4>1. UNCHANGED events
        BY <3>2
        DEF Getter, GetNow, GetWait, WaitForDone, GetReturns, Returns, GetThrows, Throws, ThrowsEvent,
            ThrowsError, Prepare, Guard, Unguard, Ends, Run, ResetEntered, Proceed0, Load, journeyVars
      <4> QED
        BY <4>1 DEF Undisturbed, Calm
    <3> QED
      BY <3>1, <3>2
  <2> QED
    BY <1>1, <1>3, <2>1, <2>2, OpLocal, OpRaised
<1> QED
  BY <1>2, <1>3, GetterOp

LEMMA GetterLeft ==
  ASSUME TypeOK, TypeOK', Busy, LeftByWaiting, NEW j \in Journeys, Getter(j)
  PROVE  LeftByWaiting'
<1> SUFFICES ASSUME NEW w \in Pending'
             PROVE  /\ w.call \in 1 .. calls'[w.doer.who]
                    /\ w.doer.counter <= flags'[w.doer.who].counter
                    /\ HasFrame(w)' => (frame'[w.doer.who].wasSet <=> Written(w)')
                    /\ HasFrame(w)' /\ w.doer.counter < flags'[w.doer.who].counter
                         => flags'[w.doer.who].raised # {}
  BY DEF LeftByWaiting
<1>0. Written(w)' <=> Written(w)
  BY GetterLeaves DEF Written
<1>1. CASE w \in Pending
  <2> DEFINE k == w.doer.who
  <2>1. /\ w \in Waiter /\ k \in Journeys /\ w.call \in Nat /\ w.doer.counter \in Nat
        /\ flags[k].counter \in Nat /\ flags'[k].counter \in Nat
        /\ calls[k] \in Nat /\ calls'[k] \in Nat
    <3>1. w \in Waiter /\ k \in Journeys /\ w.call \in Nat /\ w.doer.counter \in Nat
      BY <1>1, PendingTyped, WaiterParts
    <3>2. flags[k].counter \in Nat /\ calls[k] \in Nat /\ calls'[k] \in Nat
      BY <3>1, FlagParts DEF TypeOK
    <3>3. flags'[k].counter \in Nat
      BY <3>1 DEF TypeOK, JourneyTypeOK, Flags
    <3> QED
      BY <3>1, <3>2, <3>3
  <2>2. calls'[k] >= calls[k]
    <3>1. CASE GetWait(j)
      <4>1. calls' = [calls EXCEPT ![j] = calls[j] + 1]
        BY <3>1, Waiting
      <4>2. calls'[k] = calls[k] \/ calls'[k] = calls[k] + 1
        BY <2>1, <4>1 DEF TypeOK
      <4> QED
        BY <2>1, <4>2
    <3>2. CASE ~GetWait(j)
      <4>1. UNCHANGED calls
        BY <3>2 DEF Getter, GetNow, GetReturns, GetThrows, Prepare, Run, Event, channelVars
      <4> QED
        BY <2>1, <4>1
    <3> QED
      BY <3>1, <3>2
  <2>3. w.call \in 1 .. calls[k] /\ w.doer.counter <= flags[k].counter
    BY <1>1 DEF LeftByWaiting
  <2>4. w.call \in 1 .. calls'[k]
    BY <2>1, <2>2, <2>3
  <2>5. flags'[k].counter >= flags[k].counter
    BY <2>1, GetterFlags
  <2>6. w.doer.counter <= flags'[k].counter
    BY <2>1, <2>3, <2>5
  <2>7. ASSUME HasFrame(w)'
        PROVE  frame'[k].wasSet <=> Written(w)'
    BY <1>0, <1>1, <2>7, GetterFrames DEF LeftByWaiting
  <2>8. ASSUME HasFrame(w)', w.doer.counter < flags'[k].counter
        PROVE  flags'[k].raised # {}
    <3>1. HasFrame(w) /\ ~(k = j /\ GetThrows(j))
      BY <1>1, <2>8, GetterFrames
    <3>2. flags[k].raised \subseteq flags'[k].raised
          /\ (flags'[k].counter = flags[k].counter \/ flags'[k].raised # {})
      BY <2>1, <3>1, GetterFlags
    <3>3. CASE flags'[k].counter = flags[k].counter
      <4>1. flags[k].raised # {}
        BY <1>1, <2>8, <3>1, <3>3 DEF LeftByWaiting
      <4> QED
        BY <3>2, <4>1
    <3> QED
      BY <3>2, <3>3
  <2> QED
    BY <2>4, <2>6, <2>7, <2>8
<1>2. CASE w \notin Pending
  <2>1. GetWait(j) /\ w = NewWaiter(j)
    BY <1>2, GetterPending
  <2>2. /\ calls' = [calls EXCEPT ![j] = calls[j] + 1] /\ calls[j] \in Nat
        /\ frame' = [frame EXCEPT ![j] = NewFrame(calls[j] + 1, closes)]
        /\ UNCHANGED flags
    BY <2>1, Waiting, Frames
  <2>3. w.doer.who = j /\ w.call = calls[j] + 1 /\ w.doer.counter = flags[j].counter
    BY <2>1 DEF NewWaiter, Doer
  <2>4. ~frame'[j].wasSet
    BY <2>2 DEF TypeOK, NewFrame
  <2>5. calls'[j] = calls[j] + 1 /\ flags'[j].counter = flags[j].counter /\ flags[j].counter \in Nat
    BY <2>2, FlagParts DEF TypeOK
  <2>6. ~Written(w)
    BY <1>2, HandsPending DEF Written
  <2> QED
    BY <1>0, <2>2, <2>3, <2>4, <2>5, <2>6
<1> QED
  BY <1>1, <1>2

LEMMA GetterNothing ==
  ASSUME TypeOK, Busy, LeftByWaiting, ClosedLater, NothingToGet, NEW j \in Journeys, Getter(j)
  PROVE  ClosedLater' /\ NothingToGet'
<1>1. UNCHANGED <<closed, doing, closes>>
  BY GetterLeaves
<1>2. ClosedLater'
  <2> SUFFICES ASSUME NEW c \in Callers, doing[c].op \in {"close", "reset"},
                      NEW i \in DOMAIN doing[c].ws, HasFrame(doing[c].ws[i])'
               PROVE  frame'[doing[c].ws[i].doer.who].since < closes
    BY <1>1 DEF ClosedLater
  <2>1. PICK w : w = doing[c].ws[i]
    OBVIOUS
  <2>2. w \in Pending /\ HasFrame(w)'
    BY <1>1, <2>1, PendingParts DEF HasFrame
  <2>3. HasFrame(w) /\ frame'[w.doer.who] = frame[w.doer.who]
    BY <2>2, GetterFrames
  <2> QED
    BY <2>1, <2>3 DEF ClosedLater
<1>3. NothingToGet'
  <2>1. CASE GetWait(j)
    BY <1>1, <2>1 DEF GetWait, NothingToGet
  <2>2. CASE GetNow(j)
    BY <1>1, <2>2 DEF GetNow, NothingToGet
  <2>3. CASE ~GetWait(j) /\ ~GetNow(j)
    <3>1. UNCHANGED <<queue, waiters>>
      BY <2>3 DEF Getter, GetReturns, GetThrows, Prepare, Run, Event, channelVars
    <3> QED
      BY <1>1, <3>1 DEF NothingToGet
  <2> QED
    BY <2>1, <2>2, <2>3
<1> QED
  BY <1>2, <1>3

(* Nobody who sleeps soundly is disturbed by its own steps.                *)
LEMMA GetterSleeps ==
  ASSUME TypeOK, TypeOK', Busy, ResumedOnce, Whereabouts, LeftByWaiting, SleepsSoundly,
         NEW j \in Journeys, Getter(j)
  PROVE  SleepsSoundly'
<1> SUFFICES ASSUME NEW w \in Pending', ~w.late, w \in Acquired' \/ Usable(w)'
             PROVE  LET k == w.doer.who
                    IN  /\ HasFrame(w)'
                        /\ Asleep(k)'
                        /\ flags'[k].enabled = (w.doer.enabled /\ w \notin Acquired')
                        /\ \A v \in Pending' : v.doer.who = k => v = w
  BY DEF SleepsSoundly
<1>0. JourneyTypeOK /\ UNCHANGED Acquired /\ Acquired \subseteq Pending
  <2>1. Acquired \subseteq Pending
    BY HandsPending DEF Acquired
  <2> QED
    BY <2>1, GetterPending DEF TypeOK
<1>1. CASE w \in Pending
  <2> DEFINE k == w.doer.who
  <2>1. /\ w \in Waiter /\ k \in Journeys /\ w.doer.counter \in Nat /\ w.doer.enabled \in BOOLEAN
        /\ w.call \in Nat /\ w.call > 0
        /\ flags[k].counter \in Nat /\ flags'[k].counter \in Nat /\ flags[j].counter \in Nat
        /\ w.doer.counter <= flags[k].counter
    <3>1. w \in Waiter /\ k \in Journeys /\ w.doer.counter \in Nat /\ w.call \in Nat
          /\ w.doer.enabled \in BOOLEAN
      BY <1>1, PendingTyped, WaiterParts
    <3>2. flags[k].counter \in Nat /\ flags[j].counter \in Nat
      BY <3>1, FlagParts DEF TypeOK
    <3>3. flags'[k].counter \in Nat
      BY <3>1 DEF TypeOK, JourneyTypeOK, Flags
    <3> QED
      BY <1>1, <3>1, <3>2, <3>3 DEF LeftByWaiting
  <2>2. flags'[k].counter >= flags[k].counter
    BY <2>1, GetterFlags
  <2>3. w \in Acquired \/ Usable(w)
    <3> SUFFICES ASSUME Usable(w)', w.doer.enabled
                 PROVE  flags[k].counter = w.doer.counter
      BY <1>0 DEF Usable, Acquirable
    <3>1. flags'[k].counter = w.doer.counter
      BY DEF Usable, Acquirable
    <3> QED
      BY <2>1, <2>2, <3>1
  <2>4. /\ HasFrame(w) /\ Asleep(k)
        /\ flags[k].enabled = (w.doer.enabled /\ w \notin Acquired)
        /\ \A v \in Pending : v.doer.who = k => v = w
    BY <1>1, <2>3 DEF SleepsSoundly
  <2>5. Waits(k)
    <3>1. frame[k].call # 0 /\ NoFrame.call = 0
      BY <2>1, <2>4 DEF HasFrame, NoFrame, NewFrame
    <3> QED
      BY <3>1 DEF Waits
  <2>6. \A v \in Pending' : v.doer.who = k => v = w
    <3> SUFFICES ASSUME NEW v \in Pending' \ Pending
                 PROVE  v.doer.who # k
      BY <2>4
    <3>1. GetWait(j) /\ v = NewWaiter(j)
      BY GetterPending
    <3> QED
      BY <2>5, <3>1 DEF GetWait, NewWaiter, Doer
  <2>7. CASE k # j
    <3>1. flags'[k] = flags[k] /\ phase'[k] = phase[k]
      BY <2>1, <2>7, GetterFlags
    <3>2. Asleep(k)'
      BY <2>4, <3>1 DEF Asleep
    <3>3. frame'[k] = frame[k]
      <4>1. frame' = frame \/ \E f \in Frame : frame' = [frame EXCEPT ![j] = f]
        <5>1. CASE GetWait(j)
          BY <5>1, Waiting
        <5>2. CASE ~GetWait(j)
          <6>1. NoFrame \in Frame
            BY DEF NoFrame, NewFrame, Frame
          <6> QED
            BY <5>2, <6>1 DEF Getter, GetNow, GetReturns, GetThrows, Prepare, Run, Event, channelVars
        <5> QED
          BY <5>1, <5>2
      <4> QED
        BY <2>1, <2>7, <4>1 DEF TypeOK
    <3>4. HasFrame(w)'
      BY <2>4, <3>3 DEF HasFrame
    <3> QED
      BY <1>0, <2>4, <2>6, <3>1, <3>2, <3>4
  <2>8. CASE k = j
    <3>1. /\ phase[j] \in {"yielded", "suspended"} /\ Waits(j) /\ ~flags[j].done
          /\ phase[j] = "suspended" => ~flags[j].entered
          /\ flags[j].enabled => flags[j].raised = {}
      BY <2>4, <2>5, <2>8 DEF Asleep
    <3>2. ready[j] = 0
      BY <3>1 DEF ResumedOnce
    <3>3. (ResetEntered(j) /\ UNCHANGED channelVars) \/ Event(j)
      BY <3>1, <3>2
      DEF Getter, GetNow, GetWait, GetReturns, GetThrows, Throws, Returns, ThrowsEvent, ThrowsError,
          Handled, Prepare, Run, Proceed0, Load, Moves
    <3>4. UNCHANGED frame
      BY <3>3 DEF channelVars, Event
    <3>5. HasFrame(w)'
      BY <2>4, <3>4 DEF HasFrame
    <3>6. CASE ResetEntered(j)
      <4>1. ~MayProceed(flags[j])
        BY <3>1 DEF MayProceed
      <4>2. flags' = [flags EXCEPT ![j] = [flags[j] EXCEPT !.entered = FALSE]]
            /\ phase' = [phase EXCEPT ![j] = "suspended"]
        BY <3>6, <4>1 DEF ResetEntered, Moves
      <4>3. /\ ~flags'[j].entered /\ flags'[j].done = flags[j].done
            /\ flags'[j].enabled = flags[j].enabled /\ flags'[j].raised = flags[j].raised
            /\ phase'[j] = "suspended"
        BY <1>0, <4>2 DEF JourneyTypeOK, Flags
      <4>4. Asleep(j)'
        BY <3>1, <4>3 DEF Asleep
      <4> QED
        BY <1>0, <2>4, <2>6, <2>8, <3>5, <4>3, <4>4
    <3>7. CASE Event(j)
      <4>1. PICK event \in {"cancelled", "timedout"} : Raise(j, event)
        BY <3>7 DEF Event
      <4>2. ~flags[j].enabled
        <5> SUFFICES ASSUME flags[j].enabled
                     PROVE  FALSE
          OBVIOUS
        <5>1. w.doer.enabled /\ w \notin Acquired
          BY <2>1, <2>4, <2>8 DEF TypeOK
        <5>2. flags'[j].counter = w.doer.counter
          BY <1>0, <2>8, <5>1 DEF Usable, Acquirable
        <5>3. flags'[j].counter = flags[j].counter + 1
          BY <1>0, <4>1, RaiseParts
        <5> QED
          BY <2>1, <2>8, <5>2, <5>3
      <4>3. /\ flags'[j].entered = flags[j].entered /\ flags'[j].done = flags[j].done
            /\ flags'[j].enabled = flags[j].enabled /\ phase'[j] = phase[j]
        BY <1>0, <4>1, <4>2, RaiseParts
      <4>4. Asleep(j)'
        BY <3>1, <4>2, <4>3 DEF Asleep
      <4> QED
        BY <1>0, <2>4, <2>6, <2>8, <3>5, <4>3, <4>4
    <3> QED
      BY <3>3, <3>6, <3>7
  <2> QED
    BY <2>7, <2>8
<1>2. CASE w \notin Pending
  <2>1. GetWait(j) /\ w = NewWaiter(j)
    BY <1>2, GetterPending
  <2>2. w.doer.who = j /\ w.call = calls[j] + 1 /\ w.doer.enabled = flags[j].enabled
    BY <2>1 DEF NewWaiter, Doer
  <2>3. ~MayEnd(j)
    BY <2>1 DEF NewWaiter
  <2>4. ~flags[j].done /\ flags[j].raised = {} /\ \A v \in Pending : v.doer.who # j
    <3>1. ~flags[j].done /\ flags[j].raised = {}
      BY <2>3 DEF MayEnd
    <3>2. \A v \in Pending : v.doer.who # j
      BY <2>3, PendingParts DEF MayEnd
    <3> QED
      BY <3>1, <3>2
  <2>5. /\ frame' = [frame EXCEPT ![j] = NewFrame(calls[j] + 1, closes)] /\ UNCHANGED flags
    BY <2>1, Waiting
  <2>6. HasFrame(w)'
    BY <2>2, <2>5 DEF HasFrame, TypeOK, NewFrame
  <2>7. phase'[j] = "yielded"
    BY <1>0, <2>1, <2>4 DEF GetWait, WaitForDone, Moves, JourneyTypeOK
  <2>8. Asleep(j)'
    BY <2>4, <2>5, <2>7 DEF Asleep
  <2>9. \A v \in Pending' : v.doer.who = j => v = w
    BY <2>1, <2>4, GetterPending
  <2>10. flags'[j].enabled = (w.doer.enabled /\ w \notin Acquired')
    <3>1. w \notin Acquired'
      BY <1>0, <1>2
    <3>2. flags'[j].enabled = flags[j].enabled /\ flags[j].enabled \in BOOLEAN
      BY <1>0, <2>5, FlagParts
    <3> QED
      BY <2>2, <3>1, <3>2
  <2> QED
    BY <2>2, <2>6, <2>8, <2>9, <2>10
<1> QED
  BY <1>1, <1>2

-----------------------------------------------------------------------------
(* A waiter that is left is known by its journey and its get().            *)
LEMMA OnePlace ==
  ASSUME LeftOnce, NEW v \in Pending, NEW w \in Pending, Same(v, w)
  PROVE  v = w
<1>1. Same(w, v)
  BY DEF Same
<1>2. CASE \E i \in DOMAIN waiters : waiters[i] = v
  BY <1>2, PendingParts DEF LeftOnce
<1>3. CASE \E i \in DOMAIN waiters : waiters[i] = w
  BY <1>1, <1>3, PendingParts DEF LeftOnce
<1>4. CASE /\ \E c \in Callers : \E i \in DOMAIN doing[c].ws : doing[c].ws[i] = v
           /\ \E c \in Callers : \E i \in DOMAIN doing[c].ws : doing[c].ws[i] = w
  <2>1. PICK c \in Callers : \E i \in DOMAIN doing[c].ws : doing[c].ws[i] = v
    BY <1>4
  <2>2. PICK i \in DOMAIN doing[c].ws : doing[c].ws[i] = v
    BY <2>1
  <2>3. PICK d \in Callers : \E k \in DOMAIN doing[d].ws : doing[d].ws[k] = w
    BY <1>4
  <2>4. PICK k \in DOMAIN doing[d].ws : doing[d].ws[k] = w
    BY <2>3
  <2>5. c = d
    BY <2>2, <2>4 DEF LeftOnce
  <2> QED
    BY <2>2, <2>4, <2>5 DEF LeftOnce
<1> QED
  BY <1>2, <1>3, <1>4, PendingParts

(* What the steps of a thread do to a journey: they take its events away,  *)
(* or give them back and tell it, and nothing else.                        *)
LEMMA CallerFlags ==
  ASSUME TypeOK, TypeOK', Busy, LeftOnce, NEW c \in Callers, Caller(c), NEW k \in Journeys
  PROVE  /\ UNCHANGED <<phase, seen, events, calls>>
         /\ flags'[k].counter = flags[k].counter /\ flags'[k].raised = flags[k].raised
         /\ flags[k].done => flags'[k].done
         /\ \/ flags'[k] = flags[k]
            \/ \E w \in Pending : w.doer.who = k /\ (Take(w) \/ Tell(c, w))
         /\ (\E w \in Pending : Take(w)) =>
              flags'[k].done = flags[k].done /\ flags'[k].entered = flags[k].entered
<1>1. UNCHANGED <<phase, seen, events, calls>>
  BY DEF Caller, Put, Set, Close, Reset, Told, Open, journeyVars
<1>2. flags \in [Journeys -> Flags] /\ flags[k] \in Flags
  BY DEF TypeOK, JourneyTypeOK
<1>3. CASE Neither
  <2>1. flags' = flags
    BY <1>3 DEF Neither
  <2> QED
    BY <1>1, <2>1
<1>4. ASSUME NEW w \in Pending, Take(w)
      PROVE  /\ flags'[k].counter = flags[k].counter /\ flags'[k].raised = flags[k].raised
             /\ flags'[k].done = flags[k].done /\ flags'[k].entered = flags[k].entered
             /\ w.doer.who # k => flags'[k] = flags[k]
  <2>1. flags' = [flags EXCEPT ![w.doer.who] = Disabled(w.doer)]
    BY <1>4 DEF Take, Takes
  <2>2. CASE w.doer.who # k
    BY <1>2, <2>1, <2>2
  <2>3. CASE w.doer.who = k
    <3>1. flags'[k] = Disabled(w.doer)
      BY <1>2, <2>1, <2>3
    <3> QED
      BY <1>2, <2>3, <3>1 DEF Disabled, Flags
  <2> QED
    BY <2>2, <2>3
<1>5. ASSUME NEW w \in Pending, Tell(c, w)
      PROVE  /\ flags'[k].counter = flags[k].counter /\ flags'[k].raised = flags[k].raised
             /\ flags[k].done => flags'[k].done
             /\ w.doer.who # k => flags'[k] = flags[k]
  <2> DEFINE f == [flags[w.doer.who] EXCEPT !.done = TRUE, !.enabled = @ \/ w.doer.enabled]
  <2>1. flags' = [flags EXCEPT ![w.doer.who] = [f EXCEPT !.entered = TRUE]]
    BY <1>5 DEF Tell, ReleaseAndDone, Enter
  <2>2. CASE w.doer.who # k
    BY <1>2, <2>1, <2>2
  <2>3. CASE w.doer.who = k
    <3>1. flags'[k] = [f EXCEPT !.entered = TRUE]
      BY <1>2, <2>1, <2>3
    <3> QED
      BY <1>2, <2>3, <3>1 DEF Flags
  <2> QED
    BY <2>2, <2>3
<1>6. \A w \in Pending : Take(w) => ~(\E v \in Pending : Tell(c, v)) /\ ~Neither
  <2> SUFFICES ASSUME NEW w \in Pending, Take(w)
               PROVE  ~(\E v \in Pending : Tell(c, v)) /\ ~Neither
    OBVIOUS
  <2>1. w \in Acquired' /\ w \notin Acquired
    BY DEF Take
  <2> QED
    BY <2>1 DEF Tell, Neither
<1> QED
  BY <1>1, <1>3, <1>4, <1>5, CallerMoves

(* Whether set() has written to the frame of a waiter that is still in the *)
(* hands of a thread.                                                      *)
LEMMA WrittenStays ==
  ASSUME TypeOK, TypeOK', Busy, LeftOnce, NEW c \in Callers, Caller(c), NEW w \in Pending'
  PROVE  Written(w)' <=> Written(w) \/ (Set(c) /\ w = Head(doing[c].ws))
<1> DEFINE Has(d) == doing[d].op = "tell" /\ Head(doing[d].ws) = w
<1>1. \A d \in Callers \ {c} : doing'[d] = doing[d]
  BY Doing, OneDoing
<1>2. (doing'[c].op = "tell" /\ Head(doing'[c].ws) = w)
        <=> Has(c) \/ (Set(c) /\ w = Head(doing[c].ws))
  <2>1. CASE Set(c)
    <3>1. doing'[c].op = "tell" /\ doing'[c].ws = doing[c].ws /\ doing[c].op = "set"
      BY <2>1, Hands DEF Set, TypeOK, Work
    <3> QED
      BY <2>1, <3>1
  <2>2. CASE Told(c)
    <3>1. Head(doing[c].ws) # w
      BY <2>2, CallerMoves DEF Tell
    <3>2. doing[c].op # "idle" /\ doing' = [doing EXCEPT ![c] = Closing(Tail(doing[c].ws))]
      BY <2>2 DEF Told
    <3>3. doing'[c] = Closing(Tail(doing[c].ws)) /\ Closing(Tail(doing[c].ws)).op # "tell"
      BY <3>2, LessToDo, OneDoing
    <3> QED
      BY <3>1, <3>3
  <2>3. CASE ~Set(c) /\ ~Told(c)
    <3>1. doing[c].op # "tell"
      BY <2>3 DEF Caller, Put, Close, Reset, Open, Idle
    <3>2. doing'[c].op # "tell"
      <4>1. CASE Put(c)
        <5>1. doing[c].op = "idle" /\ (doing' = doing \/ \E k \in DOMAIN waiters : Gives(c, k))
          BY <4>1, PutCases DEF Queues
        <5>2. ASSUME NEW k \in DOMAIN waiters, Gives(c, k)
              PROVE  doing'[c].op = "set"
          BY <5>2 DEF Gives, TypeOK, Gift
        <5> QED
          BY <3>1, <5>1, <5>2
      <4>2. CASE Close(c)
        <5>1. doing' = [doing EXCEPT ![c] = Closing(waiters)]
          BY <4>2 DEF Close
        <5>2. Closing(waiters) \in Work /\ Closing(waiters).op # "tell"
          BY ClosingParts DEF TypeOK
        <5> QED
          BY <5>1, <5>2, OneDoing
      <4>3. CASE Reset(c)
        <5>1. doing[c].op # "idle"
          BY <4>3 DEF Reset
        <5>2. Closing(Tail(doing[c].ws)) \in Work /\ Closing(Tail(doing[c].ws)).op # "tell"
          BY <5>1, LessToDo
        <5>3. [doing[c] EXCEPT !.op = "reset"] \in Work /\ [doing[c] EXCEPT !.op = "reset"].op # "tell"
          BY Hands DEF Work
        <5> QED
          BY <4>3, <5>2, <5>3, OneDoing DEF Reset
      <4>4. CASE Open(c)
        BY <3>1, <4>4 DEF Open
      <4> QED
        BY <2>3, <4>1, <4>2, <4>3, <4>4 DEF Caller
    <3> QED
      BY <2>3, <3>1, <3>2
  <2> QED
    BY <2>1, <2>2, <2>3
<1>3. Written(w)' <=> (\E d \in Callers \ {c} : Has(d)) \/ (doing'[c].op = "tell" /\ Head(doing'[c].ws) = w)
  BY <1>1 DEF Written
<1>4. Written(w) <=> (\E d \in Callers \ {c} : Has(d)) \/ Has(c)
  BY DEF Written
<1> QED
  BY <1>2, <1>3, <1>4

(* Nothing was written for a waiter that is about to get a value.          *)
LEMMA NotYetWritten ==
  ASSUME TypeOK, Busy, LeftOnce, LeftByWaiting, NEW c \in Callers, doing[c].op = "set",
         HasFrame(Head(doing[c].ws))
  PROVE  ~frame[Head(doing[c].ws).doer.who].wasSet
<1>1. Head(doing[c].ws) \in Pending
  BY HandsPending
<1>2. ~Written(Head(doing[c].ws))
  <2> SUFFICES ASSUME NEW d \in Callers, doing[d].op = "tell", Head(doing[d].ws) = Head(doing[c].ws)
               PROVE  FALSE
    BY DEF Written
  <2>1. /\ 1 \in DOMAIN doing[d].ws /\ doing[d].ws[1] = Head(doing[d].ws)
        /\ 1 \in DOMAIN doing[c].ws /\ doing[c].ws[1] = Head(doing[c].ws)
    BY First
  <2> QED
    BY <2>1 DEF LeftOnce, Same
<1> QED
  BY <1>1, <1>2 DEF LeftByWaiting

LEMMA CallerFrames ==
  ASSUME TypeOK, TypeOK', Busy, LeftOnce, NEW c \in Callers, Caller(c), NEW w \in Pending'
  PROVE  /\ w \in Pending /\ w \in Waiter
         /\ HasFrame(w)' <=> HasFrame(w)
         /\ frame'[w.doer.who].since = frame[w.doer.who].since
         /\ Written(w)' <=> Written(w) \/ (Set(c) /\ w = Head(doing[c].ws))
         /\ HasFrame(w) => \/ frame'[w.doer.who] = frame[w.doer.who] /\ (Written(w)' <=> Written(w))
                           \/ frame'[w.doer.who].wasSet /\ Written(w)'
<1>1. w \in Pending /\ w \in Waiter /\ w.doer.who \in Journeys
  BY CallerMoves, PendingTyped, WaiterParts
<1>2. /\ frame'[w.doer.who].call = frame[w.doer.who].call
      /\ frame'[w.doer.who].since = frame[w.doer.who].since
      /\ frame'[w.doer.who] = frame[w.doer.who] \/ Filling(c, w.doer.who)
      /\ Set(c) => doing[c].op = "set"
  BY <1>1, FrameFilled
<1>3. ASSUME HasFrame(w), Filling(c, w.doer.who)
      PROVE  Set(c) /\ w = Head(doing[c].ws) /\ frame'[w.doer.who].wasSet
  <2> DEFINE h == Head(doing[c].ws)
  <2>1. Set(c) /\ h.doer.who = w.doer.who /\ HasFrame(h) /\ frame'[w.doer.who].wasSet
    BY <1>3 DEF Filling
  <2>2. Same(h, w)
    BY <1>3, <2>1 DEF HasFrame, Same
  <2>3. h \in Pending
    BY <1>2, <2>1, HandsPending
  <2> HIDE DEF h
  <2>5. h = w
    BY <1>1, <2>2, <2>3, OnePlace
  <2> QED
    BY <2>1, <2>5 DEF h
<1>4. Written(w)' <=> Written(w) \/ (Set(c) /\ w = Head(doing[c].ws))
  BY WrittenStays
<1>5. ASSUME Set(c), HasFrame(w), w = Head(doing[c].ws)
      PROVE  frame'[w.doer.who].wasSet
  <2>1. frame' = [frame EXCEPT ![w.doer.who] = Filled(frame[w.doer.who], doing[c].value)]
    BY <1>5 DEF Set
  <2>2. frame[w.doer.who] \in Frame
    BY <1>1, Frames
  <2>3. frame'[w.doer.who] = Filled(frame[w.doer.who], doing[c].value)
    BY <1>1, <2>1 DEF TypeOK
  <2> QED
    BY <2>2, <2>3 DEF Filled, Frame
<1>6. HasFrame(w)' <=> HasFrame(w)
  BY <1>2 DEF HasFrame
<1>7. HasFrame(w) => \/ frame'[w.doer.who] = frame[w.doer.who] /\ (Written(w)' <=> Written(w))
                     \/ frame'[w.doer.who].wasSet /\ Written(w)'
  BY <1>2, <1>3, <1>4, <1>5
<1> QED
  BY <1>1, <1>2, <1>4, <1>6, <1>7

LEMMA CallerLeft ==
  ASSUME TypeOK, TypeOK', Busy, LeftOnce, LeftByWaiting, NEW c \in Callers, Caller(c)
  PROVE  LeftByWaiting'
<1> SUFFICES ASSUME NEW w \in Pending'
             PROVE  /\ w.call \in 1 .. calls'[w.doer.who]
                    /\ w.doer.counter <= flags'[w.doer.who].counter
                    /\ HasFrame(w)' => (frame'[w.doer.who].wasSet <=> Written(w)')
                    /\ HasFrame(w)' /\ w.doer.counter < flags'[w.doer.who].counter
                         => flags'[w.doer.who].raised # {}
  BY DEF LeftByWaiting
<1>1. /\ w \in Pending /\ w \in Waiter
      /\ HasFrame(w)' <=> HasFrame(w)
      /\ HasFrame(w) => \/ frame'[w.doer.who] = frame[w.doer.who] /\ (Written(w)' <=> Written(w))
                        \/ frame'[w.doer.who].wasSet /\ Written(w)'
  BY CallerFrames
<1>2. w.doer.who \in Journeys
  BY <1>1, WaiterParts
<1>3. /\ flags'[w.doer.who].counter = flags[w.doer.who].counter
      /\ flags'[w.doer.who].raised = flags[w.doer.who].raised
      /\ calls' = calls
  BY <1>2, CallerFlags
<1> QED
  BY <1>1, <1>3 DEF LeftByWaiting

LEMMA CallerNothing ==
  ASSUME TypeOK, TypeOK', Busy, Whereabouts, LeftOnce, LeftByWaiting, ClosedLater, NothingToGet,
         NEW c \in Callers, Caller(c)
  PROVE  ClosedLater' /\ NothingToGet'
<1>1. ClosedLater'
  <2> SUFFICES ASSUME NEW d \in Callers, doing'[d].op \in {"close", "reset"},
                      NEW i \in DOMAIN doing'[d].ws,
                      NEW w, w = doing'[d].ws[i], frame'[w.doer.who].call = w.call
               PROVE  frame'[w.doer.who].since < closes'
    BY DEF ClosedLater, HasFrame
  <2>1. w = doing'[d].ws[i]
    OBVIOUS
  <2>2. w \in Pending' /\ HasFrame(w)'
    BY <2>1, PendingPartsNext DEF HasFrame
  <2>3. /\ w \in Pending /\ w \in Waiter /\ HasFrame(w)
        /\ frame'[w.doer.who].since = frame[w.doer.who].since
    BY <2>2, CallerFrames
  <2>4. /\ w.doer.who \in Journeys /\ frame[w.doer.who].since \in Nat
        /\ closes \in Nat /\ closes' \in Nat /\ closes' >= closes
    <3>1. w.doer.who \in Journeys
      BY <2>3, WaiterParts
    <3>2. closes' = closes \/ closes' = closes + 1
      BY DEF Caller, Put, Set, Close, Reset, Told, Open
    <3>3. frame[w.doer.who].since \in Nat
      BY <3>1, Frames
    <3>4. closes \in Nat
      BY DEF TypeOK
    <3> QED
      BY <3>1, <3>2, <3>3, <3>4
  <2>5. CASE doing[d].op \in {"close", "reset"} /\ \E k \in DOMAIN doing[d].ws : doing[d].ws[k] = w
    <3>1. frame[w.doer.who].since < closes
      BY <2>3, <2>5 DEF ClosedLater
    <3> QED
      BY <2>1, <2>3, <2>4, <3>1
  <2>6. CASE ~(doing[d].op \in {"close", "reset"} /\ \E k \in DOMAIN doing[d].ws : doing[d].ws[k] = w)
    <3>1. Close(c)
      <4> SUFFICES ASSUME ~Close(c)
                   PROVE  FALSE
        OBVIOUS
      <4>1. c = d /\ \E r \in Work : doing' = [doing EXCEPT ![c] = r]
        BY <2>1, <2>6, Doing, OneDoing
      <4>2. PICK r \in Work : doing' = [doing EXCEPT ![c] = r]
        BY <4>1
      <4>3. doing'[c] = r
        BY <4>2, OneDoing
      <4>4. ~Put(c)
        <5> SUFFICES ASSUME Put(c)
                     PROVE  FALSE
          OBVIOUS
        <5>1. doing[c].op = "idle" /\ (doing' = doing \/ \E k \in DOMAIN waiters : Gives(c, k))
          BY PutCases DEF Queues
        <5>2. PICK k \in DOMAIN waiters : doing' = [doing EXCEPT ![c] = Gift(k)]
          BY <2>6, <4>1, <5>1 DEF Gives
        <5>3. doing'[c].op = "set"
          BY <5>2 DEF TypeOK, Gift
        <5> QED
          BY <4>1, <5>3
      <4>5. ~Set(c) /\ ~Open(c)
        <5>1. Set(c) => doing'[c].op = "tell"
          <6>1. Set(c) => doing' = [doing EXCEPT ![c].op = "tell"]
            BY DEF Set
          <6>2. doing \in [Callers -> Work] /\ doing[c] \in Work
            BY Hands DEF TypeOK, Work
          <6> QED
            BY <6>1, <6>2 DEF Work
        <5>2. Open(c) => doing'[c].op = "idle"
          BY DEF Open, TypeOK, Idle
        <5> QED
          BY <4>1, <5>1, <5>2
      <4>6. doing[c].op \in {"close", "reset"} /\ doing[c].op # "idle"
        <5>1. doing[c].op \in {"tell", "close", "reset"}
          BY <4>4, <4>5 DEF Caller, Reset, Told
        <5>2. ASSUME doing[c].op = "tell"
              PROVE  FALSE
          <6>1. Told(c) /\ doing[c].op # "idle"
            BY <4>4, <4>5, <5>2 DEF Caller, Reset
          <6>2. Len(doing[c].ws) = 1 /\ doing[c].ws # <<>> /\ doing[c].ws \in Seq(Waiter)
            BY <5>2, <6>1, First, Hands DEF Busy
          <6>3. DOMAIN Tail(doing[c].ws) = {}
            BY <6>2, Rest
          <6>4. doing'[c] = Closing(Tail(doing[c].ws))
            BY <6>1, LessToDo, OneDoing DEF Told
          <6> QED
            BY <4>1, <6>1, <6>3, <6>4, LessToDo
        <5> QED
          BY <5>1, <5>2
      <4>7. doing[c].ws \in Seq(Waiter) /\ doing[c].ws # <<>>
        BY <4>6, First, Hands
      <4>8. doing'[c].ws = doing[c].ws \/ doing'[c].ws = Tail(doing[c].ws)
        <5>1. Reset(c) \/ Told(c)
          BY <4>4, <4>5 DEF Caller
        <5>2. CASE doing' = [doing EXCEPT ![c].op = "reset"]
          BY <5>2, Hands DEF TypeOK, Work
        <5>3. CASE doing' = [doing EXCEPT ![c] = Closing(Tail(doing[c].ws))]
          BY <4>6, <5>3, LessToDo DEF TypeOK
        <5> QED
          BY <5>1, <5>2, <5>3 DEF Reset, Told
      <4>9. \E k \in DOMAIN doing[c].ws : doing[c].ws[k] = w
        <5>1. CASE doing'[c].ws = doing[c].ws
          BY <2>1, <4>1, <5>1
        <5>2. CASE doing'[c].ws = Tail(doing[c].ws)
          <6>1. i \in DOMAIN Tail(doing[c].ws) /\ Tail(doing[c].ws)[i] = w
            BY <2>1, <4>1, <5>2
          <6>2. i + 1 \in DOMAIN doing[c].ws /\ doing[c].ws[i + 1] = w
            BY <4>7, <6>1, Rest
          <6> QED
            BY <6>2
        <5> QED
          BY <4>8, <5>1, <5>2
      <4> QED
        BY <2>6, <4>1, <4>6, <4>9
    <3>2. closes' = closes + 1
      BY <3>1 DEF Close
    <3>3. Waits(w.doer.who)
      <4>1. w.call > 0 /\ w.call \in Nat
        BY <2>3, <2>4, CallsNumbered
      <4>2. frame[w.doer.who].call # 0
        BY <2>3, <4>1 DEF HasFrame
      <4> QED
        BY <2>4, <4>2, NumberedWaits
    <3>4. frame[w.doer.who].since <= closes
      BY <2>4, <3>3 DEF Whereabouts
    <3> QED
      BY <2>1, <2>3, <2>4, <3>2, <3>4
  <2> QED
    BY <2>5, <2>6
<1>2. NothingToGet'
  <2>1. CASE Put(c)
    <3>1. CASE Queues(c)
      BY <3>1 DEF Queues, NothingToGet
    <3>2. CASE \E i \in DOMAIN waiters : Gives(c, i)
      <4>1. PICK i \in DOMAIN waiters : Gives(c, i)
        BY <3>2
      <4>2. waiters # <<>>
        BY <4>1, EmptySeq
      <4> QED
        BY <2>1, <4>1, <4>2, PutCases DEF Gives, NothingToGet
    <3> QED
      BY <2>1, <3>1, <3>2, PutCases
  <2>2. CASE ~Put(c)
    BY <2>2 DEF Caller, Set, Close, Reset, Told, Open, NothingToGet
  <2> QED
    BY <2>1, <2>2
<1> QED
  BY <1>1, <1>2

LEMMA CallerSleeps ==
  ASSUME TypeOK, TypeOK', Busy, LeftOnce, SleepsSoundly, NEW c \in Callers, Caller(c)
  PROVE  SleepsSoundly'
<1> SUFFICES ASSUME NEW w \in Pending', ~w.late, w \in Acquired' \/ Usable(w)'
             PROVE  LET k == w.doer.who
                    IN  /\ HasFrame(w)'
                        /\ Asleep(k)'
                        /\ flags'[k].enabled = (w.doer.enabled /\ w \notin Acquired')
                        /\ \A v \in Pending' : v.doer.who = k => v = w
  BY DEF SleepsSoundly
<1> DEFINE k == w.doer.who
<1>1. /\ w \in Pending /\ w \in Waiter
      /\ HasFrame(w)' <=> HasFrame(w)
  BY CallerFrames
<1>2. k \in Journeys /\ w.doer.enabled \in BOOLEAN /\ flags[k] \in Flags
  BY <1>1, WaiterParts DEF TypeOK, JourneyTypeOK
<1>3. /\ UNCHANGED phase
      /\ flags'[k].counter = flags[k].counter /\ flags'[k].raised = flags[k].raised
      /\ (\E v \in Pending : Take(v)) =>
           flags'[k].done = flags[k].done /\ flags'[k].entered = flags[k].entered
  BY <1>2, CallerFlags
<1>4. Pending' \subseteq Pending /\ (Neither \/ (\E v \in Pending : Take(v) \/ Tell(c, v)))
  BY CallerMoves
<1>5. Usable(w)' <=> Usable(w)
  BY <1>3 DEF Usable, Acquirable
<1>6. w \in Acquired \/ Usable(w)
  <2>1. w \in Acquired' => w \in Acquired \/ Usable(w)
    BY <1>4 DEF Neither, Take, Tell
  <2> QED
    BY <1>5, <2>1
<1>7. /\ HasFrame(w) /\ Asleep(k)
      /\ flags[k].enabled = (w.doer.enabled /\ w \notin Acquired)
      /\ \A v \in Pending : v.doer.who = k => v = w
  BY <1>1, <1>6 DEF SleepsSoundly
<1>8. HasFrame(w)' /\ \A v \in Pending' : v.doer.who = k => v = w
  BY <1>1, <1>4, <1>7
<1>9. ASSUME flags'[k] = flags[k], w \in Acquired' <=> w \in Acquired
      PROVE  Asleep(k)' /\ flags'[k].enabled = (w.doer.enabled /\ w \notin Acquired')
  BY <1>3, <1>7, <1>9 DEF Asleep
<1>10. CASE Neither
  <2>1. flags'[k] = flags[k] /\ Acquired' = Acquired
    BY <1>10 DEF Neither
  <2> QED
    BY <1>8, <1>9, <2>1
<1>11. ASSUME NEW v \in Pending, Take(v)
       PROVE  Asleep(k)' /\ flags'[k].enabled = (w.doer.enabled /\ w \notin Acquired')
  <2>1. flags' = [flags EXCEPT ![v.doer.who] = Disabled(v.doer)] /\ Acquired' = Acquired \cup {v}
        /\ v \notin Acquired
    BY <1>11 DEF Take, Takes
  <2>2. CASE v.doer.who # k
    <3>1. flags'[k] = flags[k]
      BY <1>2, <2>1, <2>2 DEF TypeOK, JourneyTypeOK
    <3>2. w \in Acquired' <=> w \in Acquired
      BY <2>1, <2>2
    <3> QED
      BY <1>9, <3>1, <3>2
  <2>3. CASE v.doer.who = k
    <3>1. v = w
      BY <1>7, <2>3
    <3>2. w \in Acquired' /\ w \notin Acquired
      BY <2>1, <3>1
    <3>3. flags'[k] = Disabled(w.doer)
      BY <1>2, <2>1, <3>1 DEF TypeOK, JourneyTypeOK
    <3>4. flags[k].enabled = w.doer.enabled
      BY <1>2, <1>7, <3>2
    <3>5. flags'[k].enabled = FALSE
      BY <1>2, <3>3, <3>4 DEF Disabled, Flags
    <3>6. flags'[k].done = flags[k].done /\ flags'[k].entered = flags[k].entered
      BY <1>3, <1>11
    <3>7. Asleep(k)'
      BY <1>3, <1>7, <3>5, <3>6 DEF Asleep
    <3> QED
      BY <3>2, <3>5, <3>7
  <2> QED
    BY <2>2, <2>3
<1>12. ASSUME NEW v \in Pending, Tell(c, v)
       PROVE  Asleep(k)' /\ flags'[k].enabled = (w.doer.enabled /\ w \notin Acquired')
  <2>1. v \notin Pending' /\ Acquired' = Acquired \ {v} /\ ReleaseAndDone(v.doer)
    BY <1>12 DEF Tell
  <2>2. v # w /\ v.doer.who # k
    BY <1>7, <2>1
  <2>3. flags'[k] = flags[k]
    BY <1>2, <2>1, <2>2 DEF ReleaseAndDone, Enter, TypeOK, JourneyTypeOK
  <2> QED
    BY <1>9, <2>1, <2>2, <2>3
<1> HIDE DEF k
<1>13. Asleep(k)' /\ flags'[k].enabled = (w.doer.enabled /\ w \notin Acquired')
  <2>1. CASE Neither
    <3>1. flags'[k] = flags[k] /\ Acquired' = Acquired
      BY <2>1 DEF Neither
    <3> QED
      BY <1>9, <3>1
  <2> QED
    BY <1>4, <1>11, <1>12, <2>1
<1> QED
  BY <1>8, <1>13 DEF k

-----------------------------------------------------------------------------
(* One who is told is done.                                                *)
LEMMA ToldIsDone ==
  ASSUME TypeOK, NEW w \in Waiter, ReleaseAndDone(w.doer)
  PROVE  flags'[w.doer.who].done /\ flags'[w.doer.who].entered
<1> DEFINE f == [flags[w.doer.who] EXCEPT !.done = TRUE, !.enabled = @ \/ w.doer.enabled]
<1>1. w.doer.who \in Journeys /\ w.doer \in DoerType
  BY WaiterParts
<1>2. f \in Flags /\ f.done
  BY <1>1, ReleasedTyped DEF TypeOK
<1>3. flags' = [flags EXCEPT ![w.doer.who] = [f EXCEPT !.entered = TRUE]]
  BY DEF ReleaseAndDone, Enter
<1> HIDE DEF f
<1>4. flags'[w.doer.who] = [f EXCEPT !.entered = TRUE]
  BY <1>1, <1>3 DEF TypeOK, JourneyTypeOK
<1> QED
  BY <1>2, <1>4 DEF Flags

(* Every get() that waits is remembered, by a flag or by its waiter.       *)
Remembered ==
  \A j \in Journeys :
    Waits(j) =>
      \/ flags[j].done
      \/ flags[j].raised # {}
      \/ \E w \in Pending : w.doer.who = j /\ w.call = frame[j].call

LEMMA RememberedMeans ==
  ASSUME TypeOK, NothingToGet, Remembered
  PROVE  NobodyForgotten
<1> SUFFICES ASSUME NEW j \in Journeys, Waits(j), ~flags[j].done, flags[j].raised = {},
                    NEW w \in Pending, w.doer.who = j, w.call = frame[j].call
             PROVE  \/ /\ \E i \in DOMAIN waiters :
                            waiters[i].doer.who = j /\ waiters[i].call = frame[j].call
                       /\ queue = <<>> /\ ~closed
                    \/ \E c \in Callers : \E i \in DOMAIN doing[c].ws :
                         doing[c].ws[i].doer.who = j /\ doing[c].ws[i].call = frame[j].call
  BY DEF NobodyForgotten, Remembered
<1>1. CASE \E i \in DOMAIN waiters : waiters[i] = w
  <2>1. waiters # <<>>
    BY <1>1, EmptySeq
  <2> QED
    BY <1>1, <2>1 DEF NothingToGet
<1>2. CASE \E c \in Callers : \E i \in DOMAIN doing[c].ws : doing[c].ws[i] = w
  BY <1>2
<1> QED
  BY <1>1, <1>2, PendingParts

(* Which frame a step of one that gets leaves as it was.                   *)
LEMMA GetterWaits ==
  ASSUME TypeOK, NEW j \in Journeys, Getter(j), NEW k \in Journeys
  PROVE  \/ frame'[k] = frame[k]
         \/ k = j /\ GetWait(j)
         \/ k = j /\ (GetReturns(j) \/ GetThrows(j)) /\ frame'[k] = NoFrame
<1>1. CASE GetWait(j)
  <2>1. frame' = [frame EXCEPT ![j] = NewFrame(calls[j] + 1, closes)]
    BY <1>1, Waiting
  <2> QED
    BY <1>1, <2>1 DEF TypeOK
<1>2. CASE GetReturns(j) \/ GetThrows(j)
  BY <1>2 DEF GetReturns, GetThrows, TypeOK
<1>3. CASE ~GetWait(j) /\ ~GetReturns(j) /\ ~GetThrows(j)
  BY <1>3 DEF Getter, GetNow, Prepare, Run, Event, channelVars
<1> QED
  BY <1>1, <1>2, <1>3

(* Nobody is done by steps of its own, and only a get() that comes to its  *)
(* end resets that.                                                        *)
LEMMA GetterDone ==
  ASSUME TypeOK, NEW j \in Journeys, Getter(j), ~GetReturns(j), ~GetThrows(j)
  PROVE  flags'[j].done = flags[j].done
<1>1. JourneyTypeOK /\ flags \in [Journeys -> Flags] /\ flags[j] \in Flags
  BY DEF TypeOK, JourneyTypeOK
<1>2. CASE GetNow(j)
  BY <1>2 DEF GetNow, journeyVars
<1>3. CASE GetWait(j) \/ Prepare(j) \/ Run(j)
  BY <1>1, <1>3
  DEF GetWait, WaitForDone, Prepare, Guard, Unguard, Ends, Run, ResetEntered, Proceed0, Load, Flags
<1>4. CASE Event(j)
  <2>1. PICK event \in {"cancelled", "timedout"} : Raise(j, event)
    BY <1>4 DEF Event
  <2> QED
    BY <1>1, <2>1, RaiseParts
<1> QED
  BY <1>2, <1>3, <1>4 DEF Getter

LEMMA GetterRemembers ==
  ASSUME TypeOK, Remembered, NEW j \in Journeys, Getter(j)
  PROVE  Remembered'
<1> SUFFICES ASSUME NEW k \in Journeys, frame'[k] # NoFrame, ~flags'[k].done, flags'[k].raised = {}
             PROVE  \E w \in Pending' : w.doer.who = k /\ w.call = frame'[k].call
  BY DEF Remembered, Waits, NoFrame, NewFrame
<1>1. CASE k = j /\ GetWait(j)
  <2>1. /\ frame' = [frame EXCEPT ![j] = NewFrame(calls[j] + 1, closes)]
        /\ NewWaiter(j) \in Pending'
    BY <1>1, Waiting, GetterPending
  <2>2. frame'[j].call = calls[j] + 1
    BY <2>1 DEF TypeOK, NewFrame
  <2>3. NewWaiter(j).doer.who = j /\ NewWaiter(j).call = calls[j] + 1
    BY DEF NewWaiter, Doer
  <2> QED
    BY <1>1, <2>1, <2>2, <2>3
<1>2. CASE ~(k = j /\ GetWait(j))
  <2>1. frame'[k] = frame[k] /\ ~(k = j /\ (GetReturns(j) \/ GetThrows(j)))
    <3>1. GetReturns(j) \/ GetThrows(j) => frame'[j] = NoFrame
      BY DEF GetReturns, GetThrows, TypeOK
    <3> QED
      BY <1>2, <3>1, GetterWaits
  <2>2. ~flags[k].done /\ flags[k].raised = {}
    <3>1. CASE k # j
      BY <3>1, GetterFlags
    <3>2. CASE k = j
      <4>1. flags'[j].done = flags[j].done
        BY <2>1, <3>2, GetterDone
      <4>2. flags[j].raised \subseteq flags'[j].raised
        BY <2>1, <3>2, GetterFlags
      <4> QED
        BY <3>2, <4>1, <4>2
    <3> QED
      BY <3>1, <3>2
  <2>3. PICK w \in Pending : w.doer.who = k /\ w.call = frame[k].call
    BY <2>1, <2>2 DEF Remembered, Waits
  <2>4. w \in Pending'
    BY GetterPending
  <2> QED
    BY <2>1, <2>3, <2>4
<1> QED
  BY <1>1, <1>2

LEMMA CallerRemembers ==
  ASSUME TypeOK, TypeOK', Busy, LeftOnce, LeftByWaiting, Whereabouts, Whereabouts', Remembered,
         NEW c \in Callers, Caller(c)
  PROVE  Remembered'
<1> SUFFICES ASSUME NEW k \in Journeys, Waits(k)', ~flags'[k].done, flags'[k].raised = {}
             PROVE  \E w \in Pending' : w.doer.who = k /\ w.call = frame'[k].call
  BY DEF Remembered
<1>1. /\ UNCHANGED phase /\ flags'[k].counter = flags[k].counter
      /\ flags'[k].raised = flags[k].raised /\ (flags[k].done => flags'[k].done)
      /\ frame'[k].call = frame[k].call
  BY CallerFlags, FrameFilled
<1>2. Waits(k) /\ ~flags[k].done /\ flags[k].raised = {}
  BY <1>1 DEF Whereabouts
<1>3. PICK w \in Pending : w.doer.who = k /\ w.call = frame[k].call
  BY <1>2 DEF Remembered
<1>4. w \in Pending'
  <2> SUFFICES ASSUME w \notin Pending'
               PROVE  FALSE
    OBVIOUS
  <2>1. ~Usable(w) \/ Tell(c, w)
    BY CallerMoves
  <2>2. CASE ~Usable(w)
    <3>1. w.doer.counter # flags[k].counter
      BY <1>3, <2>2 DEF Usable, Acquirable
    <3>2. w.doer.counter \in Nat /\ flags[k].counter \in Nat /\ w.doer.counter <= flags[k].counter
      BY <1>3, PendingTyped, WaiterParts, FlagParts DEF LeftByWaiting, TypeOK
    <3>3. HasFrame(w)
      BY <1>3 DEF HasFrame
    <3> QED
      BY <1>2, <1>3, <3>1, <3>2, <3>3 DEF LeftByWaiting
  <2>3. CASE Tell(c, w)
    <3>1. flags'[k].done
      BY <1>3, <2>3, PendingTyped, ToldIsDone DEF Tell
    <3> QED
      BY <3>1
  <2> QED
    BY <2>1, <2>2, <2>3
<1> QED
  BY <1>1, <1>3, <1>4

-----------------------------------------------------------------------------
(* The frame is there for whoever writes to it: the waiter was acquired.   *)
LEMMA FrameStays ==
  ASSUME TypeOK, Busy, SleepsSoundly
  PROVE  FrameIsThere
<1> SUFFICES ASSUME NEW c \in Callers, doing[c].op = "set", ~Head(doing[c].ws).late
             PROVE  HasFrame(Head(doing[c].ws))
  BY DEF FrameIsThere
<1>1. Head(doing[c].ws) \in Pending /\ Head(doing[c].ws) \in Acquired
  BY HandsPending DEF Acquired
<1> QED
  BY <1>1 DEF SleepsSoundly

(* Whose frame is there waits.                                             *)
LEMMA FrameWaits ==
  ASSUME TypeOK, LeftByWaiting, NEW w \in Pending, HasFrame(w)
  PROVE  w.doer.who \in Journeys /\ Waits(w.doer.who)
<1>1. w.doer.who \in Journeys /\ w.call \in Nat
  BY PendingTyped, WaiterParts
<1>2. w.call > 0
  BY <1>1 DEF LeftByWaiting
<1> QED
  BY <1>1, <1>2 DEF HasFrame, Waits, NoFrame, NewFrame

(* Before the first event nothing is thrown.                               *)
LEMMA NothingThrown ==
  ASSUME Undisturbed, CalmWaiting, NEW j \in Journeys
  PROVE  ~GetThrows(j)
<1>1. seen[j].raised = {} /\ (phase[j] = "handling" => seen[j].done)
  BY DEF CalmWaiting
<1> QED
  BY <1>1 DEF GetThrows, Throws, ThrowsEvent, ThrowsError, Handled, Moves, Verified

LEMMA CalmNeverThrows ==
  ASSUME TypeOK, Undisturbed, Undisturbed', CalmWaiting, NEW j \in Journeys, Getter(j)
  PROVE  ~GetThrows(j) /\ ~Event(j) /\ flags'[j].counter = flags[j].counter
<1>2. ~GetThrows(j)
  BY NothingThrown
<1>3. ~Event(j)
  <2> SUFFICES ASSUME Event(j)
               PROVE  FALSE
    OBVIOUS
  <2>1. events' = events + 1 /\ events < MaxEvents /\ events \in Nat
    BY DEF Event, Raise, TypeOK, JourneyTypeOK
  <2> QED
    BY <2>1, JourneyAssumption DEF Undisturbed, Calm
<1>4. flags \in [Journeys -> Flags] /\ flags[j] \in Flags
  BY DEF TypeOK, JourneyTypeOK
<1>5. CASE GetNow(j)
  BY <1>2, <1>3, <1>5 DEF GetNow, journeyVars
<1>6. CASE GetWait(j) \/ GetReturns(j) \/ Prepare(j) \/ Run(j)
  BY <1>2, <1>3, <1>4, <1>6
  DEF GetWait, WaitForDone, GetReturns, Returns, Handled, Prepare, Guard, Unguard, Ends, Run,
      ResetEntered, Proceed0, Load, Flags
<1> QED
  BY <1>2, <1>3, <1>5, <1>6 DEF Getter

LEMMA GetterCalm ==
  ASSUME TypeOK, TypeOK', ResumedOnce, Whereabouts, LeftByWaiting, SleepsSoundly, CalmHolds,
         NEW j \in Journeys, Getter(j)
  PROVE  CalmHolds'
<1> SUFFICES ASSUME Undisturbed'
             PROVE  CalmHolds'
  BY DEF CalmHolds, CalmWaiting, EndMeansClosed
<1>0. Undisturbed /\ CalmWaiting /\ JourneyTypeOK
  BY GetterFlags DEF CalmHolds, TypeOK
<1>1. ~GetThrows(j) /\ ~Event(j) /\ flags'[j].counter = flags[j].counter
  BY <1>0, CalmNeverThrows
<1>2. \A k \in Journeys \ {j} :
        flags'[k] = flags[k] /\ phase'[k] = phase[k] /\ seen'[k] = seen[k] /\ frame'[k] = frame[k]
  BY GetterFlags, GetterWaits
<1>3. /\ flags[j].raised = {} /\ seen[j].raised = {}
      /\ flags[j].done => Waits(j)
      /\ phase[j] = "suspended" /\ flags[j].entered => flags[j].done
      /\ phase[j] = "resumed" => flags[j].done
      /\ phase[j] = "handling" => seen[j].done
  BY <1>0 DEF CalmWaiting
<1>4. GetWait(j) => ~flags[j].done /\ ~MayEnd(j)
  <2> SUFFICES ASSUME GetWait(j)
               PROVE  ~flags[j].done /\ ~MayEnd(j)
    OBVIOUS
  <2>1. ~Waits(j) /\ ~flags[j].done
    BY <1>3 DEF GetWait
  <2>2. \A w \in Pending : w.doer.who # j
    <3> SUFFICES ASSUME NEW w \in Pending, w.doer.who = j
                 PROVE  FALSE
      OBVIOUS
    <3>1. ~w.late /\ Usable(w)
      BY <1>0 DEF CalmWaiting
    <3>2. HasFrame(w)
      BY <3>1 DEF SleepsSoundly
    <3> QED
      BY <2>1, <3>2, FrameWaits
  <2> QED
    BY <1>3, <2>1, <2>2, PendingParts DEF MayEnd
<1>5. ASSUME NEW w \in Pending'
      PROVE  ~w.late /\ Usable(w)'
  <2>1. CASE w \in Pending
    <3>1. ~w.late /\ Usable(w) /\ w.doer.who \in Journeys
      BY <1>0, <2>1, PendingTyped, WaiterParts DEF CalmWaiting
    <3>2. flags'[w.doer.who].counter = flags[w.doer.who].counter
      BY <1>1, <1>2, <3>1
    <3> QED
      BY <3>1, <3>2 DEF Usable, Acquirable
  <2>2. CASE w \notin Pending
    <3>1. GetWait(j) /\ w = NewWaiter(j)
      BY <2>2, GetterPending
    <3>2. ~w.late /\ w.doer.who = j /\ w.doer.counter = flags[j].counter
      BY <1>4, <3>1 DEF NewWaiter, Doer
    <3> QED
      BY <1>1, <3>2 DEF Usable, Acquirable
  <2> QED
    BY <2>1, <2>2
<1>6. \A k \in Journeys \ {j} : Waits(k)' <=> Waits(k)
  BY <1>2 DEF Waits
<1>7. /\ flags'[j].raised = {} /\ seen'[j].raised = {}
      /\ flags'[j].done => Waits(j)' /\ flags[j].done /\ frame'[j] = frame[j]
      /\ phase'[j] = "suspended" /\ flags'[j].entered => flags'[j].done
      /\ phase'[j] = "resumed" => flags'[j].done
      /\ phase'[j] = "handling" => seen'[j].done
  <2>1. /\ flags \in [Journeys -> Flags] /\ flags[j] \in Flags
        /\ phase \in [Journeys -> Phase] /\ seen \in [Journeys -> Flags] /\ ready[j] \in Nat
    BY <1>0 DEF JourneyTypeOK
  <2>2. CASE GetNow(j)
    BY <1>3, <2>2 DEF GetNow, journeyVars, Waits
  <2>3. CASE GetWait(j)
    <3>1. /\ phase' = [phase EXCEPT ![j] = "yielded"] /\ UNCHANGED <<flags, seen>>
      BY <1>4, <2>3 DEF GetWait, WaitForDone, Moves
    <3>2. phase'[j] = "yielded"
      BY <2>1, <3>1
    <3> QED
      BY <1>3, <1>4, <2>3, <3>1, <3>2
  <2>4. CASE GetReturns(j)
    <3>1. /\ phase' = [phase EXCEPT ![j] = "running"] /\ seen' = [seen EXCEPT ![j] = NewFlags]
          /\ flags' = [flags EXCEPT ![j].done = FALSE]
      BY <2>4 DEF GetReturns, Returns, Handled, Moves
    <3>2. phase'[j] = "running" /\ seen'[j].raised = {}
      BY <2>1, <3>1 DEF NewFlags
    <3>3. ~flags'[j].done /\ flags'[j].raised = flags[j].raised
      BY <2>1, <3>1 DEF Flags
    <3> QED
      BY <1>3, <3>2, <3>3
  <2>5. CASE Prepare(j)
    <3>1. ~Waits(j) /\ UNCHANGED <<frame, seen>> /\ (Guard(j) \/ Unguard(j) \/ Ends(j))
      BY <2>5 DEF Prepare, channelVars, Guard, Unguard, Ends
    <3>2. /\ flags'[j].done = flags[j].done /\ flags'[j].raised = flags[j].raised
          /\ phase'[j] \in {"running", "ended"}
      BY <2>1, <3>1 DEF Guard, Unguard, Ends, Moves, Flags
    <3> QED
      BY <1>3, <3>1, <3>2
  <2>6. CASE Run(j)
    <3>1. UNCHANGED frame /\ flags'[j].done = flags[j].done /\ flags'[j].raised = flags[j].raised
      BY <2>1, <2>6 DEF Run, ResetEntered, Proceed0, Load, channelVars, Flags
    <3>2. CASE ResetEntered(j)
      <4>1. UNCHANGED seen /\ phase'[j] = "suspended"
        BY <2>1, <3>2 DEF ResetEntered, Moves
      <4>2. ~flags[j].done => ~flags'[j].entered
        BY <1>3, <2>1, <3>2 DEF ResetEntered, MayProceed, Flags
      <4> QED
        BY <1>3, <3>1, <4>1, <4>2 DEF Waits
    <3>3. CASE Proceed0(j)
      <4>1. UNCHANGED seen /\ phase'[j] = "resumed" /\ ready[j] > 0
        BY <2>1, <3>3 DEF Proceed0
      <4>2. flags[j].done
        BY <1>3, <2>1, <4>1 DEF ResumedOnce
      <4> QED
        BY <1>3, <3>1, <4>1, <4>2 DEF Waits
    <3>4. CASE Load(j)
      <4>1. seen'[j] = flags[j] /\ phase'[j] = "handling" /\ phase[j] = "resumed"
        BY <2>1, <3>4 DEF Load, Moves
      <4> QED
        BY <1>3, <3>1, <4>1 DEF Waits
    <3> QED
      BY <2>6, <3>2, <3>3, <3>4 DEF Run
  <2> QED
    BY <1>1, <2>2, <2>3, <2>4, <2>5, <2>6 DEF Getter
<1>8. CalmWaiting'
  <2> SUFFICES ASSUME NEW k \in Journeys
               PROVE  /\ flags'[k].raised = {} /\ seen'[k].raised = {}
                      /\ flags'[k].done => Waits(k)'
                      /\ phase'[k] = "suspended" /\ flags'[k].entered => flags'[k].done
                      /\ phase'[k] = "resumed" => flags'[k].done
                      /\ phase'[k] = "handling" => seen'[k].done
    BY <1>5 DEF CalmWaiting
  <2>1. CASE k = j
    BY <1>7, <2>1
  <2>2. CASE k # j
    BY <1>0, <1>2, <1>6, <2>2 DEF CalmWaiting
  <2> QED
    BY <2>1, <2>2
<1>9. EndMeansClosed'
  <2> SUFFICES ASSUME NEW k \in Journeys, Waits(k)', flags'[k].done, ~frame'[k].wasSet
               PROVE  closes' > frame'[k].since
    BY DEF EndMeansClosed
  <2>1. flags[k].done /\ frame'[k] = frame[k]
    BY <1>2, <1>7
  <2>2. Waits(k) /\ closes' = closes
    BY <2>1, GetterLeaves DEF Waits
  <2> QED
    BY <1>0, <2>1, <2>2 DEF CalmHolds, EndMeansClosed
<1> QED
  BY <1>8, <1>9 DEF CalmHolds

LEMMA CallerCalm ==
  ASSUME TypeOK, TypeOK', Busy, LeftOnce, LeftByWaiting, ClosedLater, SleepsSoundly, CalmHolds,
         Whereabouts, Whereabouts', NEW c \in Callers, Caller(c)
  PROVE  CalmHolds'
<1> SUFFICES ASSUME Undisturbed'
             PROVE  CalmHolds'
  BY DEF CalmHolds, CalmWaiting, EndMeansClosed
<1>1. UNCHANGED <<phase, seen, events>>
  BY DEF Caller, Put, Set, Close, Reset, Told, Open, journeyVars
<1>2. Undisturbed /\ CalmWaiting
  BY <1>1 DEF Undisturbed, Calm, CalmHolds
<1>3. \A w \in Pending : /\ ~w.late /\ Usable(w) /\ HasFrame(w)
                         /\ w.doer.who \in Journeys /\ Waits(w.doer.who)
  BY <1>2, FrameWaits DEF CalmWaiting, SleepsSoundly
<1>4. \A k \in Journeys : Waits(k)' <=> Waits(k)
  BY <1>1 DEF Whereabouts
<1>5. ASSUME NEW w \in Pending'
      PROVE  ~w.late /\ Usable(w)'
  <2>1. w \in Pending /\ w.doer.who \in Journeys
    BY <1>3, CallerMoves
  <2>2. flags'[w.doer.who].counter = flags[w.doer.who].counter
    BY <2>1, CallerFlags
  <2> QED
    BY <1>3, <2>1, <2>2 DEF Usable, Acquirable
<1>6. ASSUME NEW k \in Journeys
      PROVE  \/ flags'[k].done = flags[k].done /\ flags'[k].entered = flags[k].entered
             \/ \E w \in Pending : w.doer.who = k /\ Tell(c, w) /\ flags'[k].done
  <2>1. CASE flags'[k] = flags[k]
    BY <2>1
  <2>2. CASE \E w \in Pending : Take(w)
    BY <2>2, CallerFlags
  <2>3. CASE \E w \in Pending : w.doer.who = k /\ Tell(c, w)
    <3>1. PICK w \in Pending : w.doer.who = k /\ Tell(c, w)
      BY <2>3
    <3>2. flags'[k].done
      BY <3>1, PendingTyped, ToldIsDone DEF Tell
    <3> QED
      BY <3>1, <3>2
  <2> QED
    BY <2>1, <2>2, <2>3, CallerFlags
<1>7. CalmWaiting'
  <2> SUFFICES ASSUME NEW k \in Journeys
               PROVE  /\ flags'[k].raised = {} /\ seen'[k].raised = {}
                      /\ flags'[k].done => Waits(k)'
                      /\ phase'[k] = "suspended" /\ flags'[k].entered => flags'[k].done
                      /\ phase'[k] = "resumed" => flags'[k].done
                      /\ phase'[k] = "handling" => seen'[k].done
    BY <1>5 DEF CalmWaiting
  <2>1. flags'[k].raised = flags[k].raised
    BY CallerFlags
  <2>2. /\ flags[k].raised = {} /\ seen[k].raised = {}
        /\ flags[k].done => Waits(k)
        /\ phase[k] = "suspended" /\ flags[k].entered => flags[k].done
        /\ phase[k] = "resumed" => flags[k].done
        /\ phase[k] = "handling" => seen[k].done
    BY <1>2 DEF CalmWaiting
  <2> QED
    BY <1>1, <1>3, <1>4, <1>6, <2>1, <2>2
<1>8. EndMeansClosed'
  <2> SUFFICES ASSUME NEW k \in Journeys, Waits(k)', flags'[k].done, ~frame'[k].wasSet
               PROVE  closes' > frame'[k].since
    BY DEF EndMeansClosed
  <2>1. /\ frame'[k].since = frame[k].since /\ ~frame[k].wasSet
        /\ frame[k].since \in Nat /\ closes \in Nat
    <3>1. frame'[k].since = frame[k].since /\ (frame'[k] = frame[k] \/ Filling(c, k))
      BY FrameFilled
    <3>2. frame[k].since \in Nat /\ closes \in Nat
      BY Frames DEF TypeOK
    <3> QED
      BY <3>1, <3>2 DEF Filling
  <2>2. closes' = closes \/ closes' = closes + 1
    BY DEF Caller, Put, Set, Close, Reset, Told, Open
  <2>3. CASE flags[k].done
    <3>1. closes > frame[k].since
      BY <1>2, <1>4, <2>1, <2>3 DEF CalmHolds, EndMeansClosed
    <3> QED
      BY <2>1, <2>2, <3>1
  <2>4. CASE ~flags[k].done
    <3>1. PICK w \in Pending : w.doer.who = k /\ Tell(c, w)
      BY <1>6, <2>4
    <3>2. w = Head(doing[c].ws) /\ HasFrame(w)
      BY <1>3, <3>1 DEF Tell
    <3>3. doing[c].op \in {"tell", "reset"}
      BY <3>1 DEF Tell, Told
    <3>4. CASE doing[c].op = "tell"
      <4>1. Written(w)
        BY <3>2, <3>4 DEF Written
      <4>2. frame[k].wasSet
        BY <3>1, <3>2, <4>1 DEF LeftByWaiting
      <4> QED
        BY <2>1, <4>2
    <3>5. CASE doing[c].op = "reset"
      <4>1. doing[c].op = "reset" /\ doing[c].op # "idle"
        BY <3>5
      <4>2. 1 \in DOMAIN doing[c].ws /\ doing[c].ws[1] = w
        BY <3>2, <4>1, First
      <4>3. frame[k].since < closes
        BY <3>1, <3>2, <4>1, <4>2 DEF ClosedLater
      <4> QED
        BY <2>1, <2>2, <4>3
    <3> QED
      BY <3>3, <3>4, <3>5
  <2> QED
    BY <2>3, <2>4
<1> QED
  BY <1>7, <1>8 DEF CalmHolds

-----------------------------------------------------------------------------
(* What is inductive: the parts of ChannelInv that the others follow from, *)
(* and that everybody who waits is remembered.                             *)
InductiveInv ==
  /\ TypeOK /\ Busy /\ ResumedOnce /\ Whereabouts
  /\ ValuesHold /\ WaitersHold /\ CalmHolds
  /\ Remembered

LEMMA InvMeans ==
  ASSUME InductiveInv
  PROVE  ChannelInv /\ NobodyForgotten
BY CountedOnce, FrameStays, RememberedMeans DEF InductiveInv, ChannelInv, ValuesHold, WaitersHold

LEMMA InitInv ==
  ASSUME Init
  PROVE  InductiveInv
<1>0. PICK n \in {0, MaxEvents + 1} : Started(Journeys, n)
  BY DEF Init, JourneyInit
<1>1. <<>> \in Seq(Values) /\ <<>> \in Seq(Waiter) /\ \A i : i \notin DOMAIN <<>>
  BY EmptySeq
<1>2. /\ queue = <<>> /\ waiters = <<>> /\ closed = FALSE /\ puts = 0 /\ closes = 0
      /\ frame = [j \in Journeys |-> NoFrame] /\ doing = [c \in Callers |-> Idle]
      /\ calls = [j \in Journeys |-> 0] /\ got = [j \in Journeys |-> <<>>]
  BY DEF Init, New
<1>3. /\ flags = [j \in Journeys |-> NewFlags] /\ phase = [j \in Journeys |-> "running"]
      /\ seen = [j \in Journeys |-> NewFlags] /\ ready = [j \in Journeys |-> 0]
      /\ kept = [j \in Journeys |-> "nothing"] /\ events = n /\ n \in Nat
  BY <1>0, JourneyAssumption DEF Started
<1>4. \A c \in Callers : doing[c].op = "idle" /\ doing[c].ws = <<>>
  BY <1>2 DEF Idle
<1>5. \A j \in Journeys : /\ ~frame[j].wasSet /\ ~Waits(j) /\ got[j] = <<>>
                          /\ flags[j].entered /\ ~flags[j].done /\ flags[j].raised = {}
                          /\ seen[j].raised = {} /\ phase[j] = "running" /\ ready[j] = 0
  BY <1>2, <1>3 DEF NoFrame, NewFrame, Waits, NewFlags
<1>6. TypeOK
  <2>1. NewFlags \in Flags /\ "running" \in Phase
    BY DEF NewFlags, Flags, Phase
  <2>2. JourneyTypeOK
    BY <1>3, <2>1 DEF JourneyTypeOK
  <2>3. NoFrame \in Frame /\ Idle \in Work
    BY <1>1 DEF NoFrame, NewFrame, Frame, Idle, Work
  <2>4. frame \in [Journeys -> Frame] /\ doing \in [Callers -> Work]
    BY <1>2, <2>3
  <2>5. calls \in [Journeys -> Nat] /\ got \in [Journeys -> Seq(Values)]
    BY <1>1, <1>2
  <2>6. puts \in 0 .. MaxPuts /\ closes \in 0 .. MaxCloses /\ closed \in BOOLEAN
    <3>1. 0 \in 0 .. MaxPuts /\ 0 \in 0 .. MaxCloses
      BY ChannelAssumption
    <3>2. puts = 0 /\ closes = 0 /\ closed = FALSE
      BY <1>2
    <3> QED
      BY <3>1, <3>2
  <2>7. queue \in Seq(Values) /\ waiters \in Seq(Waiter)
    BY <1>1, <1>2
  <2> QED
    BY <2>2, <2>4, <2>5, <2>6, <2>7 DEF TypeOK, Frame, Work
<1>7. \A w : w \notin Pending
  BY <1>1, <1>2, <1>4 DEF Pending
<1>8. Busy /\ ResumedOnce /\ Whereabouts
  BY <1>4, <1>5 DEF Busy, ResumedOnce, Whereabouts
<1>9. NoneTwice /\ Apart
  BY <1>1, <1>2, <1>4, <1>5 DEF NoneTwice, Apart, InQueue, InHands, InFrame, IsGot
<1>10. LeftOnce /\ LeftByWaiting /\ ClosedLater /\ NothingToGet /\ SleepsSoundly
  BY <1>1, <1>2, <1>4, <1>7 DEF LeftOnce, LeftByWaiting, ClosedLater, NothingToGet, SleepsSoundly
<1>11. CalmHolds
  BY <1>5, <1>7 DEF CalmHolds, CalmWaiting, EndMeansClosed
<1>12. Remembered
  BY <1>5 DEF Remembered
<1> QED
  BY <1>6, <1>8, <1>9, <1>10, <1>11, <1>12
  DEF InductiveInv, ValuesHold, WaitersHold

LEMMA NextInv ==
  ASSUME InductiveInv, [Next]_vars
  PROVE  InductiveInv'
<1>1. /\ TypeOK /\ Busy /\ ResumedOnce /\ Whereabouts /\ NoneTwice /\ Apart
      /\ LeftOnce /\ LeftByWaiting /\ ClosedLater /\ NothingToGet /\ SleepsSoundly /\ CalmHolds
      /\ Remembered
  BY DEF InductiveInv, ValuesHold, WaitersHold
<1>2. ASSUME NEW j \in Journeys, Getter(j)
      PROVE  InductiveInv'
  <2>1. TypeOK' /\ ResumedOnce'
    BY <1>1, <1>2, GetterTyped
  <2>2. Busy' /\ Whereabouts'
    BY <1>1, <1>2, <2>1, GetterPlaced
  <2>3. NoneTwice' /\ Apart'
    BY <1>1, <1>2, GetterValues
  <2>4. LeftOnce'
    BY <1>1, <1>2, GetterLeftOnce
  <2>5. LeftByWaiting'
    BY <1>1, <1>2, <2>1, GetterLeft
  <2>6. ClosedLater' /\ NothingToGet'
    BY <1>1, <1>2, GetterNothing
  <2>7. SleepsSoundly'
    BY <1>1, <1>2, <2>1, GetterSleeps
  <2>8. CalmHolds'
    BY <1>1, <1>2, <2>1, GetterCalm
  <2>9. Remembered'
    BY <1>1, <1>2, GetterRemembers
  <2> QED
    BY <2>1, <2>2, <2>3, <2>4, <2>5, <2>6, <2>7, <2>8, <2>9
    DEF InductiveInv, ValuesHold, WaitersHold
<1>3. ASSUME NEW c \in Callers, Caller(c)
      PROVE  InductiveInv'
  <2>1. TypeOK' /\ ResumedOnce'
    BY <1>1, <1>3, CallerTyped
  <2>2. Busy' /\ Whereabouts'
    BY <1>1, <1>3, <2>1, CallerPlaced
  <2>3. NoneTwice' /\ Apart'
    BY <1>1, <1>3, <2>1, CallerValues
  <2>4. LeftOnce'
    BY <1>1, <1>3, <2>1, CallerMoves
  <2>5. LeftByWaiting'
    BY <1>1, <1>3, <2>1, CallerLeft
  <2>6. ClosedLater' /\ NothingToGet'
    BY <1>1, <1>3, <2>1, CallerNothing
  <2>7. SleepsSoundly'
    BY <1>1, <1>3, <2>1, CallerSleeps
  <2>8. CalmHolds'
    BY <1>1, <1>3, <2>1, <2>2, CallerCalm
  <2>9. Remembered'
    BY <1>1, <1>3, <2>1, <2>2, CallerRemembers
  <2> QED
    BY <2>1, <2>2, <2>3, <2>4, <2>5, <2>6, <2>7, <2>8, <2>9
    DEF InductiveInv, ValuesHold, WaitersHold
<1>4. CASE UNCHANGED vars
  <2>1. UNCHANGED <<flags, phase, seen, ready, kept, events, queue, waiters, closed, frame, doing,
                    puts, closes, calls, got>>
    BY <1>4 DEF vars, journeyVars, channelVars
  <2>2. Pending' = Pending /\ Acquired' = Acquired
    BY <2>1 DEF Pending, Acquired
  <2>3. TypeOK' /\ Busy' /\ ResumedOnce' /\ Whereabouts'
    BY <1>1, <2>1 DEF TypeOK, JourneyTypeOK, Busy, ResumedOnce, Whereabouts, Waits
  <2>4. NoneTwice' /\ Apart'
    BY <1>1, <2>1 DEF NoneTwice, Apart, InQueue, InHands, InFrame, IsGot
  <2>5. LeftOnce' /\ ClosedLater' /\ NothingToGet'
    BY <1>1, <2>1 DEF LeftOnce, ClosedLater, NothingToGet, HasFrame
  <2>6. LeftByWaiting' /\ SleepsSoundly'
    BY <1>1, <2>1, <2>2 DEF LeftByWaiting, Written, SleepsSoundly, HasFrame, Asleep, Usable, Acquirable
  <2>7. CalmHolds'
    BY <1>1, <2>1, <2>2
    DEF CalmHolds, CalmWaiting, EndMeansClosed, Undisturbed, Calm, Waits, Usable, Acquirable
  <2>8. Remembered'
    BY <1>1, <2>1, <2>2 DEF Remembered, Waits
  <2> QED
    BY <2>3, <2>4, <2>5, <2>6, <2>7, <2>8 DEF InductiveInv, ValuesHold, WaitersHold
<1> QED
  BY <1>2, <1>3, <1>4 DEF Next

(* Whatever the numbers of journeys, threads, values and events: a value   *)
(* is never got twice, a coroutine resumed once for each suspension, and   *)
(* set() writes to a frame that is there, unless something from before the *)
(* get() could end it.                                                     *)
THEOREM ChannelHolds == Spec => []ChannelInv
<1>1. Spec => []InductiveInv
  BY InitInv, NextInv, PTL DEF Spec
<1> QED
  BY <1>1, InvMeans, PTL

(* Nobody who waits in get() is forgotten: done, or with an event on its   *)
(* way, or its waiter still where the next put() or close() finds it.      *)
THEOREM NobodyIsForgotten == Spec => []NobodyForgotten
<1>1. Spec => []InductiveInv
  BY InitInv, NextInv, PTL DEF Spec
<1> QED
  BY <1>1, InvMeans, PTL

-----------------------------------------------------------------------------
LEMMA GetterKeepsValues ==
  ASSUME InductiveInv, NEW j \in Journeys, Getter(j), NEW v \in Values, There(v)
  PROVE  There(v)' \/ (frame[j].wasSet /\ frame[j].value = v /\ GetThrows(j))
<1>1. TypeOK /\ NoneTwice /\ Busy
  BY DEF InductiveInv, ValuesHold
<1>2. InHands(v) => InHands(v)'
  BY GetterLeaves DEF InHands
<1>3. ASSUME InFrame(v), UNCHANGED frame
      PROVE  InFrame(v)'
  BY <1>3 DEF InFrame
<1>4. CASE GetNow(j)
  <2>1. queue # <<>> /\ queue' = Tail(queue) /\ UNCHANGED frame
        /\ got' = [got EXCEPT ![j] = Append(got[j], Head(queue))]
    BY <1>4 DEF GetNow, Popped
  <2>2. InQueue(v)' <=> InQueue(v) /\ v # Head(queue)
    BY <1>1, <2>1, OneFewer
  <2>3. Head(queue) \in Values
    BY <1>1, <2>1, OneFewer
  <2>4. IsGot(v)' <=> IsGot(v) \/ v = Head(queue)
    BY <1>1, <2>1, <2>3, OneMore
  <2> QED
    BY <1>2, <1>3, <2>1, <2>2, <2>4 DEF There
<1>5. CASE GetWait(j)
  <2>1. UNCHANGED <<queue, got>> /\ ~frame[j].wasSet
    BY <1>5 DEF GetWait, Waits, NoFrame, NewFrame
  <2>2. \A k \in Journeys \ {j} : frame'[k] = frame[k]
    BY <1>1, GetterWaits
  <2>3. InFrame(v) => InFrame(v)'
    BY <2>1, <2>2 DEF InFrame
  <2> QED
    BY <1>2, <2>1, <2>3 DEF There, InQueue, IsGot
<1>6. CASE GetReturns(j) \/ GetThrows(j)
  <2>1. UNCHANGED queue
    BY <1>6 DEF GetReturns, GetThrows
  <2>2. \A k \in Journeys \ {j} : frame'[k] = frame[k]
    BY <1>1, GetterWaits
  <2>3. IsGot(v) => IsGot(v)'
    <3>1. CASE UNCHANGED got
      BY <3>1 DEF IsGot
    <3>2. CASE ~UNCHANGED got
      <4>1. GetReturns(j) /\ frame[j].wasSet
        BY <1>1, <1>6, <3>2 DEF GetReturns, GetThrows, TypeOK
      <4>2. got' = [got EXCEPT ![j] = Append(got[j], frame[j].value)]
        BY <4>1 DEF GetReturns
      <4>3. frame[j].value \in Values
        BY <1>1, <4>1 DEF Busy, TypeOK, Values
      <4> QED
        BY <1>1, <4>2, <4>3, OneMore
    <3> QED
      BY <3>1, <3>2
  <2>4. CASE ~(frame[j].wasSet /\ frame[j].value = v)
    <3>1. InFrame(v) => InFrame(v)'
      BY <2>2, <2>4 DEF InFrame
    <3> QED
      BY <1>2, <2>1, <2>3, <3>1 DEF There, InQueue
  <2>5. CASE frame[j].wasSet /\ frame[j].value = v /\ GetReturns(j)
    <3>1. got' = [got EXCEPT ![j] = Append(got[j], v)]
      BY <2>5 DEF GetReturns
    <3>2. IsGot(v)'
      BY <1>1, <3>1, OneMore
    <3> QED
      BY <3>2 DEF There
  <2> QED
    BY <1>6, <2>4, <2>5
<1>7. CASE Prepare(j) \/ Run(j) \/ Event(j)
  <2>1. UNCHANGED <<queue, frame, got, doing>>
    BY <1>7 DEF Prepare, Run, Event, channelVars
  <2> QED
    BY <2>1 DEF There, InQueue, InHands, InFrame, IsGot
<1> QED
  BY <1>4, <1>5, <1>6, <1>7 DEF Getter

LEMMA CallerKeepsValues ==
  ASSUME InductiveInv, NEW c \in Callers, Caller(c), NEW v \in Values, There(v)
  PROVE  \/ There(v)'
         \/ LET w == Head(doing[c].ws)
            IN  Set(c) /\ doing[c].value = v /\ w.late /\ ~HasFrame(w)
<1>1. TypeOK /\ Busy /\ LeftOnce /\ LeftByWaiting /\ FrameIsThere
  BY FrameStays DEF InductiveInv, WaitersHold
<1>2. UNCHANGED got
  BY DEF Caller, Put, Set, Close, Reset, Told, Open
<1>3. CASE Put(c)
  <2>1. doing[c].op = "idle" /\ UNCHANGED frame
    BY <1>1, <1>3, PutCases
  <2>2. CASE Queues(c)
    <3>1. queue' = Append(queue, puts + 1) /\ UNCHANGED doing /\ queue \in Seq(Values)
      BY <1>1, <2>2 DEF Queues, TypeOK
    <3>2. \A i \in DOMAIN queue : i \in DOMAIN queue' /\ queue'[i] = queue[i]
      <4>1. puts + 1 \in Values
        BY <1>1, <1>3, PutCases DEF Values
      <4>2. queue' \in Seq(Values) /\ Len(queue') = Len(queue) + 1
        BY <3>1, <4>1, AppendProperties
      <4>3. DOMAIN queue = 1 .. Len(queue) /\ DOMAIN queue' = 1 .. Len(queue) + 1 /\ Len(queue) \in Nat
        BY <3>1, <4>2, LenProperties
      <4> QED
        BY <3>1, <4>1, <4>3, AppendProperties
    <3> QED
      BY <1>2, <2>1, <3>1, <3>2 DEF There, InQueue, InHands, InFrame, IsGot
  <2>3. CASE \E i \in DOMAIN waiters : Gives(c, i)
    <3>1. PICK i \in DOMAIN waiters : Gives(c, i)
      BY <2>3
    <3>2. UNCHANGED queue /\ \A d \in Callers \ {c} : doing'[d] = doing[d]
      BY <1>1, <3>1 DEF Gives, TypeOK
    <3>3. InHands(v) => InHands(v)'
      BY <2>1, <3>2 DEF InHands
    <3> QED
      BY <1>2, <2>1, <3>2, <3>3 DEF There, InQueue, InFrame, IsGot
  <2> QED
    BY <1>1, <1>3, <2>2, <2>3, PutCases
<1>4. CASE Set(c)
  <2>1. /\ doing[c].op = "set" /\ doing[c].op # "idle" /\ UNCHANGED queue
        /\ \A d \in Callers \ {c} : doing'[d] = doing[d]
    BY <1>1, <1>4 DEF Set, TypeOK
  <2> DEFINE w == Head(doing[c].ws)
  <2>2. w \in Pending /\ w \in Waiter
    BY <1>1, <2>1, HandsPending
  <2>3. CASE HasFrame(w)
    <3>1. w.doer.who \in Journeys /\ ~frame[w.doer.who].wasSet
      BY <1>1, <2>1, <2>2, <2>3, WaiterParts, NotYetWritten
    <3>2. frame' = [frame EXCEPT ![w.doer.who] = Filled(frame[w.doer.who], doing[c].value)]
      BY <1>4, <2>3 DEF Set
    <3>3. \A k \in Journeys : k # w.doer.who => frame'[k] = frame[k]
      BY <1>1, <3>2 DEF TypeOK
    <3>4. frame'[w.doer.who].wasSet /\ frame'[w.doer.who].value = doing[c].value
      <4>1. frame[w.doer.who] \in Frame
        BY <1>1, <3>1, Frames
      <4>2. frame'[w.doer.who] = Filled(frame[w.doer.who], doing[c].value)
        BY <1>1, <3>1, <3>2 DEF TypeOK
      <4> QED
        BY <4>1, <4>2 DEF Filled, Frame
    <3>5. InFrame(v) => InFrame(v)'
      BY <3>1, <3>3 DEF InFrame
    <3>6. InHands(v) => InHands(v)' \/ InFrame(v)'
      BY <2>1, <3>1, <3>4 DEF InHands, InFrame
    <3> QED
      BY <1>2, <2>1, <3>5, <3>6 DEF There, InQueue, IsGot
  <2>4. CASE ~HasFrame(w)
    <3>1. w.late /\ UNCHANGED frame
      BY <1>1, <1>4, <2>1, <2>4 DEF FrameIsThere, Set
    <3>2. doing[c].value # v => (InHands(v) => InHands(v)')
      BY <2>1 DEF InHands
    <3> QED
      BY <1>2, <1>4, <2>1, <2>4, <3>1, <3>2 DEF There, InQueue, InFrame, IsGot
  <2> QED
    BY <2>3, <2>4
<1>5. CASE Close(c) \/ Reset(c) \/ Told(c) \/ Open(c)
  <2>1. UNCHANGED <<queue, frame>>
    BY <1>5 DEF Close, Reset, Told, Open
  <2>2. doing[c].op # "set" /\ \A d \in Callers \ {c} : doing'[d] = doing[d]
    <3>1. doing[c].op # "set"
      BY <1>5 DEF Close, Reset, Told, Open, Idle
    <3> QED
      BY <1>1, <1>5, <3>1 DEF Close, Reset, Told, Open, TypeOK
  <2>3. InHands(v) => InHands(v)'
    BY <2>2 DEF InHands
  <2> QED
    BY <1>2, <2>1, <2>3 DEF There, InQueue, InFrame, IsGot
<1> QED
  BY <1>3, <1>4, <1>5 DEF Caller

(* A value is lost only to events: before the first event none is.  After  *)
(* it, one is lost in the frame of a get() that throws; or handed to a     *)
(* get() that is over, and that began when something was there that could  *)
(* end it.  Whatever the numbers of journeys, threads, values and events.  *)
THEOREM ValueLoss == Spec => LostToEventsOnly
<1>1. ASSUME InductiveInv, [Next]_vars
      PROVE  [\A v \in Values :
                There(v) /\ ~There(v)' =>
                  ~Undisturbed /\ (ThrownOut(v) \/ GivenTooLate(v))]_vars
  <2> SUFFICES ASSUME Next, NEW v \in Values, There(v), ~There(v)'
               PROVE  ~Undisturbed /\ (ThrownOut(v) \/ GivenTooLate(v))
    BY <1>1
  <2>1. ThrownOut(v) \/ GivenTooLate(v)
    BY <1>1, GetterKeepsValues, CallerKeepsValues DEF Next, ThrownOut, GivenTooLate
  <2>2. CalmWaiting /\ TypeOK /\ Busy
    BY <1>1 DEF InductiveInv, CalmHolds
  <2>3. ASSUME Undisturbed, ThrownOut(v)
        PROVE  FALSE
    BY <2>2, <2>3, NothingThrown DEF ThrownOut
  <2>4. ASSUME Undisturbed, GivenTooLate(v)
        PROVE  FALSE
    <3>1. PICK c \in Callers : Set(c) /\ Head(doing[c].ws).late
      BY <2>4 DEF GivenTooLate
    <3>2. doing[c].op # "idle"
      BY <3>1 DEF Set
    <3>3. Head(doing[c].ws) \in Pending
      BY <2>2, <3>2, HandsPending
    <3> QED
      BY <2>2, <2>4, <3>1, <3>3 DEF CalmWaiting
  <2> QED
    BY <2>1, <2>3, <2>4
<1>2. Spec => []InductiveInv
  BY InitInv, NextInv, PTL DEF Spec
<1> QED
  BY <1>1, <1>2, PTL DEF Spec, LostToEventsOnly

-----------------------------------------------------------------------------
(* A thread hands a value to a journey.  Without events there is one such  *)
(* thread at most, the journey waits, and nothing was written to it yet.   *)
GivesTo(c, j) == doing[c].op = "set" /\ Head(doing[c].ws).doer.who = j

OneGives ==
  \A c \in Callers : \A j \in Journeys :
    Calm /\ GivesTo(c, j) =>
      /\ Waits(j) /\ HasFrame(Head(doing[c].ws)) /\ ~frame[j].wasSet
      /\ \A d \in Callers : GivesTo(d, j) => d = c

HandedParts ==
  \A j \in Journeys : Calm =>
    /\ Handed(j) \in Seq(Values)
    /\ frame[j].wasSet => Handed(j) = <<frame[j].value>>
    /\ \A c \in Callers : GivesTo(c, j) => Handed(j) = <<doing[c].value>>
    /\ ~frame[j].wasSet /\ (\A c \in Callers : ~GivesTo(c, j)) => Handed(j) = <<>>

LEMMA HandedMeans ==
  ASSUME InductiveInv
  PROVE  OneGives /\ HandedParts
<1>1. /\ TypeOK /\ Busy /\ LeftOnce /\ LeftByWaiting /\ SleepsSoundly
      /\ CalmWaiting /\ (Calm => Undisturbed)
  BY DEF InductiveInv, WaitersHold, CalmHolds, Undisturbed
<1>2. OneGives
  <2> SUFFICES ASSUME NEW c \in Callers, NEW j \in Journeys, Calm, GivesTo(c, j)
               PROVE  /\ Waits(j) /\ HasFrame(Head(doing[c].ws)) /\ ~frame[j].wasSet
                      /\ \A d \in Callers : GivesTo(d, j) => d = c
    BY DEF OneGives
  <2> DEFINE w == Head(doing[c].ws)
  <2>1. w \in Pending /\ w \in Acquired /\ w.doer.who = j
    BY <1>1, HandsPending DEF GivesTo, Acquired
  <2>2. ~w.late /\ HasFrame(w) /\ \A v \in Pending : v.doer.who = j => v = w
    BY <1>1, <2>1 DEF CalmWaiting, SleepsSoundly
  <2>3. Waits(j) /\ ~frame[j].wasSet
    BY <1>1, <2>1, <2>2, FrameWaits, NotYetWritten DEF GivesTo
  <2>4. ASSUME NEW d \in Callers, GivesTo(d, j)
        PROVE  d = c
    <3>1. Head(doing[d].ws) \in Pending /\ Head(doing[d].ws).doer.who = j
      BY <1>1, <2>4, HandsPending DEF GivesTo
    <3>2. Head(doing[d].ws) = Head(doing[c].ws)
      BY <2>2, <3>1
    <3>3. /\ 1 \in DOMAIN doing[c].ws /\ Head(doing[c].ws) = doing[c].ws[1]
          /\ 1 \in DOMAIN doing[d].ws /\ Head(doing[d].ws) = doing[d].ws[1]
      BY <1>1, <2>4, First DEF GivesTo
    <3>4. Same(doing[d].ws[1], doing[c].ws[1])
      BY <3>2, <3>3 DEF Same
    <3> QED
      BY <1>1, <3>3, <3>4 DEF LeftOnce
  <2> QED
    BY <2>2, <2>3, <2>4
<1>3. HandedParts
  <2> SUFFICES ASSUME NEW j \in Journeys, Calm
               PROVE  /\ Handed(j) \in Seq(Values)
                      /\ frame[j].wasSet => Handed(j) = <<frame[j].value>>
                      /\ \A c \in Callers : GivesTo(c, j) => Handed(j) = <<doing[c].value>>
                      /\ ~frame[j].wasSet /\ (\A c \in Callers : ~GivesTo(c, j)) => Handed(j) = <<>>
    BY DEF HandedParts
  <2>1. /\ \A c \in Callers : GivesTo(c, j) => doing[c].value \in Values
        /\ frame[j].wasSet => frame[j].value \in Values
    BY <1>1 DEF Busy, GivesTo, TypeOK, Values
  <2>2. CASE frame[j].wasSet
    <3>1. Handed(j) = <<frame[j].value>>
      BY <2>2 DEF Handed
    <3>2. <<frame[j].value>> \in Seq(Values)
      BY <2>1, <2>2
    <3>3. \A c \in Callers : ~GivesTo(c, j)
      BY <1>2, <2>2 DEF OneGives
    <3> QED
      BY <2>2, <3>1, <3>2, <3>3
  <2>3. CASE ~frame[j].wasSet /\ \E c \in Callers : GivesTo(c, j)
    <3>1. PICK c \in Callers : GivesTo(c, j)
      BY <2>3
    <3>2. \A d \in Callers : GivesTo(d, j) <=> d = c
      BY <1>2, <3>1 DEF OneGives
    <3>3. (CHOOSE d \in Callers : doing[d].op = "set" /\ Head(doing[d].ws).doer.who = j) = c
      BY <3>1, <3>2 DEF GivesTo
    <3>4. Handed(j) = <<doing[c].value>>
      BY <2>3, <3>1, <3>3 DEF Handed, GivesTo
    <3>5. <<doing[c].value>> \in Seq(Values)
      BY <2>1, <3>1
    <3> QED
      BY <2>3, <3>1, <3>2, <3>4, <3>5
  <2>4. CASE ~frame[j].wasSet /\ \A c \in Callers : ~GivesTo(c, j)
    <3>1. Handed(j) = <<>>
      BY <2>4 DEF Handed, GivesTo
    <3> QED
      BY <2>4, <3>1, EmptySeq
  <2> QED
    BY <2>2, <2>3, <2>4
<1> QED
  BY <1>2, <1>3

(* What was given to j stays the same if what j holds and what is on its   *)
(* way to it do.                                                           *)
Keeps(j) ==
  /\ frame'[j].wasSet = frame[j].wasSet
  /\ frame[j].wasSet => frame'[j].value = frame[j].value
  /\ \A c \in Callers : GivesTo(c, j)' <=> GivesTo(c, j)
  /\ \A c \in Callers : GivesTo(c, j) => doing'[c].value = doing[c].value

LEMMA KeepsHanded ==
  ASSUME HandedParts, HandedParts', Calm, Calm', NEW j \in Journeys, Keeps(j)
  PROVE  Handed(j)' = Handed(j)
<1>1. CASE frame[j].wasSet
  BY <1>1 DEF HandedParts, Keeps
<1>2. CASE \E c \in Callers : GivesTo(c, j)
  BY <1>2 DEF HandedParts, Keeps
<1>3. CASE ~frame[j].wasSet /\ \A c \in Callers : ~GivesTo(c, j)
  BY <1>3 DEF HandedParts, Keeps
<1> QED
  BY <1>1, <1>2, <1>3

Given(j) == got[j] \o Handed(j)

LEMMA JustGot ==
  ASSUME NEW s \in Seq(Values), NEW v \in Values
  PROVE  /\ Append(s, v) \o <<>> = s \o <<v>>
         /\ Append(s, v) \o <<>> = Append(s \o <<>>, v)
         /\ s \o <<v>> = Append(s \o <<>>, v)
<1>1. s \o <<>> = s
  BY ConcatEmptySeq
<1>2. Append(s, v) \in Seq(Values)
  BY AppendProperties
<1>3. Append(s, v) \o <<>> = Append(s, v)
  BY <1>2, ConcatEmptySeq
<1>4. Append(s, v) = s \o <<v>>
  BY AppendIsConcat
<1> QED
  BY <1>1, <1>3, <1>4

(* A step of one that gets: it takes the first value of the queue, or      *)
(* nothing is given to anybody.                                            *)
LEMMA GetterGiven ==
  ASSUME InductiveInv, OneGives, HandedParts, HandedParts', Calm, Calm',
         NEW j \in Journeys, Getter(j)
  PROVE  \/ /\ queue # <<>> /\ queue' = Tail(queue) /\ UNCHANGED puts
            /\ Given(j)' = Append(Given(j), Head(queue))
            /\ \A k \in Journeys \ {j} : Given(k)' = Given(k)
         \/ UNCHANGED <<queue, puts>> /\ \A k \in Journeys : Given(k)' = Given(k)
<1>1. TypeOK /\ Busy /\ ~GetThrows(j) /\ NoneTwice
  <2>1. Undisturbed /\ Undisturbed'
    BY DEF Undisturbed
  <2> QED
    BY <2>1, CalmNeverThrows DEF InductiveInv, CalmHolds, ValuesHold
<1>2. \A c \in Callers : \A k \in Journeys :
        (GivesTo(c, k)' <=> GivesTo(c, k)) /\ doing'[c].value = doing[c].value
  BY GetterLeaves DEF GivesTo
<1>3. UNCHANGED puts
  BY GetterLeaves
<1>4. CASE GetNow(j)
  <2>1. /\ queue # <<>> /\ queue' = Tail(queue) /\ UNCHANGED frame /\ ~Waits(j)
        /\ got' = [got EXCEPT ![j] = Append(got[j], Head(queue))]
    BY <1>4 DEF GetNow, Popped
  <2>2. \A k \in Journeys : Handed(k)' = Handed(k)
    BY <1>2, <2>1, KeepsHanded DEF Keeps
  <2>3. Handed(j) = <<>>
    <3>1. ~frame[j].wasSet
      BY <2>1 DEF Waits, NoFrame, NewFrame
    <3>2. \A c \in Callers : ~GivesTo(c, j)
      BY <2>1 DEF OneGives
    <3> QED
      BY <3>1, <3>2 DEF HandedParts
  <2>4. got[j] \in Seq(Values) /\ Head(queue) \in Values
    BY <1>1, <2>1, OneFewer DEF TypeOK
  <2>5. got'[j] = Append(got[j], Head(queue)) /\ \A k \in Journeys \ {j} : got'[k] = got[k]
    BY <1>1, <2>1 DEF TypeOK
  <2>6. Given(j)' = Append(Given(j), Head(queue))
    BY <2>2, <2>3, <2>4, <2>5, JustGot DEF Given
  <2>7. \A k \in Journeys \ {j} : Given(k)' = Given(k)
    BY <2>2, <2>5 DEF Given
  <2> QED
    BY <1>3, <2>1, <2>6, <2>7
<1>5. CASE GetReturns(j) /\ frame[j].wasSet
  <2>1. /\ UNCHANGED queue /\ got' = [got EXCEPT ![j] = Append(got[j], frame[j].value)]
        /\ frame' = [frame EXCEPT ![j] = NoFrame]
    BY <1>5 DEF GetReturns
  <2>2. \A k \in Journeys \ {j} : got'[k] = got[k] /\ frame'[k] = frame[k]
    BY <1>1, <2>1 DEF TypeOK
  <2>3. \A k \in Journeys \ {j} : Given(k)' = Given(k)
    BY <1>2, <2>2, KeepsHanded DEF Keeps, Given
  <2>4. Handed(j) = <<frame[j].value>>
    BY <1>5 DEF HandedParts
  <2>5. Handed(j)' = <<>>
    <3>1. ~frame'[j].wasSet
      BY <1>1, <2>1 DEF TypeOK, NoFrame, NewFrame
    <3>2. \A c \in Callers : ~GivesTo(c, j)'
      BY <1>2, <1>5 DEF OneGives
    <3> QED
      BY <3>1, <3>2 DEF HandedParts
  <2>6. got[j] \in Seq(Values) /\ frame[j].value \in Values
    BY <1>1, <1>5 DEF Busy, TypeOK, Values
  <2>7. got'[j] = Append(got[j], frame[j].value)
    BY <1>1, <2>1 DEF TypeOK
  <2>8. Given(j)' = Given(j)
    BY <2>4, <2>5, <2>6, <2>7, JustGot DEF Given
  <2> QED
    BY <1>3, <2>1, <2>3, <2>8
<1>6. CASE GetWait(j) \/ (GetReturns(j) /\ ~frame[j].wasSet) \/ Prepare(j) \/ Run(j) \/ Event(j)
  <2>1. UNCHANGED queue
    BY <1>6 DEF GetWait, GetReturns, Prepare, Run, Event, channelVars
  <2>2. UNCHANGED got
    BY <1>1, <1>6 DEF GetWait, GetReturns, Prepare, Run, Event, channelVars, TypeOK
  <2>3. ASSUME NEW k \in Journeys
        PROVE  /\ frame'[k].wasSet = frame[k].wasSet
               /\ frame[k].wasSet => frame'[k].value = frame[k].value
    <3>1. CASE frame'[k] = frame[k]
      BY <3>1
    <3>2. CASE k = j /\ GetWait(j)
      <4>1. frame[j].wasSet = FALSE
        BY <3>2 DEF GetWait, Waits, NoFrame, NewFrame
      <4>2. frame' = [frame EXCEPT ![j] = NewFrame(calls[j] + 1, closes)]
        BY <1>1, <3>2, Waiting
      <4>3. frame'[j].wasSet = FALSE
        BY <1>1, <4>2 DEF NewFrame, TypeOK
      <4> QED
        BY <3>2, <4>1, <4>3
    <3>3. CASE k = j /\ GetReturns(j) /\ ~frame[j].wasSet
      BY <1>1, <3>3 DEF GetReturns, NoFrame, NewFrame, TypeOK
    <3>4. CASE UNCHANGED frame
      BY <3>4
    <3> QED
      BY <1>1, <1>6, <3>1, <3>2, <3>3, <3>4, GetterWaits DEF Prepare, Run, Event, channelVars
  <2>4. \A k \in Journeys : Given(k)' = Given(k)
    BY <1>2, <2>2, <2>3, KeepsHanded DEF Keeps, Given
  <2> QED
    BY <1>3, <2>1, <2>4
<1> QED
  BY <1>1, <1>4, <1>5, <1>6 DEF Getter

(* A step of a thread: it puts a value in the queue, or gives it to one    *)
(* that waits while the queue is empty, or nothing is given to anybody.    *)
LEMMA CallerGiven ==
  ASSUME InductiveInv, InductiveInv', OneGives, OneGives', HandedParts, HandedParts', Calm, Calm',
         NEW c \in Callers, Caller(c)
  PROVE  \/ /\ puts < MaxPuts /\ puts' = puts + 1 /\ queue' = Append(queue, puts + 1)
            /\ \A k \in Journeys : Given(k)' = Given(k)
         \/ /\ puts < MaxPuts /\ puts' = puts + 1 /\ queue = <<>> /\ UNCHANGED queue
            /\ \E j \in Journeys : /\ Given(j)' = Append(Given(j), puts + 1)
                                   /\ \A k \in Journeys \ {j} : Given(k)' = Given(k)
         \/ UNCHANGED <<queue, puts>> /\ \A k \in Journeys : Given(k)' = Given(k)
<1>1. /\ TypeOK /\ Busy /\ LeftOnce /\ LeftByWaiting /\ NothingToGet /\ SleepsSoundly /\ TypeOK'
      /\ CalmWaiting /\ Undisturbed
  BY DEF InductiveInv, WaitersHold, CalmHolds, Undisturbed
<1>2. UNCHANGED got
  BY DEF Caller, Put, Set, Close, Reset, Told, Open
<1>3. CASE Put(c)
  <2>1. /\ puts < MaxPuts /\ puts' = puts + 1 /\ puts + 1 \in Values /\ doing[c].op = "idle"
        /\ UNCHANGED frame
    BY <1>1, <1>3, PutCases DEF Put, Values
  <2>2. CASE Queues(c)
    <3>1. queue' = Append(queue, puts + 1) /\ UNCHANGED doing
      BY <2>2 DEF Queues
    <3>2. \A k \in Journeys : Handed(k)' = Handed(k)
      BY <2>1, <3>1, KeepsHanded DEF Keeps, GivesTo
    <3> QED
      BY <1>2, <2>1, <3>1, <3>2 DEF Given
  <2>3. CASE \E i \in DOMAIN waiters : Gives(c, i)
    <3>1. PICK i \in DOMAIN waiters : Gives(c, i)
      BY <2>3
    <3>2. PICK w : w = waiters[i]
      OBVIOUS
    <3>3. w \in Pending /\ w \in Waiter /\ w.doer.who \in Journeys
      BY <1>1, <3>2, PendingParts, Lists, WaiterParts
    <3>4. HasFrame(w) /\ ~frame[w.doer.who].wasSet /\ \A v \in Pending : v.doer.who = w.doer.who => v = w
      <4>1. HasFrame(w) /\ \A v \in Pending : v.doer.who = w.doer.who => v = w
        BY <1>1, <3>3 DEF CalmWaiting, SleepsSoundly
      <4>2. ~Written(w)
        <5> SUFFICES ASSUME NEW d \in Callers, doing[d].op = "tell", Head(doing[d].ws) = w
                     PROVE  FALSE
          BY DEF Written
        <5>1. 1 \in DOMAIN doing[d].ws /\ doing[d].ws[1] = waiters[i]
          BY <1>1, <3>2, First
        <5> QED
          BY <1>1, <5>1 DEF LeftOnce, Same
      <4> QED
        BY <1>1, <3>3, <4>1, <4>2 DEF LeftByWaiting
    <3>5. queue = <<>> /\ UNCHANGED queue
      <4>1. waiters # <<>>
        BY EmptySeq
      <4> QED
        BY <1>1, <3>1, <4>1 DEF NothingToGet, Gives
    <3>6. \A d \in Callers : ~GivesTo(d, w.doer.who)
      <4> SUFFICES ASSUME NEW d \in Callers, GivesTo(d, w.doer.who)
                   PROVE  FALSE
        OBVIOUS
      <4>1. Head(doing[d].ws) \in Pending /\ 1 \in DOMAIN doing[d].ws
            /\ Head(doing[d].ws) = doing[d].ws[1]
        BY <1>1, HandsPending, First DEF GivesTo
      <4>2. doing[d].ws[1] = waiters[i]
        BY <3>2, <3>4, <4>1 DEF GivesTo
      <4>3. Same(waiters[i], doing[d].ws[1])
        BY <4>2 DEF Same
      <4> QED
        BY <1>1, <4>1, <4>3 DEF LeftOnce
    <3>7. /\ doing'[c].op = "set" /\ doing'[c].value = puts + 1 /\ doing'[c].ws = <<w>>
          /\ \A d \in Callers \ {c} : doing'[d] = doing[d]
      BY <1>1, <3>1, <3>2 DEF Gives, Gift, TypeOK
    <3>8. GivesTo(c, w.doer.who)' /\ \A k \in Journeys : GivesTo(c, k)' => k = w.doer.who
      BY <3>7 DEF GivesTo
    <3>9. Handed(w.doer.who) = <<>> /\ Handed(w.doer.who)' = <<puts + 1>>
      BY <3>3, <3>4, <3>6, <3>7, <3>8 DEF HandedParts
    <3>10. \A k \in Journeys \ {w.doer.who} : Handed(k)' = Handed(k)
      <4> SUFFICES ASSUME NEW k \in Journeys \ {w.doer.who}
                   PROVE  Handed(k)' = Handed(k)
        OBVIOUS
      <4>1. ~GivesTo(c, k) /\ ~GivesTo(c, k)'
        BY <2>1, <3>8 DEF GivesTo
      <4>2. Keeps(k)
        BY <2>1, <3>7, <4>1 DEF Keeps, GivesTo
      <4> QED
        BY <4>2, KeepsHanded
    <3>11. Given(w.doer.who)' = Append(Given(w.doer.who), puts + 1)
      <4>1. got[w.doer.who] \in Seq(Values)
        BY <1>1, <3>3 DEF TypeOK
      <4> QED
        BY <1>2, <2>1, <3>9, <4>1, JustGot DEF Given
    <3>12. \A k \in Journeys \ {w.doer.who} : Given(k)' = Given(k)
      BY <1>2, <3>10 DEF Given
    <3> QED
      BY <2>1, <3>3, <3>5, <3>11, <3>12
  <2> QED
    BY <1>1, <1>3, <2>2, <2>3, PutCases
<1>4. CASE Set(c)
  <2>1. /\ doing[c].op = "set" /\ doing[c].op # "idle" /\ UNCHANGED <<queue, puts>>
        /\ doing' = [doing EXCEPT ![c].op = "tell"]
    BY <1>4 DEF Set
  <2>2. doing'[c].op = "tell" /\ \A d \in Callers \ {c} : doing'[d] = doing[d]
    BY <1>1, <2>1 DEF TypeOK
  <2>3. PICK w : w = Head(doing[c].ws)
    OBVIOUS
  <2>4. w \in Pending /\ w \in Waiter /\ w.doer.who \in Journeys
    BY <1>1, <2>1, <2>3, HandsPending, WaiterParts
  <2>5. GivesTo(c, w.doer.who) /\ \A k \in Journeys : GivesTo(c, k) => k = w.doer.who
    BY <2>1, <2>3 DEF GivesTo
  <2>6. HasFrame(w)
    BY <2>3, <2>4, <2>5 DEF OneGives
  <2>7. frame' = [frame EXCEPT ![w.doer.who] = Filled(frame[w.doer.who], doing[c].value)]
    BY <1>4, <2>3, <2>6 DEF Set
  <2>8. \A k \in Journeys \ {w.doer.who} : frame'[k] = frame[k]
    BY <1>1, <2>7 DEF TypeOK
  <2>9. frame'[w.doer.who].wasSet /\ frame'[w.doer.who].value = doing[c].value
    <3>1. frame[w.doer.who] \in Frame
      BY <1>1, <2>4, Frames
    <3>2. frame'[w.doer.who] = Filled(frame[w.doer.who], doing[c].value)
      BY <1>1, <2>4, <2>7 DEF TypeOK
    <3> QED
      BY <3>1, <3>2 DEF Filled, Frame
  <2>10. Handed(w.doer.who)' = Handed(w.doer.who)
    BY <2>4, <2>5, <2>9 DEF HandedParts
  <2>11. ASSUME NEW k \in Journeys \ {w.doer.who}
         PROVE  Handed(k)' = Handed(k)
    <3>1. ~GivesTo(c, k) /\ ~GivesTo(c, k)'
      BY <2>2, <2>5 DEF GivesTo
    <3>2. Keeps(k)
      BY <2>2, <2>8, <3>1 DEF Keeps, GivesTo
    <3> QED
      BY <3>2, KeepsHanded
  <2> QED
    BY <1>2, <2>1, <2>10, <2>11 DEF Given
<1>5. CASE Close(c) \/ Reset(c) \/ Told(c) \/ Open(c)
  <2>1. UNCHANGED <<queue, puts, frame>>
    BY <1>5 DEF Close, Reset, Told, Open
  <2>2. doing[c].op # "set" /\ \A d \in Callers \ {c} : doing'[d] = doing[d]
    <3>1. doing[c].op # "set"
      BY <1>5 DEF Close, Reset, Told, Open, Idle
    <3> QED
      BY <1>1, <1>5, <3>1 DEF Close, Reset, Told, Open, TypeOK
  <2>3. doing'[c].op # "set"
    <3>1. Close(c) => doing' = [doing EXCEPT ![c] = Closing(waiters)]
      BY DEF Close
    <3>2. Reset(c) \/ Told(c) => doing[c].op # "idle"
      BY DEF Reset, Told
    <3>3. /\ Closing(waiters).op # "set"
          /\ doing[c].op # "idle" => Closing(Tail(doing[c].ws)).op # "set"
      BY <1>1, ClosingParts, LessToDo DEF TypeOK
    <3>4. Open(c) => doing' = doing
      BY DEF Open
    <3>5. Reset(c) \/ Told(c) =>
            doing' = [doing EXCEPT ![c] = Closing(Tail(doing[c].ws))]
              \/ doing' = [doing EXCEPT ![c].op = "reset"]
      BY DEF Reset, Told
    <3> QED
      BY <1>1, <1>5, <2>2, <3>1, <3>2, <3>3, <3>4, <3>5 DEF TypeOK
  <2>4. \A k \in Journeys : Keeps(k)
    BY <2>1, <2>2, <2>3 DEF Keeps, GivesTo
  <2> QED
    BY <1>2, <2>1, <2>4, KeepsHanded DEF Given
<1> QED
  BY <1>3, <1>4, <1>5 DEF Caller

(* Without events a channel is a queue, whatever the numbers of journeys,  *)
(* threads and values, and however often it is closed and opened: every    *)
(* step is one of the queue or changes nothing of it.                      *)
THEOREM ChannelIsFifo == Spec => FirstInFirstOut
<1> DEFINE Parts == InductiveInv /\ OneGives /\ HandedParts
<1>1. Init => (Calm => Queue!Init)
  <2> SUFFICES ASSUME Init, Calm
               PROVE  Queue!Init
    OBVIOUS
  <2>1. HandedParts
    BY InitInv, HandedMeans
  <2>2. /\ queue = <<>> /\ puts = 0 /\ got = [j \in Journeys |-> <<>>]
        /\ frame = [j \in Journeys |-> NoFrame] /\ doing = [c \in Callers |-> Idle]
    BY DEF Init, New
  <2>3. ASSUME NEW j \in Journeys
        PROVE  got[j] \o Handed(j) = <<>>
    <3>1. ~frame[j].wasSet /\ got[j] = <<>>
      BY <2>2 DEF NoFrame, NewFrame
    <3>2. \A c \in Callers : ~GivesTo(c, j)
      BY <2>2 DEF GivesTo, Idle
    <3>3. Handed(j) = <<>>
      BY <2>1, <3>1, <3>2 DEF HandedParts
    <3>4. <<>> \in Seq(Values)
      BY EmptySeq
    <3> QED
      BY <3>1, <3>3, <3>4, ConcatEmptySeq
  <2> QED
    BY <2>2, <2>3 DEF Queue!Init
<1>2. ASSUME Parts, Parts', [Next]_vars
      PROVE  [Calm => Queue!Next]_(Queue!vars)
  <2> DEFINE given == [j \in Journeys |-> got[j] \o Handed(j)]
  <2> SUFFICES ASSUME Calm
               PROVE  Queue!Next \/ UNCHANGED Queue!vars
    OBVIOUS
  <2>1. given = [j \in Journeys |-> Given(j)] /\ given' = [j \in Journeys |-> Given(j)']
    BY DEF Given
  <2>2. CASE Next
    <3>1. Calm'
      BY <1>2, <2>2, GetterFlags DEF Next, Caller, Put, Set, Close, Reset, Told, Open,
         journeyVars, Calm, InductiveInv
    <3>2. \/ \E j \in Journeys :
               /\ queue # <<>> /\ queue' = Tail(queue) /\ UNCHANGED puts
               /\ Given(j)' = Append(Given(j), Head(queue))
               /\ \A k \in Journeys \ {j} : Given(k)' = Given(k)
          \/ /\ puts < MaxPuts /\ puts' = puts + 1 /\ queue' = Append(queue, puts + 1)
             /\ \A k \in Journeys : Given(k)' = Given(k)
          \/ /\ puts < MaxPuts /\ puts' = puts + 1 /\ queue = <<>> /\ UNCHANGED queue
             /\ \E j \in Journeys : /\ Given(j)' = Append(Given(j), puts + 1)
                                    /\ \A k \in Journeys \ {j} : Given(k)' = Given(k)
          \/ UNCHANGED <<queue, puts>> /\ \A k \in Journeys : Given(k)' = Given(k)
      <4>1. CASE \E j \in Journeys : Getter(j)
        <5>1. PICK j \in Journeys : Getter(j)
          BY <4>1
        <5> QED
          BY <1>2, <3>1, <5>1, GetterGiven
      <4>2. CASE \E c \in Callers : Caller(c)
        <5>1. PICK c \in Callers : Caller(c)
          BY <4>2
        <5> QED
          BY <1>2, <3>1, <5>1, CallerGiven
      <4> QED
        BY <2>2, <4>1, <4>2 DEF Next
    <3>3. ASSUME NEW j \in Journeys, queue # <<>>, queue' = Tail(queue), UNCHANGED puts,
                 Given(j)' = Append(Given(j), Head(queue)),
                 \A k \in Journeys \ {j} : Given(k)' = Given(k)
          PROVE  Queue!Give(j)
      <4>1. given' = [given EXCEPT ![j] = Append(given[j], Head(queue))]
        BY <2>1, <3>3
      <4> QED
        BY <3>3, <4>1 DEF Queue!Give
    <3>4. ASSUME puts < MaxPuts, puts' = puts + 1, queue' = Append(queue, puts + 1),
                 \A k \in Journeys : Given(k)' = Given(k)
          PROVE  Queue!Put
      <4>1. given' = given
        BY <2>1, <3>4
      <4> QED
        BY <3>4, <4>1 DEF Queue!Put
    <3>5. ASSUME NEW j \in Journeys, puts < MaxPuts, puts' = puts + 1, queue = <<>>, UNCHANGED queue,
                 Given(j)' = Append(Given(j), puts + 1),
                 \A k \in Journeys \ {j} : Given(k)' = Given(k)
          PROVE  Queue!Pass(j)
      <4>1. given' = [given EXCEPT ![j] = Append(given[j], puts + 1)]
        BY <2>1, <3>5
      <4> QED
        BY <3>5, <4>1 DEF Queue!Pass
    <3>6. ASSUME UNCHANGED <<queue, puts>>, \A k \in Journeys : Given(k)' = Given(k)
          PROVE  UNCHANGED Queue!vars
      <4>1. given' = given
        BY <2>1, <3>6
      <4> QED
        BY <3>6, <4>1 DEF Queue!vars
    <3> QED
      BY <3>2, <3>3, <3>4, <3>5, <3>6 DEF Queue!Next
  <2>3. CASE UNCHANGED vars
    <3>1. UNCHANGED <<queue, frame, doing, puts, got>>
      BY <2>3 DEF vars, channelVars
    <3> QED
      BY <3>1 DEF Queue!vars, Handed
  <2> QED
    BY <1>2, <2>2, <2>3
<1>3. InductiveInv => Parts
  BY HandedMeans
<1>4. Spec => []InductiveInv
  BY InitInv, NextInv, PTL DEF Spec
<1> HIDE DEF Parts
<1>5. Spec => []Parts
  BY <1>3, <1>4, PTL
<1> QED
  BY <1>1, <1>2, <1>5, PTL DEF Spec, FirstInFirstOut
=============================================================================
