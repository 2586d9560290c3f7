---------------------------- MODULE VotingProofs ----------------------------
(***************************************************************************)
(* Proofs about Voting, for every set of nodes and all bounds: types for   *)
(* all of it, agreement and the refinement of AtomicBroadcast as long as   *)
(* no timer expires.                                                       *)
(***************************************************************************)
EXTENDS VotingProperties, SequenceTheorems, FiniteSetTheorems, TLAPS

Chans == [Node -> [Node -> Seq(Message)]]
Timers == [Node -> [Step -> {"off", "armed", "queued"}]]
Nexts == [Node -> 0 .. MaxStep]

(* A default-constructed Voting is an object.                              *)
LEMMA FreshType == Fresh \in Object
BY DEF Fresh, Object, Batch

(* Sending a message keeps the channels well typed.                        *)
LEMMA BroadcastType ==
  ASSUME NEW c \in Chans, NEW n \in Node, NEW msg \in Message
  PROVE  Broadcast(c, n, msg) \in Chans
<1>1. \A m \in Node : Append(c[n][m], msg) \in Seq(Message)
  BY DEF Chans
<1> QED
  BY <1>1 DEF Broadcast, Chans

(* So does receiving one.                                                  *)
LEMMA PoppedType ==
  ASSUME TypeOK, NEW m \in Node, NEW n \in Node, Receives(m, n)
  PROVE  /\ Popped(m, n) \in Chans
         /\ Head(chan[m][n]) \in Message
<1>1. chan[m][n] \in Seq(Message) /\ chan[m][n] # <<>>
  BY DEF TypeOK, Receives
<1>2. Tail(chan[m][n]) \in Seq(Message) /\ Head(chan[m][n]) \in Message
  BY <1>1
<1> QED
  BY <1>2 DEF Popped, Chans, TypeOK

(* What is left of the streams of a process that died is, of each, some    *)
(* part from the front.                                                    *)
LEMMA CutPrefix ==
  ASSUME TypeOK, NEW n \in Node, NEW out \in CutStreams(n)
  PROVE  /\ out = [m \in Node |-> out[m]]
         /\ \A m \in Node :
              \E j \in 0 .. Len(chan[n][m]) : out[m] = SubSeq(chan[n][m], 1, j)
<1> DEFINE busy == {m \in Node : chan[n][m] # <<>>}
           lens == UNION {0 .. Len(chan[n][m]) : m \in busy}
<1>1. PICK k \in [busy -> lens] :
        /\ \A m \in busy : k[m] <= Len(chan[n][m])
        /\ out = [m \in Node |-> IF m \in busy THEN SubSeq(chan[n][m], 1, k[m])
                                               ELSE <<>>]
  BY DEF CutStreams
<1>2. ASSUME NEW m \in Node
      PROVE  \E j \in 0 .. Len(chan[n][m]) : out[m] = SubSeq(chan[n][m], 1, j)
  <2>1. chan[n][m] \in Seq(Message)
    BY DEF TypeOK
  <2>2. CASE m \in busy
    <3>1. k[m] \in lens /\ k[m] <= Len(chan[n][m])
      BY <1>1, <2>2
    <3>2. \A j \in lens : j \in Nat
      BY DEF TypeOK
    <3>3. k[m] \in 0 .. Len(chan[n][m])
      BY <2>1, <3>1, <3>2
    <3>4. out[m] = SubSeq(chan[n][m], 1, k[m])
      BY <1>1, <2>2
    <3> QED
      BY <3>3, <3>4
  <2>3. CASE m \notin busy
    <3>1. chan[n][m] = <<>> /\ out[m] = <<>>
      BY <1>1, <2>3
    <3>2. Len(chan[n][m]) = 0 /\ SubSeq(chan[n][m], 1, 0) = <<>>
      BY <3>1
    <3> QED
      BY <3>1, <3>2
  <2> QED
    BY <2>2, <2>3
<1> QED
  BY <1>1, <1>2

(* What is left of the streams of a process that died is typed.            *)
LEMMA CutType ==
  ASSUME TypeOK, NEW n \in Node, NEW out \in CutStreams(n)
  PROVE  out \in [Node -> Seq(Message)]
<1>1. ASSUME NEW m \in Node
      PROVE  out[m] \in Seq(Message)
  <2>1. chan[n][m] \in Seq(Message)
    BY DEF TypeOK
  <2>2. PICK j \in 0 .. Len(chan[n][m]) : out[m] = SubSeq(chan[n][m], 1, j)
    BY CutPrefix
  <2> QED
    BY <2>1, <2>2
<1>2. out = [m \in Node |-> out[m]]
  BY CutPrefix
<1> QED
  BY <1>1, <1>2

(* The batches that complete() runs.                                       *)
LEMMA BatchesType ==
  ASSUME NEW s \in Step, NEW k \in s + 1 .. MaxStep, NEW v \in [Step -> Object]
  PROVE  /\ Batches(k, s, v) \in Seq(Batch)
         /\ Len(Batches(k, s, v)) = k - s
         /\ \A i \in 1 .. k - s : Batches(k, s, v)[i] = v[s + i - 1].carries
<1>1. k - s \in Nat /\ \A i \in 1 .. k - s : s + i - 1 \in Step
  BY VotingAssumption DEF Step
<1>2. \A i \in 1 .. k - s : v[s + i - 1].carries \in Batch
  BY <1>1 DEF Object
<1>3. Batches(k, s, v) \in [1 .. k - s -> Batch]
  BY <1>2 DEF Batches
<1> QED
  BY <1>1, <1>3 DEF Batches

(* complete() keeps the types.                                             *)
LEMMA CompleteType ==
  ASSUME TypeOK, NEW n \in Node, NEW s \in Step, NEW v \in [Step -> Object],
         NEW t \in Timers, next' \in Nexts, Complete(n, s, v, t)
  PROVE  (current \in Nexts /\ voting \in [Node -> [Step -> Object]]
            /\ timer \in Timers /\ log \in [Node -> Seq(Batch)])'
<1>1. CASE s # current[n] /\ voting' = [voting EXCEPT ![n] = v] /\ timer' = t
           /\ UNCHANGED <<current, log>>
  BY <1>1 DEF TypeOK, Nexts
<1>2. CASE s = current[n] /\ ~(s # current[n])
  <2>1. PICK k \in s + 1 .. next'[n] :
          /\ RunsUpTo(k, s, v, next'[n])
          /\ current' = [current EXCEPT ![n] = k]
          /\ log' = [log EXCEPT ![n] = @ \o Batches(k, s, v)]
          /\ voting' = [voting EXCEPT ![n] =
                          [i \in Step |-> IF i < k THEN Fresh ELSE v[i]]]
          /\ timer' = [t EXCEPT ![n] =
                         [i \in Step |-> IF i < k /\ t[n][i] = "armed"
                                           THEN "off" ELSE t[n][i]]]
    BY <1>2 DEF Complete
  <2>2. k \in s + 1 .. MaxStep /\ k \in 0 .. MaxStep
    BY VotingAssumption DEF Nexts, Step
  <2>3. log[n] \o Batches(k, s, v) \in Seq(Batch)
    BY <2>2, BatchesType DEF TypeOK
  <2>4. [i \in Step |-> IF i < k THEN Fresh ELSE v[i]] \in [Step -> Object]
    BY FreshType
  <2>5. timer' \in Timers
    BY <2>1 DEF Timers
  <2> QED
    BY <2>1, <2>2, <2>3, <2>4, <2>5 DEF TypeOK, Nexts
<1> QED
  BY <1>1, <1>2 DEF Complete

(* commit() keeps the types.                                               *)
LEMMA CommitType ==
  ASSUME TypeOK, NEW n \in Node, NEW s \in Step, NEW w \in Object,
         NEW carries \in Batch, NEW c \in Chans, NEW t \in Timers,
         next' \in Nexts, Commit(n, s, w, carries, c, t)
  PROVE  (current \in Nexts /\ voting \in [Node -> [Step -> Object]]
            /\ timer \in Timers /\ log \in [Node -> Seq(Batch)]
            /\ chan \in Chans)'
<1> DEFINE v == [voting[n] EXCEPT ![s] = InState("Completed", w, carries)]
<1>1. InState("Completed", w, carries) \in Object
  BY DEF Object, InState
<1>2. v \in [Step -> Object]
  BY <1>1 DEF TypeOK
<1>3. CommitMsg(s, carries) \in Message
  BY DEF CommitMsg, Message
<1>4. chan' = Broadcast(c, n, CommitMsg(s, carries)) /\ Complete(n, s, v, t)
  BY DEF Commit
<1>5. chan' \in Chans
  BY <1>3, <1>4, BroadcastType
<1> QED
  BY <1>2, <1>4, <1>5, CompleteType

(* The object after the first half of vote().                              *)
LEMMA MergedType ==
  ASSUME NEW w \in Object, NEW n \in Node, NEW carries \in Batch,
         NEW src \in Node, NEW nodes \in SUBSET Node
  PROVE  Merged(w, n, carries, src, nodes) \in Object
<1>1. /\ w.state \in {"Initial", "Voted", "Completed"}
      /\ w.nodes \in SUBSET Node
      /\ w.voted \in SUBSET Node
      /\ w.carries \in Batch
  BY DEF Object
<1>2. w.carries \cup carries \in Batch
  BY <1>1 DEF Batch
<1>3. CASE w.nodes # {} /\ w.nodes # nodes
  BY <1>1, <1>2, <1>3 DEF Merged, Object
<1>4. CASE ~(w.nodes # {} /\ w.nodes # nodes)
  BY <1>1, <1>2, <1>4 DEF Merged, Object
<1> QED
  BY <1>3, <1>4

(* vote() keeps the types.                                                 *)
LEMMA VoteType ==
  ASSUME TypeOK, NEW n \in Node, NEW s \in Step, NEW carries \in Batch,
         NEW src \in Node, NEW nodes \in SUBSET Node, NEW c \in Chans,
         NEW t \in Timers, next' \in Nexts,
         Vote(n, s, carries, src, nodes, c, t)
  PROVE  (current \in Nexts /\ voting \in [Node -> [Step -> Object]]
            /\ timer \in Timers /\ log \in [Node -> Seq(Batch)]
            /\ chan \in Chans)'
<1> DEFINE w == Merged(voting[n][s], n, carries, src, nodes)
<1>1. w \in Object
  BY MergedType DEF TypeOK
<1>2. w.carries \in Batch /\ w.nodes \in SUBSET Node
  BY <1>1 DEF Object
<1>3. CASE chan' = c /\ timer' = t /\ UNCHANGED <<current, voting, log>>
  BY <1>3 DEF TypeOK, Nexts
<1>4. CASE Commit(n, s, w, w.carries, c, t)
  BY <1>1, <1>2, <1>4, CommitType
<1>5. CASE /\ voting' = [voting EXCEPT ![n][s] = InState("Voted", w, w.carries)]
           /\ chan' = IF w.state = "Initial"
                        THEN Broadcast(c, n, VoteMsg(s, w.carries, w.nodes))
                        ELSE c
           /\ timer' = t
           /\ UNCHANGED <<current, log>>
  <2>1. InState("Voted", w, w.carries) \in Object
    BY <1>1 DEF Object, InState
  <2>2. VoteMsg(s, w.carries, w.nodes) \in Message
    BY <1>2 DEF VoteMsg, Message
  <2>3. chan' \in Chans
    BY <1>5, <2>2, BroadcastType
  <2> QED
    BY <1>5, <2>1, <2>3 DEF TypeOK, Nexts
<1> QED
  BY <1>3, <1>4, <1>5 DEF Vote

(* Types of the proposal a process makes.                                  *)
LEMMA ProposalType ==
  ASSUME TypeOK, NEW n \in Node, NEW s \in Step
  PROVE  /\ {<<n, Len(started[n]) + 1>>} \in Batch
         /\ [started EXCEPT ![n] = Append(@, s)] \in [Node -> Seq(Step)]
<1>1. started[n] \in Seq(Step)
  BY DEF TypeOK
<1>2. Len(started[n]) + 1 \in Nat /\ Append(started[n], s) \in Seq(Step)
  BY <1>1
<1> QED
  BY <1>2 DEF TypeOK, Batch, MsgId

(* The handler of an expired timer keeps the types.                        *)
LEMMA TimeoutType ==
  ASSUME TypeOK, NEW n \in Node, NEW s \in Step, NEW t \in Timers,
         Timeout(n, s, t), UNCHANGED <<next, started>>
  PROVE  TypeOK'
<1> DEFINE w == voting[n][s]
<1>1. w.carries \in Batch /\ w.voted \in SUBSET Node
  BY DEF TypeOK, Object
<1>2. chan \in Chans /\ next' \in Nexts
  BY DEF TypeOK, Chans, Nexts
<1>3. CASE Vote(n, s, w.carries, n, w.voted, chan, t) /\ UNCHANGED mode
  <2>1. (current \in Nexts /\ voting \in [Node -> [Step -> Object]]
            /\ timer \in Timers /\ log \in [Node -> Seq(Batch)]
            /\ chan \in Chans)'
    BY <1>1, <1>2, <1>3, VoteType
  <2> QED
    BY <1>2, <1>3, <2>1 DEF TypeOK, Nexts, Chans, Timers
<1>4. CASE Fail(n, t)
  BY <1>4 DEF Fail, TypeOK, Timers
<1> QED
  BY <1>3, <1>4 DEF Timeout

(* getPtr() keeps the next step id within the bound.                       *)
LEMMA ReachesType ==
  ASSUME TypeOK, NEW n \in Node, NEW s \in Step, Reaches(n, s)
  PROVE  next' \in Nexts
<1>1. s + 1 \in 0 .. MaxStep
  BY VotingAssumption DEF Step
<1> QED
  BY <1>1 DEF Reaches, TypeOK, Nexts

(* Every step of the whole protocol, timeouts included, keeps the types.   *)
LEMMA TypeStep == TypeOK /\ [Next]_vars => TypeOK'
<1> SUFFICES ASSUME TypeOK, [Next]_vars
             PROVE  TypeOK'
  OBVIOUS
<1> USE DEF Chans, Timers, Nexts
<1>1. ASSUME NEW n \in Node, Apply(n)
      PROVE  TypeOK'
  <2> DEFINE s == next[n]
             t == [timer EXCEPT ![n][s] = "armed"]
             x == {<<n, Len(started[n]) + 1>>}
  <2>1. s \in Step
    BY <1>1, VotingAssumption DEF Apply, TypeOK, Step
  <2>2. t \in Timers /\ chan \in Chans /\ next' \in Nexts
    BY SMTT(30), <1>1, <2>1, VotingAssumption DEF Apply, TypeOK, Step
  <2>3. x \in Batch /\ started' \in [Node -> Seq(Step)]
    BY <1>1, <2>1, ProposalType DEF Apply
  <2>4. Vote(n, s, x, n, Node, chan, t)
    BY <1>1 DEF Apply
  <2>5. (current \in Nexts /\ voting \in [Node -> [Step -> Object]]
            /\ timer \in Timers /\ log \in [Node -> Seq(Batch)]
            /\ chan \in Chans)'
    BY <2>1, <2>2, <2>3, <2>4, VoteType
  <2> QED
    BY <1>1, <2>2, <2>3, <2>5 DEF Apply, TypeOK
<1>2. ASSUME NEW n \in Node, Crash(n)
      PROVE  TypeOK'
  <2>1. PICK out \in CutStreams(n) :
          chan' = [m \in Node |-> IF m = n THEN out
                                           ELSE [chan[m] EXCEPT ![n] = <<>>]]
    BY <1>2 DEF Crash
  <2>2. out \in [Node -> Seq(Message)]
    BY <2>1, CutType
  <2>3. <<>> \in Seq(Message)
    OBVIOUS
  <2>4. chan' \in Chans
    BY <2>1, <2>2, <2>3 DEF TypeOK
  <2> QED
    BY <1>2, <2>4 DEF Crash, TypeOK
<1>3. ASSUME NEW m \in Node, NEW n \in Node, RecvStale(m, n)
      PROVE  TypeOK'
  BY <1>3, PoppedType DEF RecvStale, TypeOK
<1>4. ASSUME NEW m \in Node, NEW n \in Node, RecvVote(m, n)
      PROVE  TypeOK'
  <2> DEFINE msg == Head(chan[m][n])
  <2>1. msg \in Message /\ Popped(m, n) \in Chans
    BY <1>4, PoppedType DEF RecvVote
  <2>2. /\ msg.step \in Step
        /\ msg.carries \in Batch
        /\ msg.nodes \in SUBSET Node
    BY <2>1 DEF Message
  <2>3. Vote(n, msg.step, msg.carries, m, msg.nodes, Popped(m, n), timer)
    BY <1>4 DEF RecvVote
  <2>4. next' \in Nexts
    BY <1>4, <2>2, ReachesType DEF RecvVote
  <2>5. timer \in Timers
    BY DEF TypeOK
  <2>6. (current \in Nexts /\ voting \in [Node -> [Step -> Object]]
            /\ timer \in Timers /\ log \in [Node -> Seq(Batch)]
            /\ chan \in Chans)'
    BY <2>1, <2>2, <2>3, <2>4, <2>5, VoteType
  <2> QED
    BY <1>4, <2>4, <2>6 DEF RecvVote, TypeOK
<1>5. ASSUME NEW m \in Node, NEW n \in Node, RecvCommit(m, n)
      PROVE  TypeOK'
  <2> DEFINE msg == Head(chan[m][n])
             w == voting[n][msg.step]
  <2>1. msg \in Message /\ Popped(m, n) \in Chans
    BY <1>5, PoppedType DEF RecvCommit
  <2>2. msg.step \in Step /\ msg.carries \in Batch
    BY <2>1 DEF Message
  <2>3. next' \in Nexts
    BY <1>5, <2>2, ReachesType DEF RecvCommit
  <2>4. timer \in Timers /\ w \in Object
    BY <2>2 DEF TypeOK
  <2>5. (current \in Nexts /\ voting \in [Node -> [Step -> Object]]
            /\ timer \in Timers /\ log \in [Node -> Seq(Batch)]
            /\ chan \in Chans)'
    <3>1. CASE w.state = "Completed"
      BY <1>5, <2>1, <3>1 DEF RecvCommit, TypeOK
    <3>2. CASE w.state # "Completed"
      <4>1. Commit(n, msg.step, w, msg.carries, Popped(m, n), timer)
        BY <1>5, <3>2 DEF RecvCommit
      <4> QED
        BY <2>1, <2>2, <2>3, <2>4, <4>1, CommitType
    <3> QED
      BY <3>1, <3>2
  <2> QED
    BY <1>5, <2>3, <2>5 DEF RecvCommit, TypeOK
<1>6. ASSUME NEW n \in Node, CleanupRun(n)
      PROVE  TypeOK'
  <2>1. PICK out \in CutStreams(n) : chan' = [chan EXCEPT ![n] = out]
    BY <1>6 DEF CleanupRun
  <2>2. chan' \in Chans
    BY <2>1, CutType DEF TypeOK
  <2>3. MaxStep \in 0 .. MaxStep
    BY VotingAssumption
  <2> QED
    BY <1>6, <2>2, <2>3, FreshType DEF CleanupRun, TypeOK
<1>7. ASSUME NEW n \in Node, NEW s \in Step, Expire(n, s)
      PROVE  TypeOK'
  BY <1>7 DEF Expire, TypeOK
<1>8. ASSUME NEW n \in Node, NEW s \in Step
      PROVE  Dequeued(n, s) \in Timers
  BY DEF Dequeued, TypeOK
<1>9. ASSUME NEW n \in Node, NEW s \in Step, RunTimeout(n, s)
      PROVE  TypeOK'
  BY <1>8, <1>9, TimeoutType DEF RunTimeout
<1>10. ASSUME NEW n \in Node, NEW s \in Step, DanglingTimeout(n, s)
       PROVE  TypeOK'
  <2>1. Dequeued(n, s) \in Timers
    BY <1>8
  <2>2. CASE timer' = Dequeued(n, s) /\ UNCHANGED <<mode, current, voting, chan, log>>
    BY <1>10, <2>1, <2>2 DEF DanglingTimeout, TypeOK
  <2>3. CASE Fail(n, Dequeued(n, s))
    BY <1>10, <2>1, <2>3 DEF DanglingTimeout, Fail, TypeOK
  <2>4. ASSUME NEW r \in Step, Timeout(n, r, Dequeued(n, s))
        PROVE  TypeOK'
    BY <1>10, <2>1, <2>4, TimeoutType DEF DanglingTimeout
  <2> QED
    BY <1>10, <2>2, <2>3, <2>4 DEF DanglingTimeout
<1>11. CASE UNCHANGED vars
  BY <1>11 DEF vars, TypeOK
<1> QED
  BY <1>1, <1>2, <1>3, <1>4, <1>5, <1>6, <1>7, <1>9, <1>10, <1>11
  DEF Next, Quiet, Late

(* Nothing is in flight and no ballot is open in the beginning.            *)
LEMMA TypeInit == Init => TypeOK
<1>1. 0 \in 0 .. MaxStep
  BY VotingAssumption
<1>2. <<>> \in Seq(Message) /\ <<>> \in Seq(Step) /\ <<>> \in Seq(Batch)
  OBVIOUS
<1> QED
  BY <1>1, <1>2, FreshType DEF Init, TypeOK

(* The variables keep their types for any number of processes, steps and   *)
(* crashes, whenever the timers expire and whatever a dangling timer does. *)
THEOREM TypeCorrect == Spec => []TypeOK
BY TypeInit, TypeStep, PTL DEF Spec

-----------------------------------------------------------------------------
(* The predicates of the invariant as they read after a step, of things    *)
(* known before it.                                                        *)
ProposedLater(s) ==
  {x \in UNION {{m} \X DOMAIN started'[m] : m \in Node} :
     started'[x[1]][x[2]] = s}

CountedLater(m, s, batch) ==
  /\ s < next'[m]
  /\ \A k \in DOMAIN started'[m] : started'[m][k] = s => <<m, k>> \in batch

DecidedLater(s, batch) ==
  /\ \A m \in Node : s < next'[m]
  /\ batch = ProposedLater(s)

ObjectLater(w, s) ==
  /\ w.nodes \in {{}, Node}
  /\ w.carries \subseteq ProposedLater(s)
  /\ \A m \in w.voted : CountedLater(m, s, w.carries)
  /\ w.state = "Completed" => DecidedLater(s, w.carries)

MessageLater(m, msg) ==
  IF msg.type = "commit"
    THEN DecidedLater(msg.step, msg.carries)
    ELSE /\ msg.nodes = Node
         /\ msg.carries \subseteq ProposedLater(msg.step)
         /\ CountedLater(m, msg.step, msg.carries)

ChannelsLater(c) ==
  \A m, k \in Node : \A i \in DOMAIN c[m][k] : MessageLater(m, c[m][k][i])

(* A step in which n works on step s: step ids only grow, and a message    *)
(* that is new is one that n proposes in s, which was new to n before.     *)
Grows(n, s) ==
  /\ \A m \in Node : next[m] <= next'[m]
  /\ \A m \in Node : \A k \in DOMAIN started[m] :
       k \in DOMAIN started'[m] /\ started'[m][k] = started[m][k]
  /\ \A m \in Node : \A k \in DOMAIN started'[m] :
       k \in DOMAIN started[m] \/ (m = n /\ started'[m][k] = s /\ next[n] <= s)

(* The counters are numbers, the steps proposed in are steps.              *)
LEMMA Numbers ==
  ASSUME TypeOK
  PROVE  /\ \A m \in Node : next[m] \in Nat /\ current[m] \in Nat
         /\ \A m \in Node : started[m] \in Seq(Step)
         /\ \A m \in Node : \A k \in DOMAIN started[m] :
              started[m][k] \in Step /\ started[m][k] \in Nat
         /\ \A r \in Step : r \in Nat
<1>1. /\ \A m \in Node : next[m] \in Nat /\ current[m] \in Nat
      /\ \A m \in Node : started[m] \in Seq(Step)
  BY DEF TypeOK
<1>2. \A r \in Step : r \in Nat
  BY VotingAssumption DEF Step
<1>3. ASSUME NEW m \in Node, NEW k \in DOMAIN started[m]
      PROVE  started[m][k] \in Step
  <2>1. started[m] \in Seq(Step)
    BY <1>1
  <2> QED
    BY <2>1
<1> QED
  BY <1>1, <1>2, <1>3

(* What it means to be proposed in a step, before and after.               *)
LEMMA ProposedDef ==
  ASSUME NEW s
  PROVE  /\ \A x : x \in Proposed(s) <=>
              \E m \in Node : \E k \in DOMAIN started[m] :
                x = <<m, k>> /\ started[m][k] = s
         /\ \A x : x \in ProposedLater(s) <=>
              \E m \in Node : \E k \in DOMAIN started'[m] :
                x = <<m, k>> /\ started'[m][k] = s
BY DEF Proposed, ProposedLater, Submitted

(* Whoever is past a step has all its messages counted for good.           *)
LEMMA CountedStays ==
  ASSUME TypeOK, TypeOK', NEW n \in Node, NEW s \in Step, Grows(n, s),
         NEW m \in Node, NEW r \in Step, NEW batch, Counted(m, r, batch)
  PROVE  CountedLater(m, r, batch)
<1>1. next[m] \in Nat /\ next'[m] \in Nat /\ r \in Nat /\ s \in Nat
  BY VotingAssumption DEF TypeOK, Step
<1>2. r < next'[m]
  BY <1>1 DEF Grows, Counted
<1>3. ASSUME NEW k \in DOMAIN started'[m], started'[m][k] = r
      PROVE  <<m, k>> \in batch
  <2>1. k \in DOMAIN started[m]
    BY <1>1, <1>3 DEF Grows, Counted
  <2>2. started[m][k] = r
    BY <1>3, <2>1 DEF Grows
  <2> QED
    BY <2>1, <2>2 DEF Counted
<1> QED
  BY <1>2, <1>3 DEF CountedLater

(* What was proposed stays proposed.                                       *)
LEMMA ProposedStays ==
  ASSUME NEW n \in Node, NEW s \in Step, Grows(n, s), NEW r
  PROVE  Proposed(r) \subseteq ProposedLater(r)
BY ProposedDef DEF Grows

(* A decision stays one: every process is past the step.                   *)
LEMMA DecidedStays ==
  ASSUME TypeOK, TypeOK', NEW n \in Node, NEW s \in Step, Grows(n, s),
         NEW r \in Step, NEW batch, Decided(r, batch)
  PROVE  DecidedLater(r, batch)
<1>1. \A m \in Node : Counted(m, r, batch)
  BY ProposedDef DEF Decided, Counted
<1>2. \A m \in Node : CountedLater(m, r, batch)
  BY <1>1, CountedStays
<1>3. ProposedLater(r) \subseteq batch
  BY <1>2, ProposedDef DEF CountedLater
<1>4. batch \subseteq ProposedLater(r)
  BY ProposedStays DEF Decided
<1> QED
  BY <1>2, <1>3, <1>4 DEF CountedLater, DecidedLater

(* So does what the invariant says of objects, messages and logs.          *)
LEMMA AllStays ==
  ASSUME IInv, TypeOK', NEW n \in Node, NEW s \in Step, Grows(n, s)
  PROVE  /\ \A m \in Node : \A r \in Step : ObjectLater(voting[m][r], r)
         /\ ChannelsLater(chan)
         /\ \A m \in Node : \A i \in DOMAIN log[m] :
              i - 1 \in Step /\ DecidedLater(i - 1, log[m][i])
<1>0. TypeOK
  BY DEF IInv
<1>1. ASSUME NEW m \in Node, NEW r \in Step
      PROVE  ObjectLater(voting[m][r], r)
  <2> DEFINE w == voting[m][r]
  <2>1. ObjectOK(m, r) /\ w.voted \subseteq Node
    BY DEF IInv, ObjectsOK, TypeOK, Object
  <2>2. w.carries \subseteq ProposedLater(r)
    BY <2>1, ProposedStays DEF ObjectOK
  <2>3. \A k \in w.voted : CountedLater(k, r, w.carries)
    BY <1>0, <2>1, CountedStays DEF ObjectOK
  <2>4. w.state = "Completed" => DecidedLater(r, w.carries)
    BY <1>0, <2>1, DecidedStays DEF ObjectOK
  <2> QED
    BY <2>1, <2>2, <2>3, <2>4 DEF ObjectOK, ObjectLater
<1>2. ASSUME NEW m \in Node, NEW k \in Node, NEW i \in DOMAIN chan[m][k]
      PROVE  MessageLater(m, chan[m][k][i])
  <2> DEFINE msg == chan[m][k][i]
  <2>1. MessageOK(m, msg)
    BY DEF IInv, MessagesOK
  <2>2. chan[m][k] \in Seq(Message)
    BY <1>0 DEF TypeOK
  <2>3. msg \in Message
    BY <2>2
  <2>4. msg.step \in Step
    BY <2>3 DEF Message
  <2>5. CASE msg.type = "commit"
    <3>1. DecidedLater(msg.step, msg.carries)
      BY <1>0, <2>1, <2>4, <2>5, DecidedStays DEF MessageOK
    <3> QED
      BY <2>5, <3>1 DEF MessageLater
  <2>6. CASE msg.type # "commit"
    <3>1. CountedLater(m, msg.step, msg.carries)
      BY <1>0, <2>1, <2>4, <2>6, CountedStays DEF MessageOK
    <3>2. msg.carries \subseteq ProposedLater(msg.step)
      BY <2>1, <2>6, ProposedStays DEF MessageOK
    <3> QED
      BY <2>1, <2>6, <3>1, <3>2 DEF MessageOK, MessageLater
  <2> QED
    BY <2>5, <2>6
<1>3. ASSUME NEW m \in Node, NEW i \in DOMAIN log[m]
      PROVE  i - 1 \in Step /\ DecidedLater(i - 1, log[m][i])
  <2>1. log[m] \in Seq(Batch) /\ Len(log[m]) \in 0 .. MaxStep
    <3>1. Len(log[m]) = current[m]
      BY DEF IInv, LogOK
    <3> QED
      BY <1>0, <3>1 DEF TypeOK
  <2>2. i \in 1 .. Len(log[m])
    BY <2>1
  <2>3. i - 1 \in Step
    BY <2>1, <2>2, VotingAssumption DEF Step
  <2>4. Decided(i - 1, log[m][i])
    BY DEF IInv, LogOK
  <2> QED
    BY <1>0, <2>3, <2>4, DecidedStays
<1> QED
  BY <1>1, <1>2, <1>3 DEF ChannelsLater

(* Read of the state after the step, they are the parts of the invariant.  *)
LEMMA LaterMeans ==
  /\ (\A m \in Node : \A r \in Step : ObjectLater(voting'[m][r], r)) => ObjectsOK'
  /\ ChannelsLater(chan') => MessagesOK'
  /\ (\A m \in Node : /\ Len(log'[m]) = current'[m]
                      /\ \A i \in DOMAIN log'[m] : DecidedLater(i - 1, log'[m][i]))
       => LogOK'
<1>1. ASSUME NEW s, NEW batch, DecidedLater(s, batch)
      PROVE  Decided(s, batch)'
  BY <1>1 DEF DecidedLater, Decided, ProposedLater, Proposed, Submitted
<1>2. ASSUME \A m \in Node : \A r \in Step : ObjectLater(voting'[m][r], r)
      PROVE  ObjectsOK'
  BY <1>2 DEF ObjectLater, ObjectsOK, ObjectOK, CountedLater, Counted,
              DecidedLater, Decided, ProposedLater, Proposed, Submitted
<1>3. ASSUME ChannelsLater(chan')
      PROVE  MessagesOK'
  BY <1>3 DEF ChannelsLater, MessageLater, MessagesOK, MessageOK, CountedLater,
              Counted, DecidedLater, Decided, ProposedLater, Proposed, Submitted
<1>4. ASSUME \A m \in Node :
               /\ Len(log'[m]) = current'[m]
               /\ \A i \in DOMAIN log'[m] : DecidedLater(i - 1, log'[m][i])
      PROVE  LogOK'
  BY <1>4 DEF LogOK, DecidedLater, Decided, ProposedLater, Proposed, Submitted
<1> QED
  BY <1>2, <1>3, <1>4

(* Sending a message that fits keeps the channels in order.                *)
LEMMA BroadcastLater ==
  ASSUME NEW c \in Chans, ChannelsLater(c), NEW n \in Node,
         NEW msg \in Message, MessageLater(n, msg)
  PROVE  ChannelsLater(Broadcast(c, n, msg))
<1> DEFINE d == Broadcast(c, n, msg)
<1> SUFFICES ASSUME NEW m \in Node, NEW k \in Node, NEW i \in DOMAIN d[m][k]
             PROVE  MessageLater(m, d[m][k][i])
  BY DEF ChannelsLater
<1>1. c[m][k] \in Seq(Message)
  BY DEF Chans
<1>2. CASE d[m][k] = c[m][k]
  BY <1>2 DEF ChannelsLater
<1>3. CASE m = n /\ d[m][k] = Append(c[n][k], msg)
  <2>1. i \in 1 .. Len(c[n][k]) + 1
    BY <1>1, <1>3
  <2>2. CASE i = Len(c[n][k]) + 1
    BY <1>1, <1>3, <2>2
  <2>3. CASE i \in 1 .. Len(c[n][k])
    BY <1>1, <1>3, <2>3 DEF ChannelsLater
  <2> QED
    BY <1>1, <2>1, <2>2, <2>3
<1>4. d[m][k] = c[m][k] \/ (m = n /\ d[m][k] = Append(c[n][k], msg))
  BY DEF Broadcast, Chans
<1> QED
  BY <1>2, <1>3, <1>4

(* Receiving keeps them in order, and the message received fits.           *)
LEMMA PoppedLater ==
  ASSUME TypeOK, ChannelsLater(chan), NEW m \in Node, NEW n \in Node,
         Receives(m, n)
  PROVE  /\ ChannelsLater(Popped(m, n))
         /\ MessageLater(m, Head(chan[m][n]))
<1>1. chan[m][n] \in Seq(Message) /\ chan[m][n] # <<>>
  BY DEF TypeOK, Receives
<1>2. MessageLater(m, chan[m][n][1])
  BY <1>1 DEF ChannelsLater
<1>3. Head(chan[m][n]) = chan[m][n][1]
  BY <1>1
<1>4. ASSUME NEW a \in Node, NEW b \in Node, NEW i \in DOMAIN Popped(m, n)[a][b]
      PROVE  MessageLater(a, Popped(m, n)[a][b][i])
  <2>1. CASE a = m /\ b = n
    <3>1. Popped(m, n)[a][b] = Tail(chan[m][n])
      BY <2>1 DEF Popped, TypeOK
    <3>2. i \in 1 .. Len(chan[m][n]) - 1 /\ i + 1 \in DOMAIN chan[m][n]
      BY <1>1, <3>1
    <3>3. Tail(chan[m][n])[i] = chan[m][n][i + 1]
      BY <1>1, <3>2
    <3> QED
      BY <2>1, <3>1, <3>2, <3>3 DEF ChannelsLater
  <2>2. CASE ~(a = m /\ b = n)
    <3>1. Popped(m, n)[a][b] = chan[a][b]
      BY <2>2 DEF Popped, TypeOK
    <3> QED
      BY <3>1 DEF ChannelsLater
  <2> QED
    BY <2>1, <2>2
<1> QED
  BY <1>2, <1>3, <1>4 DEF ChannelsLater

(* complete() of a step of a table whose objects all fit.                  *)
LEMMA CompleteKeeps ==
  ASSUME IInv, TypeOK', NEW n \in Node, NEW s \in Step, Grows(n, s),
         NEW v \in [Step -> Object], NEW t \in Timers,
         \A r \in Step : ObjectLater(v[r], r),
         \A r \in Step : r # s => v[r] = voting[n][r],
         \A k \in DOMAIN started'[n] : started'[n][k] = s => <<n, k>> \in v[s].carries,
         Complete(n, s, v, t)
  PROVE  (OwnCarried /\ ObjectsOK /\ LogOK)'
<1>0. TypeOK /\ OwnCarried /\ LogOK
  BY DEF IInv
<1>1. /\ \A m \in Node : \A r \in Step : ObjectLater(voting[m][r], r)
      /\ \A m \in Node : \A i \in DOMAIN log[m] : DecidedLater(i - 1, log[m][i])
  BY AllStays
<1>2. /\ \A m \in Node : current[m] \in Nat /\ Len(log[m]) = current[m]
      /\ \A m \in Node : log[m] \in Seq(Batch)
      /\ \A m \in Node : started[m] \in Seq(Step) /\ started'[m] \in Seq(Step)
      /\ s \in Nat
  BY <1>0, VotingAssumption DEF TypeOK, LogOK, Step
<1>3. ASSUME NEW m \in Node, m # n, NEW k \in DOMAIN started'[m],
             started'[m][k] >= current[m]
      PROVE  <<m, k>> \in voting[m][started'[m][k]].carries
  BY <1>0, <1>3 DEF Grows, OwnCarried
<1>4. ASSUME NEW k \in DOMAIN started'[n], started'[n][k] >= current[n]
      PROVE  <<n, k>> \in v[started'[n][k]].carries
  <2>1. CASE started'[n][k] = s
    BY <2>1
  <2>2. CASE started'[n][k] # s
    <3>1. k \in DOMAIN started[n] /\ started'[n][k] = started[n][k]
      BY <2>2 DEF Grows
    <3>2. started'[n][k] \in Step
      BY <1>2
    <3> QED
      BY <1>0, <1>4, <2>2, <3>1, <3>2 DEF OwnCarried
  <2> QED
    BY <2>1, <2>2
<1>5. CASE /\ voting' = [voting EXCEPT ![n] = v]
           /\ UNCHANGED <<current, log>>
  <2>1. \A m \in Node : voting'[m] = IF m = n THEN v ELSE voting[m]
    BY <1>0, <1>5 DEF TypeOK
  <2>2. ObjectsOK'
    BY <1>1, <2>1, LaterMeans
  <2>3. LogOK'
    BY <1>1, <1>2, <1>5, LaterMeans
  <2>4. OwnCarried'
    BY <1>3, <1>4, <1>5, <2>1 DEF OwnCarried
  <2> QED
    BY <2>2, <2>3, <2>4
<1>6. CASE s = current[n] /\ ~(s # current[n])
  <2>1. PICK k \in s + 1 .. next'[n] :
          /\ RunsUpTo(k, s, v, next'[n])
          /\ current' = [current EXCEPT ![n] = k]
          /\ log' = [log EXCEPT ![n] = @ \o Batches(k, s, v)]
          /\ voting' = [voting EXCEPT ![n] =
                          [i \in Step |-> IF i < k THEN Fresh ELSE v[i]]]
    BY <1>6 DEF Complete
  <2> DEFINE b == Batches(k, s, v)
  <2>2. k \in s + 1 .. MaxStep /\ k \in Nat /\ s < k
    BY SMTT(30), <1>2, VotingAssumption DEF TypeOK
  <2>3. b \in Seq(Batch) /\ Len(b) = k - s /\ k - s \in Nat
    <3>1. b \in Seq(Batch) /\ Len(b) = k - s
      BY <2>2, BatchesType
    <3>2. k - s \in Nat
      BY <1>2, <2>2
    <3> QED
      BY <3>1, <3>2
  <2>4. /\ \A m \in Node : current'[m] = IF m = n THEN k ELSE current[m]
        /\ \A m \in Node : log'[m] = IF m = n THEN log[n] \o b ELSE log[m]
        /\ \A m \in Node : \A r \in Step :
             voting'[m][r] = IF m = n THEN IF r < k THEN Fresh ELSE v[r]
                                      ELSE voting[m][r]
    BY <1>0, <2>1 DEF TypeOK
  <2>5. ObjectsOK'
    <3>1. \A r \in Step : ObjectLater(Fresh, r)
      BY DEF ObjectLater, Fresh
    <3> QED
      BY <1>1, <2>4, <3>1, LaterMeans
  <2>6. LogOK'
    <3> HIDE DEF b
    <3>0. log[n] \in Seq(Batch) /\ Len(log[n]) = s /\ log'[n] = log[n] \o b
      BY <1>2, <1>6, <2>4
    <3>1. Len(log'[n]) = k
      <4>1. Len(log'[n]) = s + Len(b)
        BY ZenonT(60), <2>3, <3>0, ConcatProperties
      <4> QED
        BY <1>2, <2>2, <2>3, <4>1
    <3>2. ASSUME NEW i \in DOMAIN log'[n]
          PROVE  DecidedLater(i - 1, log'[n][i])
      <4>1. i \in 1 .. k
        BY <2>3, <3>0, <3>1
      <4>2. CASE i \in 1 .. s
        <5>1. i \in DOMAIN log[n] /\ log'[n][i] = log[n][i]
          BY <2>3, <3>0, <4>2
        <5> QED
          BY <1>1, <5>1
      <4>3. CASE i \in s + 1 .. k
        <5>1. log'[n][i] = b[i - s]
          BY <1>2, <2>2, <2>3, <3>0, <4>3
        <5>2. b[i - s] = v[s + (i - s) - 1].carries
          <6>1. i - s \in 1 .. k - s
            BY <1>2, <2>2, <4>3
          <6> QED
            BY <2>2, <6>1, BatchesType DEF b
        <5>3. i - 1 \in s .. k - 1 /\ s + (i - s) - 1 = i - 1 /\ i - 1 \in Step
          BY <1>2, <2>2, <4>3, VotingAssumption DEF Step
        <5>4. v[i - 1].state = "Completed"
          BY <2>1, <5>3 DEF RunsUpTo
        <5> QED
          BY <5>1, <5>2, <5>3, <5>4 DEF ObjectLater
      <4> QED
        BY <1>2, <2>2, <4>1, <4>2, <4>3
    <3> QED
      BY <1>1, <1>2, <2>4, <3>1, <3>2, LaterMeans
  <2>7. OwnCarried'
    <3>1. ASSUME NEW m \in Node, NEW j \in DOMAIN started'[m],
                 started'[m][j] >= current'[m]
          PROVE  <<m, j>> \in voting'[m][started'[m][j]].carries
      <4>0. started'[m][j] \in Step /\ started'[m][j] \in Nat
        BY <1>2, VotingAssumption DEF Step
      <4>1. CASE m # n
        BY <1>3, <2>4, <3>1, <4>0, <4>1
      <4>2. CASE m = n
        <5>1. started'[n][j] >= current[n] /\ ~(started'[n][j] < k)
          BY <1>2, <1>6, <2>2, <2>4, <3>1, <4>0, <4>2
        <5> QED
          BY <1>4, <2>4, <4>0, <4>2, <5>1
      <4> QED
        BY <4>1, <4>2
    <3> QED
      BY <3>1 DEF OwnCarried
  <2> QED
    BY <2>5, <2>6, <2>7
<1> QED
  BY <1>5, <1>6 DEF Complete

(* commit() of a batch that is decided.                                    *)
LEMMA CommitKeeps ==
  ASSUME IInv, TypeOK', StartedInOrder', NEW n \in Node, NEW s \in Step, Grows(n, s),
         NEW w \in Object, w.nodes \in {{}, Node},
         NEW batch \in Batch, DecidedLater(s, batch),
         NEW c \in Chans, ChannelsLater(c), NEW t \in Timers,
         Commit(n, s, w, batch, c, t)
  PROVE  IInv'
<1> DEFINE o == InState("Completed", w, batch)
           v == [voting[n] EXCEPT ![s] = o]
           msg == CommitMsg(s, batch)
<1>0. TypeOK
  BY DEF IInv
<1>1. o \in Object /\ o.carries = batch
  BY DEF InState, Object
<1>2. v \in [Step -> Object] /\ v[s] = o /\ \A r \in Step : r # s => v[r] = voting[n][r]
  BY <1>0, <1>1 DEF TypeOK
<1>3. ObjectLater(o, s)
  <2>1. o.voted \subseteq Node /\ o.nodes = w.nodes
    BY DEF InState, Object
  <2>2. \A m \in Node : CountedLater(m, s, batch)
    BY ProposedDef DEF DecidedLater, CountedLater
  <2> QED
    BY <1>1, <2>1, <2>2 DEF ObjectLater, DecidedLater
<1>4. \A r \in Step : ObjectLater(v[r], r)
  BY <1>2, <1>3, AllStays
<1>5. \A k \in DOMAIN started'[n] : started'[n][k] = s => <<n, k>> \in v[s].carries
  BY <1>1, <1>2, ProposedDef DEF DecidedLater
<1>6. Complete(n, s, v, t) /\ chan' = Broadcast(c, n, msg)
  BY DEF Commit
<1>7. (OwnCarried /\ ObjectsOK /\ LogOK)'
  BY <1>2, <1>4, <1>5, <1>6, CompleteKeeps
<1>8. msg \in Message /\ MessageLater(n, msg)
  BY DEF CommitMsg, Message, MessageLater
<1>9. MessagesOK'
  BY <1>6, <1>8, BroadcastLater, LaterMeans
<1> QED
  BY <1>7, <1>9 DEF IInv

(* vote() with votes of a ballot among all nodes that count for their      *)
(* sender: no other arrive as long as no timer expires.                    *)
LEMMA VoteKeeps ==
  ASSUME IInv, TypeOK', StartedInOrder', NEW n \in Node, NEW s \in Step, Grows(n, s),
         s >= current[n], s < next'[n],
         NEW carries \in Batch, carries \subseteq ProposedLater(s),
         NEW src \in Node, CountedLater(src, s, carries),
         \A k \in DOMAIN started'[n] : started'[n][k] = s =>
           k \in DOMAIN started[n] \/ <<n, k>> \in carries,
         NEW c \in Chans, ChannelsLater(c), NEW t \in Timers,
         Vote(n, s, carries, src, Node, c, t)
  PROVE  IInv'
<1> DEFINE w == Merged(voting[n][s], n, carries, src, Node)
           o == InState("Voted", w, w.carries)
           msg == VoteMsg(s, w.carries, w.nodes)
<1>0. TypeOK /\ voting[n][s] \in Object
  <2>1. TypeOK
    BY DEF IInv
  <2> QED
    BY <2>1 DEF TypeOK
<1>1. w \in Object /\ w.carries \in Batch /\ w.nodes \in SUBSET Node /\ w.voted \in SUBSET Node
  <2>1. w \in Object
    BY <1>0, MergedType
  <2> QED
    BY <2>1 DEF Object
<1>2. ObjectLater(voting[n][s], s)
  BY AllStays
<1>3. /\ w.nodes = Node
      /\ w.voted = voting[n][s].voted \cup {src, n}
      /\ w.carries = voting[n][s].carries \cup carries
  BY <1>2 DEF ObjectLater, Merged
<1>4. w.carries \subseteq ProposedLater(s)
  BY <1>2, <1>3 DEF ObjectLater
<1>5. \A k \in DOMAIN started'[n] : started'[n][k] = s => <<n, k>> \in w.carries
  <2> SUFFICES ASSUME NEW k \in DOMAIN started[n], started'[n][k] = s
               PROVE  <<n, k>> \in voting[n][s].carries
    BY <1>3
  <2>1. started[n][k] = s
    BY DEF Grows
  <2> QED
    BY <2>1 DEF IInv, OwnCarried
<1>6. \A m \in w.voted : CountedLater(m, s, w.carries)
  BY <1>2, <1>3, <1>5 DEF ObjectLater, CountedLater
<1>7. CASE chan' = c /\ timer' = t /\ UNCHANGED <<current, voting, log>>
           /\ voting[n][s].state = "Completed"
  <2>1. ObjectsOK' /\ MessagesOK'
    BY <1>7, AllStays, LaterMeans
  <2>2. LogOK'
    BY <1>7, AllStays, LaterMeans DEF IInv, LogOK
  <2>3. OwnCarried'
    <3>1. DecidedLater(s, voting[n][s].carries)
      BY <1>2, <1>7 DEF ObjectLater
    <3>2. ASSUME NEW m \in Node, NEW k \in DOMAIN started'[m],
                 started'[m][k] >= current[m]
          PROVE  <<m, k>> \in voting[m][started'[m][k]].carries
      <4>1. CASE k \in DOMAIN started[m]
        BY <3>2, <4>1 DEF Grows, IInv, OwnCarried
      <4>2. CASE m = n /\ started'[m][k] = s
        BY <3>1, <4>2, ProposedDef DEF DecidedLater
      <4> QED
        BY <4>1, <4>2 DEF Grows
    <3> QED
      BY <1>7, <3>2 DEF OwnCarried
  <2> QED
    BY <2>1, <2>2, <2>3 DEF IInv
<1>8. CASE w.voted = w.nodes /\ Commit(n, s, w, w.carries, c, t)
  <2>1. \A m \in Node : CountedLater(m, s, w.carries)
    BY <1>3, <1>6, <1>8
  <2>2. ProposedLater(s) \subseteq w.carries
    BY <2>1, ProposedDef DEF CountedLater
  <2>3. DecidedLater(s, w.carries)
    BY <1>4, <2>1, <2>2 DEF CountedLater, DecidedLater
  <2> QED
    BY <1>1, <1>3, <1>8, <2>3, CommitKeeps
<1>9. CASE /\ voting[n][s].state # "Completed"
           /\ voting' = [voting EXCEPT ![n][s] = o]
           /\ chan' = IF w.state = "Initial" THEN Broadcast(c, n, msg) ELSE c
           /\ UNCHANGED <<current, log>>
  <2>1. ObjectLater(o, s)
    BY <1>3, <1>4, <1>6 DEF ObjectLater, InState
  <2>2. \A m \in Node : \A r \in Step :
          voting'[m][r] = IF m = n /\ r = s THEN o ELSE voting[m][r]
    BY ZenonT(60), <1>0, <1>9 DEF TypeOK
  <2>3. ObjectsOK'
    BY <2>1, <2>2, AllStays, LaterMeans
  <2>4. LogOK'
    BY <1>9, AllStays, LaterMeans DEF IInv, LogOK
  <2>5. msg \in Message /\ MessageLater(n, msg)
    <3>1. msg \in Message
      BY <1>1 DEF VoteMsg, Message
    <3>2. CountedLater(n, s, w.carries)
      BY <1>3, <1>6
    <3> QED
      BY <1>3, <1>4, <3>1, <3>2 DEF VoteMsg, MessageLater
  <2>6. MessagesOK'
    BY <1>9, <2>5, BroadcastLater, LaterMeans
  <2>7. OwnCarried'
    <3>1. ASSUME NEW m \in Node, NEW k \in DOMAIN started'[m],
                 started'[m][k] >= current[m]
          PROVE  <<m, k>> \in voting'[m][started'[m][k]].carries
      <4>0. started'[m][k] \in Step
        <5>1. started'[m] \in Seq(Step)
          BY DEF TypeOK
        <5> QED
          BY <3>1, <5>1, LenProperties, ElementOfSeq
      <4>1. CASE m = n /\ started'[m][k] = s
        BY <1>5, <2>2, <4>1 DEF InState
      <4>2. CASE ~(m = n /\ started'[m][k] = s)
        <5>1. k \in DOMAIN started[m] /\ started'[m][k] = started[m][k]
          BY <4>2 DEF Grows
        <5> QED
          BY <2>2, <3>1, <4>0, <4>2, <5>1 DEF IInv, OwnCarried
      <4> QED
        BY <4>1, <4>2
    <3> QED
      BY <1>9, <3>1 DEF OwnCarried
  <2> QED
    BY <2>3, <2>4, <2>6, <2>7 DEF IInv
<1> QED
  BY <1>7, <1>8, <1>9 DEF Vote

(* Receiving grows what is known.                                          *)
LEMMA ReceptionGrows ==
  ASSUME IInv, TypeOK', NEW n \in Node, NEW s \in Step, Reaches(n, s),
         UNCHANGED started
  PROVE  /\ Grows(n, s)
         /\ StartedInOrder'
         /\ s >= current[n] /\ s < next'[n]
<1>0. TypeOK
  BY DEF IInv
<1>1. /\ s \in Nat
      /\ \A m \in Node : next[m] \in Nat /\ next'[m] \in Nat
      /\ \A m \in Node : \A k \in DOMAIN started[m] : started[m][k] \in Nat
  <2>1. \A m \in Node : next'[m] \in Nat
    BY DEF TypeOK
  <2> QED
    BY <1>0, <2>1, Numbers
<1>2. \A m \in Node : next'[m] = IF m = n /\ next[m] <= s THEN s + 1 ELSE next[m]
  BY <1>1 DEF Reaches, IInv, TypeOK
<1>3. \A m \in Node : next[m] <= next'[m]
  BY <1>1, <1>2
<1>4. Grows(n, s)
  BY <1>3 DEF Grows
<1>5. StartedInOrder'
  <2>1. ASSUME NEW m \in Node, NEW k \in DOMAIN started[m]
        PROVE  started[m][k] < next'[m]
    <3>1. started[m][k] < next[m]
      BY DEF IInv, StartedInOrder
    <3> QED
      BY <1>1, <1>3, <3>1
  <2> QED
    BY <2>1 DEF IInv, StartedInOrder
<1>6. s < next'[n]
  BY <1>1, <1>2
<1> QED
  BY <1>4, <1>5, <1>6 DEF Reaches

(* Every step without a timer keeps the invariant.                         *)
LEMMA QuietStep == IInv /\ [Quiet]_vars => IInv'
<1> SUFFICES ASSUME IInv, [Quiet]_vars
             PROVE  IInv'
  OBVIOUS
<1>0. TypeOK /\ TypeOK'
  BY TypeStep DEF IInv, Next
<1>1. ASSUME NEW n \in Node, Apply(n)
      PROVE  IInv'
  <2> DEFINE s == next[n]
             k == Len(started[n]) + 1
             t == [timer EXCEPT ![n][s] = "armed"]
  <2>1. s \in Step /\ s \in Nat
    BY <1>0, <1>1, VotingAssumption DEF Apply, TypeOK, Step
  <2>2. t \in Timers /\ chan \in Chans /\ {<<n, k>>} \in Batch
    BY <1>0, <2>1, ProposalType DEF TypeOK, Timers, Chans
  <2>3. /\ \A m \in Node : next'[m] = IF m = n THEN s + 1 ELSE next[m]
        /\ \A m \in Node : started'[m] = IF m = n THEN Append(started[n], s)
                                                  ELSE started[m]
    BY <1>0, <1>1 DEF Apply, TypeOK
  <2>4. /\ \A m \in Node : started[m] \in Seq(Step)
        /\ \A m \in Node : next[m] \in Nat /\ current[m] \in Nat
        /\ \A m \in Node : \A j \in DOMAIN started[m] : started[m][j] \in Nat
    BY <1>0, Numbers
  <2>5. /\ DOMAIN started'[n] = 1 .. k /\ k \in Nat
        /\ started'[n][k] = s
        /\ DOMAIN started[n] = 1 .. k - 1
        /\ \A j \in 1 .. k - 1 : started'[n][j] = started[n][j]
    <3>1. started[n] \in Seq(Step) /\ started'[n] = Append(started[n], s)
      BY <2>3, <2>4
    <3>2. Len(started[n]) \in Nat /\ k - 1 = Len(started[n])
      BY <3>1
    <3> QED
      BY <2>1, <3>1, <3>2
  <2>6. Grows(n, s)
    <3>1. \A m \in Node : next[m] <= next'[m]
      BY <2>1, <2>3, <2>4
    <3>2. \A j \in 1 .. k : j \in 1 .. k - 1 \/ j = k
      BY <2>5
    <3>3. \A j \in 1 .. k - 1 : j \in 1 .. k
      BY <2>5
    <3>4. next[n] <= s
      BY <2>1
    <3> HIDE DEF s, k
    <3> QED
      BY <2>3, <2>5, <3>1, <3>2, <3>3, <3>4 DEF Grows
  <2>7. StartedInOrder'
    <3>1. ASSUME NEW m \in Node, m # n
          PROVE  /\ \A j \in DOMAIN started'[m] : started'[m][j] < next'[m]
                 /\ \A i, j \in DOMAIN started'[m] :
                      i < j => started'[m][i] < started'[m][j]
      BY <2>3, <3>1 DEF IInv, StartedInOrder
    <3>2. ASSUME NEW j \in 1 .. k - 1
          PROVE  started'[n][j] < s /\ started'[n][j] \in Nat
      BY <2>4, <2>5 DEF IInv, StartedInOrder
    <3>3. \A j \in DOMAIN started'[n] : started'[n][j] < next'[n]
      BY <2>1, <2>3, <2>5, <3>2
    <3>4. ASSUME NEW i \in DOMAIN started'[n], NEW j \in DOMAIN started'[n], i < j
          PROVE  started'[n][i] < started'[n][j]
      <4>1. CASE j = k
        BY <2>5, <3>2, <3>4, <4>1
      <4>2. CASE j # k
        <5>1. i \in 1 .. k - 1 /\ j \in 1 .. k - 1
          BY <2>5, <3>4, <4>2
        <5> QED
          BY <2>5, <3>4, <5>1 DEF IInv, StartedInOrder
      <4> QED
        BY <4>1, <4>2
    <3> QED
      BY <3>1, <3>3, <3>4 DEF StartedInOrder
  <2>8. {<<n, k>>} \subseteq ProposedLater(s)
    BY <2>5, ProposedDef
  <2>9. \A j \in DOMAIN started'[n] : started'[n][j] = s => j = k
    BY <2>1, <2>4, <2>5 DEF IInv, StartedInOrder
  <2>10. CountedLater(n, s, {<<n, k>>})
    BY <2>1, <2>3, <2>9 DEF CountedLater
  <2>11. current[n] <= s
    <3>1. CASE current[n] = 0
      BY <2>1, <3>1
    <3>2. CASE current[n] # 0
      <4>1. log[n] \in Seq(Batch) /\ Len(log[n]) = current[n]
        BY <1>0 DEF IInv, LogOK, TypeOK
      <4>2. current[n] \in DOMAIN log[n]
        BY <2>4, <3>2, <4>1
      <4>3. current[n] - 1 < next[n]
        BY <4>2 DEF IInv, LogOK, Decided
      <4> QED
        BY <2>4, <4>3
    <3> QED
      BY <3>1, <3>2
  <2>12. Vote(n, s, {<<n, k>>}, n, Node, chan, t)
    BY <1>1 DEF Apply
  <2>13. ChannelsLater(chan)
    BY <1>0, <2>1, <2>6, AllStays
  <2>14. s < next'[n]
    BY <2>1, <2>3
  <2> QED
    BY <1>0, <2>1, <2>2, <2>6, <2>7, <2>8, <2>9, <2>10, <2>11, <2>12, <2>13,
       <2>14, VoteKeeps
<1>2. ASSUME NEW n \in Node, Crash(n)
      PROVE  IInv'
  <2>1. UNCHANGED <<next, current, voting, started, log>>
    BY <1>2 DEF Crash
  <2>2. ASSUME NEW a \in Node, NEW b \in Node, NEW i \in DOMAIN chan'[a][b]
        PROVE  i \in DOMAIN chan[a][b] /\ chan'[a][b][i] = chan[a][b][i]
    <3>1. PICK out \in CutStreams(n) :
            chan' = [m \in Node |-> IF m = n THEN out
                                             ELSE [chan[m] EXCEPT ![n] = <<>>]]
      BY <1>2 DEF Crash
    <3>2. chan[a][b] \in Seq(Message)
      BY <1>0 DEF TypeOK
    <3>3. CASE a = n
      <4>1. PICK l \in 0 .. Len(chan[a][b]) : chan'[a][b] = SubSeq(chan[a][b], 1, l)
        BY <1>0, <3>1, <3>3, CutPrefix
      <4>2. i \in 1 .. l
        BY <3>2, <4>1
      <4> QED
        BY <3>2, <4>1, <4>2
    <3>4. CASE a # n /\ b # n
      BY <1>0, <3>1, <3>4 DEF TypeOK
    <3>5. CASE a # n /\ b = n
      <4>1. chan'[a][b] = <<>>
        BY <1>0, <3>1, <3>5 DEF TypeOK
      <4> QED
        BY <4>1
    <3> QED
      BY <3>3, <3>4, <3>5
  <2>3. MessagesOK'
    <3>1. ASSUME NEW a \in Node, NEW b \in Node, NEW i \in DOMAIN chan'[a][b]
          PROVE  MessageOK(a, chan[a][b][i])
      BY <2>2 DEF IInv, MessagesOK
    <3> QED
      BY SMTT(30), <2>1, <2>2, <3>1
      DEF MessagesOK, MessageOK, Counted, Decided, Proposed, Submitted
  <2> QED
    BY <1>0, <2>1, <2>3
    DEF IInv, StartedInOrder, OwnCarried, ObjectsOK, ObjectOK, LogOK, Counted,
        Decided, Proposed, Submitted
<1>3. ASSUME NEW m \in Node, NEW n \in Node, RecvStale(m, n)
      PROVE  IInv'
  <2>1. UNCHANGED <<next, current, voting, started, log>>
        /\ Receives(m, n) /\ chan' = Popped(m, n)
    BY <1>3 DEF RecvStale
  <2>2. chan[m][n] \in Seq(Message) /\ chan[m][n] # <<>>
    BY <1>0, <2>1 DEF Receives, TypeOK
  <2>3. ASSUME NEW s \in Step
        PROVE  Grows(m, s)
    <3>1. \A k \in Node : next[k] \in Nat
      BY <1>0 DEF TypeOK
    <3> QED
      BY <2>1, <3>1 DEF Grows
  <2>4. Head(chan[m][n]).step \in Step
    <3>1. Head(chan[m][n]) \in Message
      BY <2>2
    <3> QED
      BY <3>1 DEF Message
  <2>5. ChannelsLater(chan)
    BY <1>0, <2>3, <2>4, AllStays
  <2>6. MessagesOK'
    BY <1>0, <2>1, <2>5, PoppedLater, LaterMeans
  <2> QED
    BY <1>0, <2>1, <2>6
    DEF IInv, StartedInOrder, OwnCarried, ObjectsOK, ObjectOK, LogOK, Counted,
        Decided, Proposed, Submitted
<1>4. ASSUME NEW m \in Node, NEW n \in Node, RecvVote(m, n)
      PROVE  IInv'
  <2> DEFINE msg == Head(chan[m][n])
  <2>1. msg \in Message /\ Popped(m, n) \in Chans
    BY <1>0, <1>4, PoppedType DEF RecvVote
  <2>2. msg.step \in Step /\ msg.carries \in Batch
    BY <2>1 DEF Message
  <2>3. /\ Grows(n, msg.step) /\ StartedInOrder'
        /\ msg.step >= current[n] /\ msg.step < next'[n]
    BY <1>0, <1>4, <2>2, ReceptionGrows DEF RecvVote
  <2>4. ChannelsLater(Popped(m, n)) /\ MessageLater(m, msg)
    <3>1. ChannelsLater(chan)
      BY <1>0, <2>2, <2>3, AllStays
    <3> QED
      BY <1>0, <1>4, <3>1, PoppedLater DEF RecvVote
  <2>5. /\ msg.nodes = Node
        /\ msg.carries \subseteq ProposedLater(msg.step)
        /\ CountedLater(m, msg.step, msg.carries)
    BY <1>4, <2>4 DEF RecvVote, MessageLater
  <2>6. Vote(n, msg.step, msg.carries, m, Node, Popped(m, n), timer)
    BY <1>4, <2>5 DEF RecvVote
  <2>7. timer \in Timers /\ UNCHANGED started
    BY <1>0, <1>4 DEF RecvVote, TypeOK, Timers
  <2> QED
    BY <1>0, <2>1, <2>2, <2>3, <2>4, <2>5, <2>6, <2>7, VoteKeeps
<1>5. ASSUME NEW m \in Node, NEW n \in Node, RecvCommit(m, n)
      PROVE  IInv'
  <2> DEFINE msg == Head(chan[m][n])
             s == msg.step
             w == voting[n][s]
  <2>1. msg \in Message /\ Popped(m, n) \in Chans
    BY <1>0, <1>5, PoppedType DEF RecvCommit
  <2>2. s \in Step /\ msg.carries \in Batch
    BY <2>1 DEF Message
  <2>3. Grows(n, s) /\ StartedInOrder'
    BY <1>0, <1>5, <2>2, ReceptionGrows DEF RecvCommit
  <2>4. ChannelsLater(Popped(m, n)) /\ MessageLater(m, msg)
    <3>1. ChannelsLater(chan)
      BY <1>0, <2>2, <2>3, AllStays
    <3> QED
      BY <1>0, <1>5, <3>1, PoppedLater DEF RecvCommit
  <2>5. DecidedLater(s, msg.carries)
    BY <1>5, <2>4 DEF RecvCommit, MessageLater
  <2>6. timer \in Timers /\ w \in Object /\ UNCHANGED started
    BY <1>0, <1>5, <2>2 DEF RecvCommit, TypeOK, Timers
  <2>7. w.nodes \in {{}, Node}
    BY <2>2 DEF IInv, ObjectsOK, ObjectOK
  <2>8. CASE w.state = "Completed"
    <3>1. UNCHANGED <<current, voting, log>> /\ chan' = Popped(m, n)
      BY <1>5, <2>8 DEF RecvCommit
    <3>2. ObjectsOK' /\ MessagesOK' /\ LogOK'
      BY <2>2, <2>3, <2>4, <1>0, <3>1, AllStays, LaterMeans DEF IInv, LogOK
    <3>3. OwnCarried'
      BY SMTT(30), <2>6, <3>1 DEF IInv, OwnCarried
    <3> QED
      BY <1>0, <2>3, <3>2, <3>3 DEF IInv
  <2>9. CASE w.state # "Completed"
    <3>1. Commit(n, s, w, msg.carries, Popped(m, n), timer)
      BY <1>5, <2>9 DEF RecvCommit
    <3> QED
      BY <1>0, <2>1, <2>2, <2>3, <2>4, <2>5, <2>6, <2>7, <3>1, CommitKeeps
  <2> QED
    BY <2>8, <2>9
<1>6. CASE UNCHANGED vars
  BY <1>0, <1>6
  DEF vars, IInv, StartedInOrder, OwnCarried, ObjectsOK, ObjectOK, MessagesOK,
      MessageOK, LogOK, Counted, Decided, Proposed, Submitted
<1> QED
  BY <1>1, <1>2, <1>3, <1>4, <1>5, <1>6 DEF Quiet

(* In the beginning there is nothing to be wrong.                          *)
LEMMA QuietInit == Init => IInv
BY TypeInit DEF Init, IInv, StartedInOrder, OwnCarried, ObjectsOK, ObjectOK,
                MessagesOK, LogOK, Fresh

(* As long as no timer expires, votes count for all their senders proposed *)
(* and a step is decided with all that was proposed in it.                 *)
THEOREM Invariance == SpecQuiet => []IInv
BY QuietInit, QuietStep, PTL DEF SpecQuiet

-----------------------------------------------------------------------------
(* What the invariant says of the logs, in the terms of the properties.    *)
LEMMA LogEntries ==
  ASSUME IInv, NEW n \in Node
  PROVE  /\ log[n] \in Seq(Batch)
         /\ Len(log[n]) \in Nat
         /\ DOMAIN log[n] = 1 .. Len(log[n])
         /\ \A i \in DOMAIN log[n] : /\ log[n][i] = Proposed(i - 1)
                                     /\ \A m \in Node : i - 1 < next[m]
<1>1. log[n] \in Seq(Batch)
  BY DEF IInv, TypeOK
<1>2. \A i \in DOMAIN log[n] : Decided(i - 1, log[n][i])
  BY DEF IInv, LogOK
<1> QED
  BY <1>1, <1>2 DEF Decided

(* Two logs hold what is decided, thus the same.                            *)
LEMMA InvAgreement == IInv => UniformAgreement
BY LogEntries DEF UniformAgreement, Agree

(* What is executed is decided, thus every process is past it.              *)
LEMMA InvClosed == IInv => StepClosed
<1> SUFFICES ASSUME IInv, NEW r \in Node, NEW n \in Node
             PROVE  next[n] >= Len(log[r])
  BY DEF StepClosed
<1>1. next[n] \in Nat
  BY Numbers DEF IInv
<1>2. CASE Len(log[r]) = 0
  BY <1>1, <1>2
<1>3. CASE Len(log[r]) # 0
  <2>1. Len(log[r]) \in DOMAIN log[r] /\ Len(log[r]) \in Nat
    BY <1>3, LogEntries
  <2>2. Len(log[r]) - 1 < next[n]
    BY <2>1, LogEntries
  <2> QED
    BY <1>1, <2>1, <2>2
<1> QED
  BY <1>2, <1>3

(* A decided batch holds what was proposed in its step.                     *)
LEMMA InvIntegrity == IInv => Integrity
BY LogEntries DEF Integrity

(* Earlier messages were proposed in earlier steps, which are in the log.   *)
LEMMA InvOrder == IInv => SenderOrder
<1> SUFFICES ASSUME IInv, NEW r \in Node, NEW n \in Node, NEW p \in DOMAIN log[r],
                    NEW j \in DOMAIN started[n], <<n, j>> \in log[r][p],
                    NEW i \in 1 .. j - 1
             PROVE  \E q \in 1 .. p - 1 : <<n, i>> \in log[r][q]
  BY DEF SenderOrder
<1>0. TypeOK
  BY DEF IInv
<1>1. <<n, j>> \in Proposed(p - 1)
  BY LogEntries
<1>2. started[n][j] = p - 1
  BY <1>1 DEF Proposed
<1>3. started[n] \in Seq(Step)
  BY <1>0, Numbers
<1>4. i \in DOMAIN started[n] /\ i < j
  BY <1>3
<1>5. started[n][i] < started[n][j] /\ started[n][i] \in Nat
  BY <1>0, <1>4, Numbers DEF IInv, StartedInOrder
<1>6. p \in 1 .. Len(log[r]) /\ Len(log[r]) \in Nat
  BY LogEntries
<1> DEFINE q == started[n][i] + 1
<1>7. q \in 1 .. p - 1 /\ q \in 1 .. Len(log[r]) /\ q - 1 = started[n][i]
  BY <1>2, <1>5, <1>6
<1>8. log[r][q] = Proposed(started[n][i])
  BY <1>7, LogEntries
<1>9. <<n, i>> \in Proposed(started[n][i])
  BY <1>4, ProposedDef
<1> QED
  BY <1>7, <1>8, <1>9

(* As long as no timer expires, whoever dies and however messages are      *)
(* delayed: any two processes executed the same batches, ...               *)
THEOREM QuietAgreement == SpecQuiet => []UniformAgreement
BY Invariance, InvAgreement, PTL

(* ... the messages of a process in its order and with no gap, ...         *)
THEOREM QuietOrder == SpecQuiet => []SenderOrder
BY Invariance, InvOrder, PTL

(* ... in the step each was proposed in, thus never twice, ...             *)
THEOREM QuietIntegrity == SpecQuiet => []Integrity
BY Invariance, InvIntegrity, PTL

(* ... and no step that was executed anywhere is open to a new proposal.   *)
THEOREM QuietClosed == SpecQuiet => []StepClosed
BY Invariance, InvClosed, PTL

-----------------------------------------------------------------------------
Extends(n) ==
  /\ \A m \in Node \ {n} : log'[m] = log[m]
  /\ Len(log'[n]) > Len(log[n])
  /\ SubSeq(log'[n], 1, Len(log[n])) = log[n]

(* complete() leaves the log alone or appends to that of its process.      *)
LEMMA CompleteExtends ==
  ASSUME TypeOK, TypeOK', NEW n \in Node, NEW s \in Step, NEW v \in [Step -> Object],
         NEW t, Complete(n, s, v, t)
  PROVE  UNCHANGED log \/ Extends(n)
<1>1. CASE UNCHANGED log
  BY <1>1
<1>2. CASE ~UNCHANGED log
  <2>1. PICK k \in s + 1 .. next'[n] :
          log' = [log EXCEPT ![n] = @ \o Batches(k, s, v)]
    BY <1>2 DEF Complete
  <2> DEFINE b == Batches(k, s, v)
  <2>2. k \in s + 1 .. MaxStep /\ s \in Nat /\ k \in Nat
    BY VotingAssumption DEF TypeOK, Step
  <2>3. b \in Seq(Batch) /\ Len(b) = k - s /\ k - s \in Nat /\ k - s > 0
    <3>1. b \in Seq(Batch) /\ Len(b) = k - s
      BY <2>2, BatchesType
    <3>2. k - s \in Nat /\ k - s > 0
      BY <2>2
    <3> QED
      BY <3>1, <3>2
  <2> HIDE DEF b
  <2>4. /\ log[n] \in Seq(Batch)
        /\ log'[n] = log[n] \o b
        /\ \A m \in Node \ {n} : log'[m] = log[m]
    BY <2>1 DEF TypeOK, b
  <2>5. Len(log'[n]) = Len(log[n]) + Len(b) /\ Len(log[n]) \in Nat
    <3>1. Len(log[n]) \in Nat
      BY <2>4
    <3>2. Len(log[n] \o b) = Len(log[n]) + Len(b)
      BY <2>3, <2>4, ConcatProperties
    <3> QED
      BY <2>4, <3>1, <3>2
  <2>6. SubSeq(log[n] \o b, 1, Len(log[n])) = log[n]
    BY <2>3, <2>4
  <2> QED
    BY <2>3, <2>4, <2>5, <2>6 DEF Extends
<1> QED
  BY <1>1, <1>2

(* So does commit(), ...                                                   *)
LEMMA CommitExtends ==
  ASSUME TypeOK, TypeOK', NEW n \in Node, NEW s \in Step, NEW w \in Object,
         NEW batch \in Batch, NEW c, NEW t, Commit(n, s, w, batch, c, t)
  PROVE  UNCHANGED log \/ Extends(n)
<1> DEFINE v == [voting[n] EXCEPT ![s] = InState("Completed", w, batch)]
<1>1. v \in [Step -> Object]
  <2>1. InState("Completed", w, batch) \in Object
    BY DEF InState, Object
  <2> QED
    BY <2>1 DEF TypeOK
<1>2. Complete(n, s, v, t)
  BY DEF Commit
<1> QED
  BY <1>1, <1>2, CompleteExtends

(* So do all steps, and only a proposal submits a message, a new one.      *)
LEMMA StepExtends ==
  ASSUME IInv, IInv', [Quiet]_vars
  PROVE  /\ UNCHANGED log \/ \E n \in Node : Extends(n)
         /\ UNCHANGED Submitted \/ \E x \in Submitted' :
              x \notin Submitted /\ Submitted' = Submitted \cup {x}
<1>0. TypeOK /\ TypeOK'
  BY DEF IInv
<1>1. ASSUME NEW n \in Node, NEW s \in Step, NEW carries \in Batch,
             NEW src \in Node, NEW nodes \in SUBSET Node, NEW c, NEW t,
             Vote(n, s, carries, src, nodes, c, t)
      PROVE  UNCHANGED log \/ Extends(n)
  <2> DEFINE w == Merged(voting[n][s], n, carries, src, nodes)
  <2>1. w \in Object
    <3>1. voting[n][s] \in Object
      BY <1>0 DEF TypeOK
    <3> QED
      BY <3>1, MergedType
  <2>2. w.carries \in Batch
    BY <2>1 DEF Object
  <2>3. CASE Commit(n, s, w, w.carries, c, t)
    BY <1>0, <2>1, <2>2, <2>3, CommitExtends
  <2> QED
    BY <1>1, <2>3 DEF Vote
<1>2. ASSUME NEW n \in Node, Apply(n)
      PROVE  /\ UNCHANGED log \/ Extends(n)
             /\ \E x \in Submitted' :
                  x \notin Submitted /\ Submitted' = Submitted \cup {x}
  <2> DEFINE s == next[n]
             k == Len(started[n]) + 1
             x == <<n, k>>
  <2>1. s \in Step
    BY <1>0, <1>2, VotingAssumption DEF Apply, TypeOK, Step
  <2>2. {x} \in Batch
    BY <1>0, <2>1, ProposalType
  <2>3. UNCHANGED log \/ Extends(n)
    <3>1. Vote(n, s, {x}, n, Node, chan, [timer EXCEPT ![n][s] = "armed"])
      BY <1>2 DEF Apply
    <3> QED
      BY <1>1, <2>1, <2>2, <3>1
  <2>4. started[n] \in Seq(Step) /\ started'[n] = Append(started[n], s)
        /\ \A m \in Node \ {n} : started'[m] = started[m]
    BY <1>0, <1>2 DEF Apply, TypeOK
  <2>5. DOMAIN started'[n] = DOMAIN started[n] \cup {k} /\ k \notin DOMAIN started[n]
    <3>1. Len(started[n]) \in Nat /\ DOMAIN started[n] = 1 .. Len(started[n])
          /\ DOMAIN started'[n] = 1 .. Len(started[n]) + 1
      BY <2>1, <2>4
    <3> QED
      BY <3>1
  <2>6. x \in Submitted' /\ x \notin Submitted /\ Submitted' = Submitted \cup {x}
    BY <2>4, <2>5 DEF Submitted
  <2> QED
    BY <2>3, <2>6
<1>3. ASSUME NEW m \in Node, NEW n \in Node, RecvVote(m, n)
      PROVE  (UNCHANGED log \/ Extends(n)) /\ UNCHANGED started
  <2> DEFINE msg == Head(chan[m][n])
  <2>1. msg \in Message
    BY <1>0, <1>3, PoppedType DEF RecvVote
  <2>2. msg.step \in Step /\ msg.carries \in Batch /\ msg.nodes \in SUBSET Node
    BY <2>1 DEF Message
  <2>3. Vote(n, msg.step, msg.carries, m, msg.nodes, Popped(m, n), timer)
        /\ UNCHANGED started
    BY <1>3 DEF RecvVote
  <2> QED
    BY <1>1, <2>2, <2>3
<1>4. ASSUME NEW m \in Node, NEW n \in Node, RecvCommit(m, n)
      PROVE  (UNCHANGED log \/ Extends(n)) /\ UNCHANGED started
  <2> DEFINE msg == Head(chan[m][n])
             w == voting[n][msg.step]
  <2>1. msg \in Message
    BY <1>0, <1>4, PoppedType DEF RecvCommit
  <2>2. msg.step \in Step /\ msg.carries \in Batch
    BY <2>1 DEF Message
  <2>3. w \in Object
    BY <1>0, <2>2 DEF TypeOK
  <2>4. CASE Commit(n, msg.step, w, msg.carries, Popped(m, n), timer)
    BY <1>0, <1>4, <2>2, <2>3, <2>4, CommitExtends DEF RecvCommit
  <2> QED
    BY <1>4, <2>4 DEF RecvCommit
<1>5. ASSUME NEW n \in Node, Crash(n)
      PROVE  UNCHANGED <<log, started>>
  BY <1>5 DEF Crash
<1>6. ASSUME NEW m \in Node, NEW n \in Node, RecvStale(m, n)
      PROVE  UNCHANGED <<log, started>>
  BY <1>6 DEF RecvStale
<1>7. CASE UNCHANGED vars
  BY <1>7 DEF vars, Submitted
<1>8. ASSUME UNCHANGED started
      PROVE  UNCHANGED Submitted
  BY <1>8 DEF Submitted
<1> QED
  BY <1>2, <1>3, <1>4, <1>5, <1>6, <1>7, <1>8 DEF Quiet

(* An appended log entry is what AtomicBroadcast allows to be executed.    *)
LEMMA ExtendsExecutes ==
  ASSUME IInv, IInv', NEW n \in Node, Extends(n)
  PROVE  Abstract!Execute(n)
<1>1. \A m \in Node : /\ log'[m] \in Seq(Batch) /\ Len(log'[m]) \in Nat
                      /\ DOMAIN log'[m] = 1 .. Len(log'[m])
                      /\ \A i \in DOMAIN log'[m] : log'[m][i] = ProposedLater(i - 1)
  <2> TAKE m \in Node
  <2>1. log'[m] \in Seq(Batch)
    BY DEF IInv, TypeOK
  <2>2. \A i \in DOMAIN log'[m] : log'[m][i] = ProposedLater(i - 1)
    BY DEF IInv, LogOK, Decided, Proposed, ProposedLater, Submitted
  <2> QED
    BY <2>1, <2>2
<1>2. Len(log[n]) \in Nat
  BY LogEntries
<1>3. ASSUME NEW i \in Len(log[n]) + 1 .. Len(log'[n])
      PROVE  /\ log'[n][i] \subseteq Submitted'
             /\ \A j \in 1 .. i - 1 : log'[n][i] \cap log'[n][j] = {}
             /\ \A q \in Node : i <= Len(log[q]) => log'[n][i] = log[q][i]
  <2>0. i \in DOMAIN log'[n] /\ i \in Nat /\ ~(i <= Len(log[n])) /\ i >= 1
    BY <1>1, <1>2
  <2>1. log'[n][i] = ProposedLater(i - 1)
    BY <1>1, <2>0
  <2>2. log'[n][i] \subseteq Submitted'
    BY <2>1 DEF ProposedLater, Submitted
  <2>3. ASSUME NEW j \in 1 .. i - 1
        PROVE  log'[n][i] \cap log'[n][j] = {}
    <3>1. j \in DOMAIN log'[n] /\ j - 1 # i - 1
      BY <1>1, <2>0
    <3>2. log'[n][j] = ProposedLater(j - 1)
      BY <1>1, <3>1
    <3> QED
      BY <2>1, <3>1, <3>2 DEF ProposedLater
  <2>4. ASSUME NEW q \in Node, i <= Len(log[q])
        PROVE  log'[n][i] = log[q][i]
    <3>1. q # n
      BY <2>0, <2>4
    <3>2. log'[q] = log[q]
      BY <3>1 DEF Extends
    <3>3. i \in DOMAIN log'[q]
      BY <1>1, <2>0, <2>4, <3>2
    <3> QED
      BY <1>1, <2>1, <3>2, <3>3
  <2> QED
    BY <2>2, <2>3, <2>4
<1> QED
  BY <1>3 DEF Extends, Abstract!Execute

(* As long as no timer expires, the protocol does what replobApply()       *)
(* promises: it implements AtomicBroadcast.                                *)
THEOREM Refinement == SpecQuiet => Refines
<1>1. Init => Abstract!Init
  BY DEF Init, Abstract!Init, Submitted
<1>2. IInv /\ IInv' /\ [Quiet]_vars => [Abstract!Next]_(Abstract!abVars)
  <2> SUFFICES ASSUME IInv, IInv', [Quiet]_vars
               PROVE  Abstract!Next
    OBVIOUS
  <2>1. UNCHANGED log \/ \E n \in Node : Abstract!Execute(n)
    BY StepExtends, ExtendsExecutes
  <2>2. UNCHANGED Submitted \/ Abstract!Submit
    BY StepExtends DEF Abstract!Submit
  <2> QED
    BY <2>1, <2>2 DEF Abstract!Next
<1> QED
  BY <1>1, <1>2, Invariance, PTL DEF SpecQuiet, Refines, Abstract!Spec

-----------------------------------------------------------------------------
(* The whole protocol, timeouts included.  TimedInv read after a step, of  *)
(* things known before it.                                                 *)
PassedLater(s) == \A n \in Node : Alive(n)' => s < next'[n]

FitsLater(w, s) ==
  /\ w.carries \subseteq ProposedLater(s)
  /\ Trusted => /\ \A m \in w.voted : s < next'[m]
                /\ Shrunk(w.nodes) \/ w.state = "Completed" => PassedLater(s)

LetterLater(m, msg) ==
  /\ msg.carries \subseteq ProposedLater(msg.step)
  /\ Trusted => /\ msg.step < next'[m]
                /\ Shrunk(msg.nodes) \/ msg.type = "commit" => PassedLater(msg.step)

LettersLater(c) ==
  \A m, k \in Node : \A i \in DOMAIN c[m][k] : LetterLater(m, c[m][k][i])

ToldLater(p, s, c) ==
  \A q \in Node \ {p} : Alive(q)' =>
    s < next'[q] \/ \E i \in DOMAIN c[p][q] : c[p][q][i].step = s

TimersLater(t, c) ==
  \A p \in Node : \A s \in Step : Alive(p)' =>
    /\ t[p][s] # "off" => s < next'[p]
    /\ Trusted /\ t[p][s] = "armed" => ToldLater(p, s, c)
    /\ Trusted /\ t[p][s] = "queued" => PassedLater(s)

(* What no step undoes: step ids grow, proposals stay, and the dead stay   *)
(* dead.                                                                   *)
Forward ==
  /\ \A m \in Node : next[m] <= next'[m]
  /\ \A m \in Node : Alive(m)' => Alive(m)
  /\ \A m \in Node : \A k \in DOMAIN started[m] :
       k \in DOMAIN started'[m] /\ started'[m][k] = started[m][k]

(* A step that nobody can propose in any more stays one.                   *)
LEMMA PassedStays ==
  ASSUME TypeOK, TypeOK', Forward, NEW s \in Nat, Passed(s)
  PROVE  PassedLater(s)
<1> SUFFICES ASSUME NEW n \in Node, Alive(n)'
             PROVE  s < next'[n]
  BY DEF PassedLater
<1>1. next[n] \in Nat /\ next'[n] \in Nat
  BY DEF TypeOK
<1>2. s < next[n] /\ next[n] <= next'[n]
  BY DEF Passed, Forward
<1> QED
  BY <1>1, <1>2

(* What was proposed in a step stays so.                                   *)
LEMMA ProposalsStay ==
  ASSUME Forward, NEW s
  PROVE  Proposed(s) \subseteq ProposedLater(s)
BY ProposedDef DEF Forward

(* What the invariant says of objects, messages, logs and timers stays so. *)
LEMMA FitStays ==
  ASSUME TimedInv, TypeOK', Forward
  PROVE  /\ \A m \in Node : \A r \in Step : FitsLater(voting[m][r], r)
         /\ LettersLater(chan)
         /\ \A m \in Node : \A i \in DOMAIN log[m] :
              /\ log[m][i] \subseteq ProposedLater(i - 1)
              /\ Trusted => PassedLater(i - 1)
         /\ TimersLater(timer, chan)
<1>0. TypeOK
  BY DEF TimedInv
<1>1. \A m \in Node : next[m] \in Nat /\ next'[m] \in Nat /\ next[m] <= next'[m]
  BY <1>0 DEF TypeOK, Forward
<1>2. \A r \in Step : r \in Nat
  BY VotingAssumption DEF Step
<1>3. ASSUME NEW m \in Node, NEW r \in Step
      PROVE  FitsLater(voting[m][r], r)
  <2> DEFINE w == voting[m][r]
  <2>1. ObjectFits(w, r) /\ w.voted \subseteq Node
    BY <1>0 DEF TimedInv, ObjectsFit, TypeOK, Object
  <2>2. w.carries \subseteq ProposedLater(r)
    BY <2>1, ProposalsStay DEF ObjectFits
  <2>3. Trusted => \A k \in w.voted : r < next'[k]
    BY <1>1, <1>2, <2>1 DEF ObjectFits
  <2>4. Trusted /\ (Shrunk(w.nodes) \/ w.state = "Completed") => PassedLater(r)
    BY <1>0, <1>2, <2>1, PassedStays DEF ObjectFits
  <2> QED
    BY <2>2, <2>3, <2>4 DEF FitsLater
<1>4. ASSUME NEW m \in Node, NEW k \in Node, NEW i \in DOMAIN chan[m][k]
      PROVE  LetterLater(m, chan[m][k][i])
  <2> DEFINE msg == chan[m][k][i]
  <2>1. MessageFits(m, msg)
    BY DEF TimedInv, MessagesFit
  <2>2. chan[m][k] \in Seq(Message)
    BY <1>0 DEF TypeOK
  <2>3. msg \in Message
    BY <2>2
  <2>4. msg.step \in Nat
    BY <1>2, <2>3 DEF Message
  <2>5. msg.carries \subseteq ProposedLater(msg.step)
    BY <2>1, ProposalsStay DEF MessageFits
  <2>6. Trusted => msg.step < next'[m]
    BY <1>1, <2>1, <2>4 DEF MessageFits
  <2>7. Trusted /\ (Shrunk(msg.nodes) \/ msg.type = "commit") => PassedLater(msg.step)
    BY <1>0, <2>1, <2>4, PassedStays DEF MessageFits
  <2> QED
    BY <2>5, <2>6, <2>7 DEF LetterLater
<1>5. ASSUME NEW m \in Node, NEW i \in DOMAIN log[m]
      PROVE  /\ log[m][i] \subseteq ProposedLater(i - 1)
             /\ Trusted => PassedLater(i - 1)
  <2>1. log[m] \in Seq(Batch)
    BY <1>0 DEF TypeOK
  <2>2. i - 1 \in Nat
    BY <2>1
  <2>3. log[m][i] \subseteq Proposed(i - 1) /\ (Trusted => Passed(i - 1))
    BY DEF TimedInv, LogsFit
  <2> QED
    BY <1>0, <2>2, <2>3, PassedStays, ProposalsStay
<1>6. ASSUME NEW p \in Node, NEW s \in Step, Alive(p)'
      PROVE  /\ timer[p][s] # "off" => s < next'[p]
             /\ Trusted /\ timer[p][s] = "armed" => ToldLater(p, s, chan)
             /\ Trusted /\ timer[p][s] = "queued" => PassedLater(s)
  <2>1. /\ timer[p][s] # "off" => s < next[p]
        /\ Trusted /\ timer[p][s] = "armed" => Told(p, s)
        /\ Trusted /\ timer[p][s] = "queued" => Passed(s)
    BY <1>6 DEF TimedInv, TimersFit, Forward
  <2>2. timer[p][s] # "off" => s < next'[p]
    BY <1>1, <1>2, <2>1
  <2>3. ASSUME Told(p, s)
        PROVE  ToldLater(p, s, chan)
    <3> SUFFICES ASSUME NEW q \in Node \ {p}, Alive(q)'
                 PROVE  s < next'[q] \/ \E i \in DOMAIN chan[p][q] : chan[p][q][i].step = s
      BY DEF ToldLater
    <3>1. Alive(q)
      BY DEF Forward
    <3>2. s < next[q] \/ \E i \in DOMAIN chan[p][q] : chan[p][q][i].step = s
      BY <2>3, <3>1 DEF Told
    <3> QED
      BY <1>1, <1>2, <3>2
  <2>4. Passed(s) => PassedLater(s)
    BY <1>0, <1>2, PassedStays
  <2> QED
    BY <2>1, <2>2, <2>3, <2>4
<1> QED
  BY <1>3, <1>4, <1>5, <1>6 DEF LettersLater, TimersLater

(* Read of the state after the step, they are the parts of the invariant.  *)
LEMMA FitMeans ==
  /\ (\A m \in Node : \A r \in Step : FitsLater(voting'[m][r], r)) => ObjectsFit'
  /\ LettersLater(chan') => MessagesFit'
  /\ (\A m \in Node : \A i \in DOMAIN log'[m] :
        /\ log'[m][i] \subseteq ProposedLater(i - 1)
        /\ Trusted => PassedLater(i - 1)) => LogsFit'
  /\ TimersLater(timer', chan') => TimersFit'
<1>1. \A s : PassedLater(s) <=> Passed(s)'
  BY DEF PassedLater, Passed
<1>2. \A s : ProposedLater(s) = Proposed(s)'
  BY DEF ProposedLater, Proposed, Submitted
<1>3. ASSUME \A m \in Node : \A r \in Step : FitsLater(voting'[m][r], r)
      PROVE  ObjectsFit'
  BY <1>1, <1>2, <1>3 DEF FitsLater, ObjectsFit, ObjectFits, Trusted
<1>4. ASSUME LettersLater(chan')
      PROVE  MessagesFit'
  BY <1>1, <1>2, <1>4 DEF LettersLater, LetterLater, MessagesFit, MessageFits, Trusted
<1>5. ASSUME \A m \in Node : \A i \in DOMAIN log'[m] :
               /\ log'[m][i] \subseteq ProposedLater(i - 1)
               /\ Trusted => PassedLater(i - 1)
      PROVE  LogsFit'
  BY <1>1, <1>2, <1>5 DEF LogsFit, Trusted
<1>6. ASSUME TimersLater(timer', chan')
      PROVE  TimersFit'
  BY <1>1, <1>6 DEF TimersLater, TimersFit, ToldLater, Told, Trusted
<1> QED
  BY <1>3, <1>4, <1>5, <1>6

(* Sending a message that fits keeps the channels in order, and it takes   *)
(* nothing from anybody.                                                   *)
LEMMA BroadcastFits ==
  ASSUME NEW c \in Chans, LettersLater(c), NEW n \in Node,
         NEW msg \in Message, LetterLater(n, msg)
  PROVE  LettersLater(Broadcast(c, n, msg))
<1> DEFINE d == Broadcast(c, n, msg)
<1> SUFFICES ASSUME NEW m \in Node, NEW k \in Node, NEW i \in DOMAIN d[m][k]
             PROVE  LetterLater(m, d[m][k][i])
  BY DEF LettersLater
<1>1. c[m][k] \in Seq(Message)
  BY DEF Chans
<1>2. CASE d[m][k] = c[m][k]
  BY <1>2 DEF LettersLater
<1>3. CASE m = n /\ d[m][k] = Append(c[n][k], msg)
  <2>1. i \in 1 .. Len(c[n][k]) + 1
    BY <1>1, <1>3
  <2>2. CASE i = Len(c[n][k]) + 1
    BY <1>1, <1>3, <2>2
  <2>3. CASE i \in 1 .. Len(c[n][k])
    BY <1>1, <1>3, <2>3 DEF LettersLater
  <2> QED
    BY <1>1, <2>1, <2>2, <2>3
<1>4. d[m][k] = c[m][k] \/ (m = n /\ d[m][k] = Append(c[n][k], msg))
  BY DEF Broadcast, Chans
<1> QED
  BY <1>2, <1>3, <1>4

(* Every other process that is still there has the message on its way.     *)
LEMMA BroadcastTells ==
  ASSUME NEW c \in Chans, NEW n \in Node, NEW msg \in Message
  PROVE  /\ \A p, q \in Node : \A i \in DOMAIN c[p][q] :
              /\ i \in DOMAIN Broadcast(c, n, msg)[p][q]
              /\ Broadcast(c, n, msg)[p][q][i] = c[p][q][i]
         /\ \A q \in Node \ {n} : mode[q] # "crashed" =>
              \E i \in DOMAIN Broadcast(c, n, msg)[n][q] :
                Broadcast(c, n, msg)[n][q][i] = msg
<1> DEFINE d == Broadcast(c, n, msg)
<1>1. ASSUME NEW p \in Node, NEW q \in Node
      PROVE  /\ c[p][q] \in Seq(Message)
             /\ d[p][q] = c[p][q] \/ (p = n /\ d[p][q] = Append(c[n][q], msg))
             /\ p = n /\ q # n /\ mode[q] # "crashed" => d[p][q] = Append(c[n][q], msg)
  BY DEF Broadcast, Chans
<1> HIDE DEF d
<1>2. ASSUME NEW q \in Node
      PROVE  /\ \A i \in DOMAIN c[n][q] :
                  /\ i \in DOMAIN Append(c[n][q], msg)
                  /\ Append(c[n][q], msg)[i] = c[n][q][i]
             /\ Len(c[n][q]) + 1 \in DOMAIN Append(c[n][q], msg)
             /\ Append(c[n][q], msg)[Len(c[n][q]) + 1] = msg
  BY <1>1
<1>3. \A p, q \in Node : \A i \in DOMAIN c[p][q] :
        i \in DOMAIN d[p][q] /\ d[p][q][i] = c[p][q][i]
  BY <1>1, <1>2
<1>4. \A q \in Node \ {n} : mode[q] # "crashed" => \E i \in DOMAIN d[n][q] : d[n][q][i] = msg
  BY <1>1, <1>2
<1> QED
  BY <1>3, <1>4 DEF d

(* Timers that were there, or have been cancelled, over channels that lost *)
(* no message.                                                             *)
LEMMA TimersKeep ==
  ASSUME NEW t \in Timers, NEW u \in Timers, NEW c \in Chans, NEW d \in Chans,
         TimersLater(t, c),
         \A p \in Node : \A s \in Step : u[p][s] \in {t[p][s], "off"},
         \A p, q \in Node : \A i \in DOMAIN c[p][q] :
           i \in DOMAIN d[p][q] /\ d[p][q][i] = c[p][q][i]
  PROVE  TimersLater(u, d)
<1> SUFFICES ASSUME NEW p \in Node, NEW s \in Step, Alive(p)'
             PROVE  /\ u[p][s] # "off" => s < next'[p]
                    /\ Trusted /\ u[p][s] = "armed" => ToldLater(p, s, d)
                    /\ Trusted /\ u[p][s] = "queued" => PassedLater(s)
  BY DEF TimersLater
<1>1. u[p][s] = t[p][s] \/ u[p][s] = "off"
  OBVIOUS
<1>2. /\ t[p][s] # "off" => s < next'[p]
      /\ Trusted /\ t[p][s] = "armed" => ToldLater(p, s, c)
      /\ Trusted /\ t[p][s] = "queued" => PassedLater(s)
  BY DEF TimersLater
<1>3. ASSUME ToldLater(p, s, c)
      PROVE  ToldLater(p, s, d)
  <2> SUFFICES ASSUME NEW q \in Node \ {p}, Alive(q)'
               PROVE  s < next'[q] \/ \E i \in DOMAIN d[p][q] : d[p][q][i].step = s
    BY DEF ToldLater
  <2>1. s < next'[q] \/ \E i \in DOMAIN c[p][q] : c[p][q][i].step = s
    BY <1>3 DEF ToldLater
  <2>2. ASSUME NEW i \in DOMAIN c[p][q], c[p][q][i].step = s
        PROVE  i \in DOMAIN d[p][q] /\ d[p][q][i].step = s
    BY <2>2
  <2> QED
    BY <2>1, <2>2
<1> QED
  BY <1>1, <1>2, <1>3

(* A message that was read fits; those behind it still do, and who read it *)
(* has passed its step, or had before, or reads no more.                   *)
LEMMA PoppedFits ==
  ASSUME TypeOK, LettersLater(chan), TimersLater(timer, chan),
         NEW m \in Node, NEW n \in Node, Receives(m, n),
         Alive(n)' => Head(chan[m][n]).step < next'[n]
  PROVE  /\ LettersLater(Popped(m, n))
         /\ LetterLater(m, Head(chan[m][n]))
         /\ TimersLater(timer, Popped(m, n))
<1> DEFINE c == Popped(m, n)
<1>1. chan[m][n] \in Seq(Message) /\ chan[m][n] # <<>>
  BY DEF TypeOK, Receives
<1>2. LetterLater(m, Head(chan[m][n]))
  <2>1. 1 \in DOMAIN chan[m][n] /\ Head(chan[m][n]) = chan[m][n][1]
    BY <1>1
  <2> QED
    BY <2>1 DEF LettersLater
<1>3. ASSUME NEW a \in Node, NEW b \in Node
      PROVE  c[a][b] = IF a = m /\ b = n THEN Tail(chan[m][n]) ELSE chan[a][b]
  BY DEF Popped, TypeOK
<1>4. ASSUME NEW i \in DOMAIN Tail(chan[m][n])
      PROVE  i + 1 \in DOMAIN chan[m][n] /\ Tail(chan[m][n])[i] = chan[m][n][i + 1]
  BY <1>1
<1>5. ASSUME NEW i \in DOMAIN chan[m][n], i # 1
      PROVE  i - 1 \in DOMAIN Tail(chan[m][n]) /\ Tail(chan[m][n])[i - 1] = chan[m][n][i]
  BY <1>1, <1>5
<1> HIDE DEF c
<1>6. LettersLater(c)
  <2> SUFFICES ASSUME NEW a \in Node, NEW b \in Node, NEW i \in DOMAIN c[a][b]
               PROVE  LetterLater(a, c[a][b][i])
    BY DEF LettersLater
  <2>1. CASE a = m /\ b = n
    BY ZenonT(60), <1>3, <1>4, <2>1 DEF LettersLater
  <2>2. CASE ~(a = m /\ b = n)
    BY <1>3, <2>2 DEF LettersLater
  <2> QED
    BY <2>1, <2>2
<1>7. TimersLater(timer, c)
  <2>1. ASSUME NEW p \in Node, NEW s \in Step, ToldLater(p, s, chan)
        PROVE  ToldLater(p, s, c)
    <3> SUFFICES ASSUME NEW q \in Node \ {p}, Alive(q)'
                 PROVE  s < next'[q] \/ \E i \in DOMAIN c[p][q] : c[p][q][i].step = s
      BY DEF ToldLater
    <3>1. CASE s < next'[q]
      BY <3>1
    <3>2. ASSUME NEW i \in DOMAIN chan[p][q], chan[p][q][i].step = s
          PROVE  s < next'[q] \/ \E j \in DOMAIN c[p][q] : c[p][q][j].step = s
      <4>1. CASE p = m /\ q = n /\ i = 1
        <5>1. Head(chan[m][n]).step = s
          BY <1>1, <3>2, <4>1
        <5> QED
          BY <4>1, <5>1
      <4>2. CASE p = m /\ q = n /\ i # 1
        <5>1. i - 1 \in DOMAIN c[p][q] /\ c[p][q][i - 1] = chan[p][q][i]
          BY <1>3, <1>5, <3>2, <4>2
        <5> QED
          BY <3>2, <5>1
      <4>3. CASE ~(p = m /\ q = n)
        BY <1>3, <3>2, <4>3
      <4> QED
        BY <4>1, <4>2, <4>3
    <3> QED
      BY <2>1, <3>1, <3>2 DEF ToldLater
  <2> QED
    BY <2>1 DEF TimersLater
<1> QED
  BY <1>2, <1>6, <1>7 DEF c

(* complete() of a step of a table whose objects all fit: what it executes *)
(* is where it belongs, what it leaves waits for an undecided step.        *)
LEMMA CompleteFits ==
  ASSUME TimedInv, TypeOK', Forward, NEW n \in Node, NEW s \in Step,
         Alive(n), UNCHANGED mode, s >= current[n], s < next'[n],
         NEW v \in [Step -> Object], NEW t \in Timers,
         \A r \in Step : FitsLater(v[r], r),
         \A r \in Step : r # s => v[r] = voting[n][r],
         v[s].state = "Completed",
         Complete(n, s, v, t)
  PROVE  /\ (Within /\ NothingHeldBack /\ ObjectsFit /\ LogsFit)'
         /\ \A p \in Node : \A r \in Step : timer'[p][r] \in {t[p][r], "off"}
<1>0. TypeOK /\ Within /\ NothingHeldBack
  BY DEF TimedInv
<1>1. /\ \A m \in Node : \A r \in Step : FitsLater(voting[m][r], r)
      /\ \A m \in Node : \A i \in DOMAIN log[m] :
           /\ log[m][i] \subseteq ProposedLater(i - 1)
           /\ Trusted => PassedLater(i - 1)
  BY FitStays
<1>2. /\ \A m \in Node : /\ current[m] \in Nat /\ next[m] \in Nat /\ next'[m] \in Nat
                         /\ next[m] <= next'[m] /\ log[m] \in Seq(Batch)
                         /\ Alive(m)' <=> Alive(m)
      /\ \A r \in Step : r \in Nat
      /\ s \in Nat
  BY <1>0, VotingAssumption DEF TypeOK, Step, Forward, Alive
<1>3. Len(log[n]) = current[n] /\ current[n] <= next[n] /\ mode[n] # "closed"
  BY <1>0 DEF Within, Alive
<1>4. \A r \in Step : v[r] # Fresh => current[n] <= r /\ r < next'[n]
  BY <1>0, <1>2 DEF Within
<1>5. CASE /\ s # current[n]
           /\ voting' = [voting EXCEPT ![n] = v]
           /\ timer' = t
           /\ UNCHANGED <<current, log>>
  <2>1. \A m \in Node : voting'[m] = IF m = n THEN v ELSE voting[m]
    BY <1>0, <1>5 DEF TypeOK
  <2>2. ObjectsFit'
    BY <1>1, <2>1, FitMeans
  <2>3. LogsFit'
    BY <1>1, <1>5, FitMeans
  <2>4. Within'
    <3> SUFFICES ASSUME NEW m \in Node
                 PROVE  /\ Alive(m)' => Len(log[m]) = current[m] /\ current[m] <= next'[m]
                        /\ mode'[m] = "closed" => current[m] = MaxStep
                        /\ \A r \in Step :
                             voting'[m][r] # Fresh => current[m] <= r /\ r < next'[m]
      BY <1>5 DEF Within
    <3>1. Alive(m)' => Len(log[m]) = current[m] /\ current[m] <= next'[m]
      BY <1>0, <1>2 DEF Within
    <3>2. mode'[m] = "closed" => current[m] = MaxStep
      BY <1>0 DEF Within
    <3>3. \A r \in Step : voting'[m][r] # Fresh => current[m] <= r /\ r < next'[m]
      BY <1>0, <1>2, <1>4, <2>1 DEF Within
    <3> QED
      BY <3>1, <3>2, <3>3
  <2>5. NothingHeldBack'
    <3>1. ASSUME NEW m \in Node, NEW r \in Step, voting'[m][r].state = "Completed"
          PROVE  r > current[m]
      <4>1. CASE m = n /\ r = s
        BY <1>2, <1>5, <4>1
      <4>2. CASE ~(m = n /\ r = s)
        <5>1. voting[m][r].state = "Completed"
          BY <2>1, <3>1, <4>2
        <5> QED
          BY <1>0, <5>1 DEF NothingHeldBack
      <4> QED
        BY <4>1, <4>2
    <3> QED
      BY <1>5, <3>1 DEF NothingHeldBack
  <2>6. \A p \in Node : \A r \in Step : timer'[p][r] \in {t[p][r], "off"}
    BY <1>5
  <2> QED
    BY <2>2, <2>3, <2>4, <2>5, <2>6
<1>6. CASE s = current[n] /\ ~(s # current[n])
  <2>1. PICK k \in s + 1 .. next'[n] :
          /\ RunsUpTo(k, s, v, next'[n])
          /\ current' = [current EXCEPT ![n] = k]
          /\ log' = [log EXCEPT ![n] = @ \o Batches(k, s, v)]
          /\ voting' = [voting EXCEPT ![n] =
                          [i \in Step |-> IF i < k THEN Fresh ELSE v[i]]]
          /\ timer' = [t EXCEPT ![n] =
                         [i \in Step |-> IF i < k /\ t[n][i] = "armed"
                                           THEN "off" ELSE t[n][i]]]
    BY <1>6 DEF Complete
  <2> DEFINE b == Batches(k, s, v)
  <2>2. k \in s + 1 .. MaxStep /\ k \in Nat /\ s < k /\ k <= next'[n]
    BY <1>2, VotingAssumption DEF TypeOK
  <2>3. b \in Seq(Batch) /\ Len(b) = k - s /\ k - s \in Nat
    <3>1. b \in Seq(Batch) /\ Len(b) = k - s
      BY <2>2, BatchesType
    <3>2. k - s \in Nat
      BY <1>2, <2>2
    <3> QED
      BY <3>1, <3>2
  <2>4. /\ \A m \in Node : current'[m] = IF m = n THEN k ELSE current[m]
        /\ \A m \in Node : log'[m] = IF m = n THEN log[n] \o b ELSE log[m]
        /\ \A m \in Node : \A r \in Step :
             voting'[m][r] = IF m = n THEN IF r < k THEN Fresh ELSE v[r]
                                      ELSE voting[m][r]
    BY <1>0, <2>1 DEF TypeOK
  <2>5. ObjectsFit'
    <3>1. \A r \in Step : FitsLater(Fresh, r)
      BY DEF FitsLater, Fresh, Shrunk
    <3> QED
      BY <1>1, <2>4, <3>1, FitMeans
  <2> HIDE DEF b
  <2>6. log[n] \in Seq(Batch) /\ Len(log[n]) = s /\ log'[n] = log[n] \o b
    BY <1>2, <1>3, <1>6, <2>4
  <2>7. Len(log'[n]) = k
    <3>1. Len(log[n] \o b) = Len(log[n]) + Len(b)
      <4>1. log[n] \in Seq(Batch) /\ b \in Seq(Batch)
        BY <2>3, <2>6
      <4> QED
        BY <4>1
    <3>2. Len(log'[n]) = s + (k - s)
      BY <2>3, <2>6, <3>1
    <3> QED
      BY <1>2, <2>2, <3>2
  <2>8. LogsFit'
    <3>1. ASSUME NEW i \in DOMAIN log'[n]
          PROVE  /\ log'[n][i] \subseteq ProposedLater(i - 1)
                 /\ Trusted => PassedLater(i - 1)
      <4>1. i \in 1 .. k
        BY <2>3, <2>6, <2>7
      <4>2. CASE i \in 1 .. s
        <5>1. i \in DOMAIN log[n] /\ log'[n][i] = log[n][i]
          BY <2>3, <2>6, <4>2
        <5> QED
          BY <1>1, <5>1
      <4>3. CASE i \in s + 1 .. k
        <5>1. log'[n][i] = b[i - s]
          BY <1>2, <2>2, <2>3, <2>6, <4>3
        <5>2. b[i - s] = v[s + (i - s) - 1].carries
          <6>1. i - s \in 1 .. k - s
            BY <1>2, <2>2, <4>3
          <6> QED
            BY <2>2, <6>1, BatchesType DEF b
        <5>3. i - 1 \in s .. k - 1 /\ s + (i - s) - 1 = i - 1 /\ i - 1 \in Step
          BY <1>2, <2>2, <4>3, VotingAssumption DEF Step
        <5>4. v[i - 1].state = "Completed"
          BY <2>1, <5>3 DEF RunsUpTo
        <5> QED
          BY <5>1, <5>2, <5>3, <5>4 DEF FitsLater
      <4> QED
        BY <1>2, <2>2, <4>1, <4>2, <4>3
    <3> QED
      BY <1>1, <2>4, <3>1, FitMeans
  <2>9. Within'
    <3> SUFFICES ASSUME NEW m \in Node
                 PROVE  /\ Alive(m)' => Len(log'[m]) = current'[m] /\ current'[m] <= next'[m]
                        /\ mode'[m] = "closed" => current'[m] = MaxStep
                        /\ \A r \in Step :
                             voting'[m][r] # Fresh => current'[m] <= r /\ r < next'[m]
      BY DEF Within
    <3>1. CASE m = n
      <4>1. Len(log'[m]) = current'[m] /\ current'[m] <= next'[m]
        BY <2>2, <2>4, <2>7, <3>1
      <4>2. mode'[m] # "closed"
        BY <1>3, <3>1
      <4>3. ASSUME NEW r \in Step, voting'[m][r] # Fresh
            PROVE  current'[m] <= r /\ r < next'[m]
        <5>1. ~(r < k) /\ v[r] # Fresh
          BY <2>4, <3>1, <4>3
        <5>2. r < next'[n]
          BY <1>4, <5>1
        <5> QED
          BY <1>2, <2>2, <2>4, <3>1, <5>1, <5>2
      <4> QED
        BY <4>1, <4>2, <4>3
    <3>2. CASE m # n
      <4>1. /\ voting'[m] = voting[m] /\ log'[m] = log[m]
            /\ mode'[m] = mode[m] /\ current'[m] = current[m]
        BY SMTT(30), <1>0, <2>4, <3>2 DEF TypeOK
      <4> QED
        BY <1>0, <1>2, <2>4, <3>2, <4>1 DEF Within
    <3> QED
      BY <3>1, <3>2
  <2>10. NothingHeldBack'
    <3> SUFFICES ASSUME NEW m \in Node, NEW r \in Step, voting'[m][r].state = "Completed"
                 PROVE  r > current'[m]
      BY DEF NothingHeldBack
    <3>1. CASE m = n
      <4>1. ~(r < k) /\ v[r].state = "Completed"
        BY <2>4, <3>1 DEF Fresh
      <4>2. v[r] # Fresh
        BY <4>1 DEF Fresh
      <4>3. r < next'[n]
        BY <1>4, <4>2
      <4>4. r # k
        BY <2>1, <4>1, <4>3 DEF RunsUpTo
      <4>5. current'[m] = k /\ r \in Nat
        BY <1>2, <2>4, <3>1
      <4> QED
        BY <2>2, <4>1, <4>4, <4>5
    <3>2. CASE m # n
      BY <1>0, <2>4, <3>2 DEF NothingHeldBack
    <3> QED
      BY <3>1, <3>2
  <2>11. \A p \in Node : \A r \in Step : timer'[p][r] \in {t[p][r], "off"}
    BY <2>1 DEF Timers
  <2> QED
    BY <2>5, <2>8, <2>9, <2>10, <2>11
<1> QED
  BY <1>5, <1>6 DEF Complete

(* What a call of vote() or commit() leaves behind: the tables and logs    *)
(* fit, and a message of its step went to everybody unless it was settled. *)
Handled(s, n, c, t) ==
  /\ (Within /\ NothingHeldBack /\ ObjectsFit /\ MessagesFit /\ LogsFit)'
  /\ \A p \in Node : \A r \in Step : timer'[p][r] \in {t[p][r], "off"}
  /\ \/ chan' = c
     \/ \E msg \in Message : msg.step = s /\ chan' = Broadcast(c, n, msg)

(* commit() of a batch proposed in a step that everybody has passed.       *)
LEMMA CommitFits ==
  ASSUME TimedInv, TypeOK', Forward, NEW n \in Node, NEW s \in Step,
         Alive(n), UNCHANGED mode, s >= current[n], s < next'[n],
         NEW w \in Object, Trusted => \A m \in w.voted : s < next'[m],
         NEW batch \in Batch, batch \subseteq ProposedLater(s),
         Trusted => PassedLater(s),
         NEW c \in Chans, LettersLater(c), NEW t \in Timers,
         Commit(n, s, w, batch, c, t)
  PROVE  /\ Handled(s, n, c, t)
         /\ \E msg \in Message : msg.step = s /\ chan' = Broadcast(c, n, msg)
<1> DEFINE o == InState("Completed", w, batch)
           v == [voting[n] EXCEPT ![s] = o]
           msg == CommitMsg(s, batch)
<1>0. TypeOK
  BY DEF TimedInv
<1>1. /\ o \in Object /\ o.carries = batch /\ o.voted = w.voted
      /\ o.nodes = w.nodes /\ o.state = "Completed"
  BY DEF InState, Object
<1>2. v \in [Step -> Object] /\ v[s] = o /\ \A r \in Step : r # s => v[r] = voting[n][r]
  BY <1>0, <1>1 DEF TypeOK
<1>3. FitsLater(o, s)
  BY <1>1 DEF FitsLater
<1>4. \A r \in Step : FitsLater(v[r], r)
  BY <1>2, <1>3, FitStays
<1>5. Complete(n, s, v, t) /\ chan' = Broadcast(c, n, msg)
  BY DEF Commit
<1>6. /\ (Within /\ NothingHeldBack /\ ObjectsFit /\ LogsFit)'
      /\ \A p \in Node : \A r \in Step : timer'[p][r] \in {t[p][r], "off"}
  <2>1. v[s].state = "Completed"
    BY <1>1, <1>2
  <2> HIDE DEF v
  <2> QED
    BY <1>2, <1>4, <1>5, <2>1, CompleteFits
<1>7. msg \in Message /\ msg.step = s
  BY DEF CommitMsg, Message
<1>8. LetterLater(n, msg)
  BY DEF CommitMsg, LetterLater, Trusted
<1>9. MessagesFit'
  BY <1>5, <1>7, <1>8, BroadcastFits, FitMeans
<1> QED
  BY <1>5, <1>6, <1>7, <1>9 DEF Handled

(* vote() with a vote that fits.                                           *)
LEMMA VoteFits ==
  ASSUME TimedInv, TypeOK', Forward, NEW n \in Node, NEW s \in Step,
         Alive(n), UNCHANGED mode, s >= current[n], s < next'[n],
         NEW carries \in Batch, carries \subseteq ProposedLater(s),
         NEW src \in Node, Trusted => s < next'[src],
         NEW nodes \in SUBSET Node, Trusted /\ Shrunk(nodes) => PassedLater(s),
         NEW c \in Chans, LettersLater(c), NEW t \in Timers,
         Vote(n, s, carries, src, nodes, c, t)
  PROVE  /\ Handled(s, n, c, t)
         /\ voting[n][s] = Fresh =>
              \E msg \in Message : msg.step = s /\ chan' = Broadcast(c, n, msg)
<1> DEFINE w == Merged(voting[n][s], n, carries, src, nodes)
           o == InState("Voted", w, w.carries)
           msg == VoteMsg(s, w.carries, w.nodes)
<1>0. TypeOK /\ voting[n][s] \in Object
  <2>1. TypeOK
    BY DEF TimedInv
  <2>2. voting \in [Node -> [Step -> Object]]
    BY <2>1 DEF TypeOK
  <2> QED
    BY <2>1, <2>2
<1>1. w \in Object /\ w.carries \in Batch /\ w.nodes \in SUBSET Node /\ w.voted \in SUBSET Node
  <2>1. w \in Object
    BY <1>0, MergedType
  <2> QED
    BY <2>1 DEF Object
<1>2. FitsLater(voting[n][s], s)
  BY FitStays
<1>3. w.carries \subseteq ProposedLater(s)
  BY <1>2 DEF FitsLater, Merged
<1>4. Trusted => \A m \in w.voted : s < next'[m]
  BY <1>2 DEF FitsLater, Merged
<1>5. Trusted /\ Shrunk(w.nodes) => PassedLater(s)
  <2> SUFFICES ASSUME Trusted, Shrunk(w.nodes)
               PROVE  PassedLater(s)
    OBVIOUS
  <2>1. w.nodes = nodes \/ w.nodes = voting[n][s].nodes \cap nodes
    BY DEF Merged
  <2>2. Shrunk(nodes) \/ Shrunk(voting[n][s].nodes)
    BY <2>1 DEF Shrunk
  <2> QED
    BY <1>2, <2>2 DEF FitsLater
<1>6. n \in w.voted
  BY DEF Merged
<1>7. voting[n][s] = Fresh => voting[n][s].state # "Completed" /\ w.state = "Initial"
  BY DEF Fresh, Merged
<1>8. CASE chan' = c /\ timer' = t /\ UNCHANGED <<current, voting, log>>
           /\ voting[n][s].state = "Completed"
  <2>1. ObjectsFit' /\ MessagesFit' /\ LogsFit'
    BY <1>8, FitStays, FitMeans
  <2>2. NothingHeldBack'
    BY <1>8 DEF TimedInv, NothingHeldBack
  <2>3. Within'
    <3> SUFFICES ASSUME NEW m \in Node
                 PROVE  /\ Alive(m)' => Len(log[m]) = current[m] /\ current[m] <= next'[m]
                        /\ mode'[m] = "closed" => current[m] = MaxStep
                        /\ \A r \in Step :
                             voting[m][r] # Fresh => current[m] <= r /\ r < next'[m]
      BY <1>8 DEF Within
    <3>1. /\ Alive(m) => Len(log[m]) = current[m] /\ current[m] <= next[m]
          /\ mode[m] = "closed" => current[m] = MaxStep
          /\ \A r \in Step :
               voting[m][r] # Fresh => current[m] <= r /\ r < next[m]
      BY DEF TimedInv, Within
    <3>2. /\ current[m] \in Nat /\ next[m] \in Nat /\ next'[m] \in Nat
          /\ next[m] <= next'[m] /\ (Alive(m)' <=> Alive(m))
          /\ \A r \in Step : r \in Nat
      BY <1>0, VotingAssumption DEF TypeOK, Step, Forward, Alive
    <3> QED
      BY <3>1, <3>2
  <2>4. \A p \in Node : \A r \in Step : timer'[p][r] \in {t[p][r], "off"}
    BY <1>8
  <2>5. voting[n][s] # Fresh
    BY <1>8 DEF Fresh
  <2> QED
    BY <1>8, <2>1, <2>2, <2>3, <2>4, <2>5 DEF Handled
<1>9. CASE w.voted = w.nodes /\ Commit(n, s, w, w.carries, c, t)
  <2>1. Trusted => PassedLater(s)
    <3> SUFFICES ASSUME Trusted, ~Shrunk(w.nodes)
                 PROVE  PassedLater(s)
      BY <1>5
    <3>1. w.voted = Node
      BY <1>6, <1>9 DEF Shrunk
    <3> QED
      BY <1>4, <3>1 DEF PassedLater
  <2> HIDE DEF w
  <2> QED
    BY <1>1, <1>3, <1>4, <1>9, <2>1, CommitFits
<1>10. CASE /\ voting[n][s].state # "Completed"
            /\ voting' = [voting EXCEPT ![n][s] = o]
            /\ chan' = IF w.state = "Initial" THEN Broadcast(c, n, msg) ELSE c
            /\ timer' = t
            /\ UNCHANGED <<current, log>>
  <2>1. FitsLater(o, s) /\ o.state # "Completed"
    BY <1>3, <1>4, <1>5 DEF FitsLater, InState
  <2>2. \A m \in Node : \A r \in Step :
          voting'[m][r] = IF m = n /\ r = s THEN o ELSE voting[m][r]
    BY ZenonT(60), <1>0, <1>10 DEF TypeOK
  <2> HIDE DEF o
  <2>3. ObjectsFit'
    BY <2>1, <2>2, FitStays, FitMeans
  <2>4. LogsFit'
    BY <1>10, FitStays, FitMeans
  <2>5. msg \in Message /\ msg.step = s
    BY <1>1 DEF VoteMsg, Message
  <2>6. LetterLater(n, msg)
    BY <1>3, <1>4, <1>5, <1>6 DEF VoteMsg, LetterLater
  <2>7. MessagesFit'
    BY <1>10, <2>5, <2>6, BroadcastFits, FitMeans
  <2>8. NothingHeldBack'
    <3>1. ASSUME NEW m \in Node, NEW r \in Step, voting'[m][r].state = "Completed"
          PROVE  voting[m][r].state = "Completed"
      BY <2>1, <2>2, <3>1
    <3> QED
      BY <1>10, <3>1 DEF TimedInv, NothingHeldBack
  <2>9. Within'
    <3> SUFFICES ASSUME NEW m \in Node
                 PROVE  /\ Alive(m)' => Len(log[m]) = current[m] /\ current[m] <= next'[m]
                        /\ mode'[m] = "closed" => current[m] = MaxStep
                        /\ \A r \in Step :
                             voting'[m][r] # Fresh => current[m] <= r /\ r < next'[m]
      BY <1>10 DEF Within
    <3>1. /\ Alive(m) => Len(log[m]) = current[m] /\ current[m] <= next[m]
          /\ mode[m] = "closed" => current[m] = MaxStep
          /\ \A r \in Step :
               voting[m][r] # Fresh => current[m] <= r /\ r < next[m]
      BY DEF TimedInv, Within
    <3>2. /\ current[m] \in Nat /\ next[m] \in Nat /\ next'[m] \in Nat
          /\ next[m] <= next'[m] /\ (Alive(m)' <=> Alive(m))
          /\ \A r \in Step : r \in Nat
      BY <1>0, VotingAssumption DEF TypeOK, Step, Forward, Alive
    <3>3. \A r \in Step : voting'[m][r] = voting[m][r] \/ (m = n /\ r = s)
      BY <2>2
    <3> QED
      BY <3>1, <3>2, <3>3
  <2>10. \A p \in Node : \A r \in Step : timer'[p][r] \in {t[p][r], "off"}
    BY <1>10
  <2>11. chan' = c \/ chan' = Broadcast(c, n, msg)
    BY <1>10
  <2>12. voting[n][s] = Fresh => chan' = Broadcast(c, n, msg)
    BY <1>7, <1>10
  <2> HIDE DEF msg
  <2> QED
    BY <2>3, <2>4, <2>5, <2>7, <2>8, <2>9, <2>10, <2>11, <2>12 DEF Handled
<1> QED
  BY <1>8, <1>9, <1>10 DEF Vote

(* What is left of the streams of a process that died fits.                *)
LEMMA CutFits ==
  ASSUME TypeOK, LettersLater(chan), NEW n \in Node, NEW out \in CutStreams(n)
  PROVE  \A k \in Node : \A i \in DOMAIN out[k] : LetterLater(n, out[k][i])
<1> SUFFICES ASSUME NEW k \in Node, NEW i \in DOMAIN out[k]
             PROVE  LetterLater(n, out[k][i])
  OBVIOUS
<1>1. chan[n][k] \in Seq(Message)
  BY DEF TypeOK
<1>2. PICK j \in 0 .. Len(chan[n][k]) : out[k] = SubSeq(chan[n][k], 1, j)
  BY CutPrefix
<1>3. i \in DOMAIN chan[n][k] /\ out[k][i] = chan[n][k][i]
  BY <1>1, <1>2
<1> QED
  BY <1>3 DEF LettersLater

(* The timers of a table after a handler that told the others of its step. *)
LEMMA HandledTimers ==
  ASSUME TypeOK', NEW n \in Node, NEW s \in Step, NEW c \in Chans, NEW t \in Timers,
         TimersLater(t, c), Handled(s, n, c, t)
  PROVE  TimersFit'
<1>1. timer' \in Timers /\ chan' \in Chans
  BY DEF TypeOK, Timers, Chans
<1>2. \A p \in Node : \A r \in Step : timer'[p][r] \in {t[p][r], "off"}
  BY DEF Handled
<1>3. \A p, q \in Node : \A i \in DOMAIN c[p][q] :
        i \in DOMAIN chan'[p][q] /\ chan'[p][q][i] = c[p][q][i]
  <2>1. CASE chan' = c
    BY <2>1
  <2>2. ASSUME NEW msg \in Message, chan' = Broadcast(c, n, msg)
        PROVE  \A p, q \in Node : \A i \in DOMAIN c[p][q] :
                 i \in DOMAIN chan'[p][q] /\ chan'[p][q][i] = c[p][q][i]
    BY <2>2, BroadcastTells
  <2> QED
    BY <2>1, <2>2 DEF Handled
<1>4. TimersLater(timer', chan')
  BY <1>1, <1>2, <1>3, TimersKeep
<1> QED
  BY <1>4, FitMeans

(* apply(): the proposal is on its way to everybody before the timer can   *)
(* run out.                                                                *)
LEMMA ApplyTimed ==
  ASSUME TimedInv, TypeOK', NEW n \in Node, Apply(n)
  PROVE  TimedInv'
<1> DEFINE s == next[n]
           t == [timer EXCEPT ![n][s] = "armed"]
           x == {<<n, Len(started[n]) + 1>>}
<1>0. TypeOK /\ Within
  BY DEF TimedInv
<1>1. /\ s \in Step /\ Alive(n) /\ UNCHANGED mode
      /\ next' = [next EXCEPT ![n] = s + 1]
      /\ started' = [started EXCEPT ![n] = Append(@, s)]
      /\ Vote(n, s, x, n, Node, chan, t)
  BY <1>0, VotingAssumption DEF Apply, TypeOK, Step
<1>2. started[n] \in Seq(Step) /\ x \in Batch
  BY <1>0, <1>1, ProposalType DEF TypeOK
<1>3. s \in Nat /\ \A m \in Node : next[m] \in Nat /\ next'[m] = IF m = n THEN s + 1 ELSE next[m]
  BY <1>0, <1>1 DEF TypeOK
<1>4. \A m \in Node : started'[m] = IF m = n THEN Append(started[n], s) ELSE started[m]
  BY <1>0, <1>1 DEF TypeOK
<1>5. /\ \A k \in DOMAIN started[n] :
           k \in DOMAIN Append(started[n], s) /\ Append(started[n], s)[k] = started[n][k]
      /\ Len(started[n]) + 1 \in DOMAIN Append(started[n], s)
      /\ Append(started[n], s)[Len(started[n]) + 1] = s
  BY <1>1, <1>2
<1>6. Forward
  <2>1. \A m \in Node : next[m] <= next'[m]
    BY <1>3
  <2>2. \A m \in Node : Alive(m)' => Alive(m)
    BY <1>1 DEF Alive
  <2>3. \A m \in Node : \A k \in DOMAIN started[m] :
          k \in DOMAIN started'[m] /\ started'[m][k] = started[m][k]
    BY <1>4, <1>5
  <2> QED
    BY <2>1, <2>2, <2>3 DEF Forward
<1>7. x \subseteq ProposedLater(s)
  <2>1. /\ Len(started[n]) + 1 \in DOMAIN started'[n]
        /\ started'[n][Len(started[n]) + 1] = s
    BY <1>4, <1>5
  <2> QED
    BY <2>1, ProposedDef
<1>8. t \in Timers /\ chan \in Chans /\ LettersLater(chan)
  BY <1>0, <1>6, FitStays DEF TypeOK, Timers, Chans
<1>9. current[n] <= s /\ voting[n][s] = Fresh
  BY <1>0, <1>1, <1>3 DEF Within
<1>10. s < next'[n] /\ s >= current[n]
  <2>1. current[n] \in Nat
    BY <1>0 DEF TypeOK
  <2> QED
    BY <1>3, <1>9, <2>1
<1>11. ~Shrunk(Node) /\ Node \in SUBSET Node
  BY DEF Shrunk
<1>12. /\ Handled(s, n, chan, t)
       /\ \E msg \in Message : msg.step = s /\ chan' = Broadcast(chan, n, msg)
  <2> HIDE DEF s, t, x
  <2> QED
    BY <1>1, <1>2, <1>6, <1>7, <1>8, <1>9, <1>10, <1>11, VoteFits
<1>13. TimersFit'
  <2> HIDE DEF s, x
  <2>1. PICK msg \in Message : msg.step = s /\ chan' = Broadcast(chan, n, msg)
    BY <1>12
  <2>2. /\ \A p, q \in Node : \A i \in DOMAIN chan[p][q] :
             /\ i \in DOMAIN chan'[p][q]
             /\ chan'[p][q][i] = chan[p][q][i]
        /\ \A q \in Node \ {n} : mode[q] # "crashed" =>
             \E i \in DOMAIN chan'[n][q] : chan'[n][q][i] = msg
    BY <1>8, <2>1, BroadcastTells
  <2>3. timer \in Timers /\ chan' \in Chans /\ TimersLater(timer, chan)
    BY <1>0, <1>6, FitStays DEF TypeOK, Timers, Chans
  <2>4. \A p \in Node : \A r \in Step : timer[p][r] \in {timer[p][r], "off"}
    OBVIOUS
  <2>5. TimersLater(timer, chan')
    BY <1>8, <2>2, <2>3, <2>4, TimersKeep
  <2>6. ToldLater(n, s, chan')
    <3> SUFFICES ASSUME NEW q \in Node \ {n}, Alive(q)'
                 PROVE  \E i \in DOMAIN chan'[n][q] : chan'[n][q][i].step = s
      BY DEF ToldLater
    <3>1. mode[q] # "crashed"
      BY <1>1 DEF Alive
    <3> QED
      BY <2>1, <2>2, <3>1
  <2>7. ASSUME NEW p \in Node, NEW r \in Step
        PROVE  t[p][r] = IF p = n /\ r = s THEN "armed" ELSE timer[p][r]
    BY <1>1, <2>3 DEF Timers
  <2>8. TimersLater(t, chan')
    <3> HIDE DEF t
    <3> SUFFICES ASSUME NEW p \in Node, NEW r \in Step, Alive(p)'
                 PROVE  /\ t[p][r] # "off" => r < next'[p]
                        /\ Trusted /\ t[p][r] = "armed" => ToldLater(p, r, chan')
                        /\ Trusted /\ t[p][r] = "queued" => PassedLater(r)
      BY DEF TimersLater
    <3>1. CASE p = n /\ r = s
      BY <1>10, <2>6, <2>7, <3>1
    <3>2. CASE ~(p = n /\ r = s)
      BY <2>5, <2>7, <3>2 DEF TimersLater
    <3> QED
      BY <3>1, <3>2
  <2>9. \A p \in Node : \A r \in Step : timer'[p][r] \in {t[p][r], "off"}
    BY <1>12 DEF Handled
  <2>10. timer' \in Timers
    BY DEF TypeOK, Timers
  <2>11. \A p, q \in Node : \A i \in DOMAIN chan'[p][q] :
           i \in DOMAIN chan'[p][q] /\ chan'[p][q][i] = chan'[p][q][i]
    OBVIOUS
  <2>12. TimersLater(timer', chan')
    <3> HIDE DEF t
    <3> QED
      BY <1>8, <2>3, <2>8, <2>9, <2>10, <2>11, TimersKeep
  <2> QED
    BY <2>12, FitMeans
<1> QED
  BY <1>12, <1>13 DEF TimedInv, Handled

(* A step in which no process starts, comes back or loses its place keeps  *)
(* what has been proposed and passed.                                      *)
LEMMA ForwardStill ==
  ASSUME TypeOK, UNCHANGED <<next, started>>,
         \A m \in Node : Alive(m)' => Alive(m)
  PROVE  Forward
<1>1. \A m \in Node : next[m] \in Nat
  BY DEF TypeOK
<1> QED
  BY <1>1 DEF Forward

(* The reader is still there, and getPtr() moves it past the step.         *)
LEMMA ReachesForward ==
  ASSUME TimedInv, NEW n \in Node, NEW s \in Step, Reaches(n, s),
         UNCHANGED <<mode, started>>, mode[n] # "crashed"
  PROVE  Forward /\ Alive(n) /\ s < next'[n]
<1>1. /\ \A m \in Node : next[m] \in Nat
      /\ next \in [Node -> 0 .. MaxStep]
      /\ current[n] \in 0 .. MaxStep
      /\ mode[n] \in {"up", "closing", "closed", "crashed"}
  BY DEF TimedInv, TypeOK
<1>2. s \in Nat /\ s < MaxStep
  BY VotingAssumption DEF Step
<1>3. \A m \in Node : next'[m] = IF m = n /\ next[n] <= s THEN s + 1 ELSE next[m]
  BY <1>1 DEF Reaches
<1>4. mode[n] # "closed"
  <2>1. mode[n] = "closed" => current[n] = MaxStep
    BY DEF TimedInv, Within
  <2>2. s >= current[n]
    BY DEF Reaches
  <2> QED
    BY <1>1, <1>2, <2>1, <2>2
<1>5. Alive(n)
  BY <1>1, <1>4 DEF Alive
<1>6. \A m \in Node : next[m] <= next'[m]
  BY <1>1, <1>2, <1>3
<1>7. s < next'[n]
  BY <1>1, <1>2, <1>3
<1> QED
  BY <1>5, <1>6, <1>7 DEF Forward, Alive

(* A message of a step that was executed here is dropped.                  *)
LEMMA StaleTimed ==
  ASSUME TimedInv, TypeOK', NEW m \in Node, NEW n \in Node, RecvStale(m, n)
  PROVE  TimedInv'
<1>1. /\ TypeOK /\ Within /\ Receives(m, n) /\ chan' = Popped(m, n)
      /\ Head(chan[m][n]).step < current[n]
      /\ UNCHANGED <<mode, next, current, voting, timer, started, log>>
  BY DEF TimedInv, RecvStale
<1>2. Forward
  BY <1>1, ForwardStill DEF Alive
<1>3. /\ Head(chan[m][n]) \in Message /\ Head(chan[m][n]).step \in Nat
      /\ current[n] \in Nat /\ next[n] \in Nat
  <2>1. Head(chan[m][n]) \in Message
    BY <1>1, PoppedType
  <2>2. Head(chan[m][n]).step \in Step
    BY <2>1 DEF Message
  <2>3. Head(chan[m][n]).step \in Nat
    BY <2>2, VotingAssumption DEF Step
  <2>4. current[n] \in Nat /\ next[n] \in Nat
    BY <1>1 DEF TypeOK
  <2> QED
    BY <2>1, <2>3, <2>4
<1>4. Alive(n)' => Head(chan[m][n]).step < next'[n]
  BY <1>1, <1>3 DEF Within, Alive
<1>5. LettersLater(chan') /\ TimersLater(timer', chan')
  BY <1>1, <1>2, <1>4, FitStays, PoppedFits
<1>6. ObjectsFit' /\ LogsFit'
  BY <1>1, <1>2, FitStays, FitMeans
<1>7. MessagesFit' /\ TimersFit'
  BY <1>5, FitMeans
<1>8. Within' /\ NothingHeldBack'
  BY <1>1 DEF TimedInv, Within, NothingHeldBack, Alive
<1> QED
  BY <1>6, <1>7, <1>8 DEF TimedInv

(* A vote.                                                                 *)
LEMMA RecvVoteTimed ==
  ASSUME TimedInv, TypeOK', NEW m \in Node, NEW n \in Node, RecvVote(m, n)
  PROVE  TimedInv'
<1> DEFINE msg == Head(chan[m][n])
<1>1. /\ TypeOK /\ Receives(m, n) /\ Reaches(n, msg.step) /\ mode[n] # "crashed"
      /\ UNCHANGED <<mode, started>>
      /\ Vote(n, msg.step, msg.carries, m, msg.nodes, Popped(m, n), timer)
  BY DEF TimedInv, RecvVote, Receives
<1>2. msg \in Message /\ Popped(m, n) \in Chans /\ timer \in Timers
  BY <1>1, PoppedType DEF TypeOK, Timers
<1>3. msg.step \in Step /\ msg.carries \in Batch /\ msg.nodes \in SUBSET Node
  BY <1>2 DEF Message
<1> HIDE DEF msg
<1>4. Forward /\ Alive(n) /\ msg.step < next'[n]
  BY <1>1, <1>3, ReachesForward
<1>5. LettersLater(Popped(m, n)) /\ LetterLater(m, msg) /\ TimersLater(timer, Popped(m, n))
  BY <1>1, <1>4, FitStays, PoppedFits DEF msg
<1>6. /\ msg.carries \subseteq ProposedLater(msg.step)
      /\ Trusted => msg.step < next'[m]
      /\ Trusted /\ Shrunk(msg.nodes) => PassedLater(msg.step)
  BY <1>5 DEF LetterLater
<1>7. msg.step >= current[n]
  BY <1>1 DEF Reaches
<1>8. Handled(msg.step, n, Popped(m, n), timer)
  BY <1>1, <1>2, <1>3, <1>4, <1>5, <1>6, <1>7, VoteFits
<1>9. TimersFit'
  BY <1>2, <1>3, <1>5, <1>8, HandledTimers
<1> QED
  BY <1>8, <1>9 DEF TimedInv, Handled

(* A commit.                                                               *)
LEMMA RecvCommitTimed ==
  ASSUME TimedInv, TypeOK', NEW m \in Node, NEW n \in Node, RecvCommit(m, n)
  PROVE  TimedInv'
<1> DEFINE msg == Head(chan[m][n])
           w == voting[n][msg.step]
<1>1. /\ TypeOK /\ Receives(m, n) /\ Reaches(n, msg.step) /\ mode[n] # "crashed"
      /\ UNCHANGED <<mode, started>> /\ msg.type = "commit"
      /\ IF w.state = "Completed"
           THEN /\ chan' = Popped(m, n)
                /\ UNCHANGED <<current, voting, timer, log>>
           ELSE Commit(n, msg.step, w, msg.carries, Popped(m, n), timer)
  BY DEF TimedInv, RecvCommit, Receives
<1>2. msg \in Message /\ Popped(m, n) \in Chans /\ timer \in Timers
  BY <1>1, PoppedType DEF TypeOK, Timers
<1>3. msg.step \in Step /\ msg.carries \in Batch
  BY <1>2 DEF Message
<1>4. Forward /\ Alive(n) /\ msg.step < next'[n]
  BY <1>1, <1>3, ReachesForward
<1>5. LettersLater(Popped(m, n)) /\ LetterLater(m, msg) /\ TimersLater(timer, Popped(m, n))
  BY <1>1, <1>4, FitStays, PoppedFits
<1>6. /\ msg.carries \subseteq ProposedLater(msg.step)
      /\ Trusted => PassedLater(msg.step)
  BY <1>1, <1>5 DEF LetterLater
<1>7. msg.step >= current[n]
  BY <1>1 DEF Reaches
<1>8. w \in Object /\ FitsLater(w, msg.step)
  <2>1. voting \in [Node -> [Step -> Object]]
    BY <1>1 DEF TypeOK
  <2> QED
    BY <1>3, <1>4, <2>1, FitStays
<1>9. CASE w.state # "Completed"
  <2>1. Commit(n, msg.step, w, msg.carries, Popped(m, n), timer)
    BY <1>1, <1>9
  <2>2. Trusted => \A k \in w.voted : msg.step < next'[k]
    BY <1>8 DEF FitsLater
  <2>3. Handled(msg.step, n, Popped(m, n), timer)
    <3> HIDE DEF msg, w
    <3> QED
      BY <1>1, <1>2, <1>3, <1>4, <1>5, <1>6, <1>7, <1>8, <2>1, <2>2, CommitFits
  <2>4. TimersFit'
    BY <1>2, <1>3, <1>5, <2>3, HandledTimers
  <2> QED
    BY <2>3, <2>4 DEF TimedInv, Handled
<1>10. CASE w.state = "Completed"
  <2>1. chan' = Popped(m, n) /\ UNCHANGED <<mode, started, current, voting, timer, log>>
    BY <1>1, <1>10
  <2>2. ObjectsFit' /\ LogsFit'
    BY <1>4, <2>1, FitStays, FitMeans
  <2>3. MessagesFit' /\ TimersFit'
    BY <1>5, <2>1, FitMeans
  <2>4. NothingHeldBack'
    BY <2>1 DEF TimedInv, NothingHeldBack
  <2>5. Within'
    <3> SUFFICES ASSUME NEW k \in Node
                 PROVE  /\ Alive(k) => Len(log[k]) = current[k] /\ current[k] <= next'[k]
                        /\ mode[k] = "closed" => current[k] = MaxStep
                        /\ \A r \in Step :
                             voting[k][r] # Fresh => current[k] <= r /\ r < next'[k]
      BY <2>1 DEF Within, Alive
    <3>1. /\ Alive(k) => Len(log[k]) = current[k] /\ current[k] <= next[k]
          /\ mode[k] = "closed" => current[k] = MaxStep
          /\ \A r \in Step :
               voting[k][r] # Fresh => current[k] <= r /\ r < next[k]
      BY DEF TimedInv, Within
    <3>2. /\ current[k] \in Nat /\ next[k] \in Nat /\ next'[k] \in Nat
          /\ next[k] <= next'[k]
          /\ \A r \in Step : r \in Nat
      BY <1>1, <1>4, VotingAssumption DEF TypeOK, Step, Forward
    <3> QED
      BY <3>1, <3>2
  <2> QED
    BY <2>2, <2>3, <2>4, <2>5 DEF TimedInv
<1> QED
  BY <1>9, <1>10

(* A process dies or closes its connectors: of what it wrote some part     *)
(* fits, and nobody has to be told by it any more.                         *)
LEMMA CutTimed ==
  ASSUME TimedInv, TypeOK', NEW n \in Node, UNCHANGED <<next, started, log>>,
         ~Alive(n)', \A m \in Node \ {n} : mode'[m] = mode[m],
         NEW out \in CutStreams(n), chan'[n] = out,
         \A m \in Node \ {n} : \A k \in Node \ {n} : chan'[m][k] = chan[m][k],
         \A m \in Node \ {n} : chan'[m][n] \in {chan[m][n], <<>>},
         \A p \in Node \ {n} : timer'[p] = timer[p]
  PROVE  Forward /\ LogsFit' /\ MessagesFit' /\ TimersFit'
<1>0. TypeOK
  BY DEF TimedInv
<1>1. Forward
  <2>1. \A m \in Node : Alive(m)' => Alive(m)
    BY DEF Alive
  <2> QED
    BY <1>0, <2>1, ForwardStill
<1>2. LettersLater(chan) /\ TimersLater(timer, chan) /\ LogsFit'
  BY <1>1, FitStays, FitMeans
<1>3. LettersLater(chan')
  <2> SUFFICES ASSUME NEW m \in Node, NEW k \in Node, NEW i \in DOMAIN chan'[m][k]
               PROVE  LetterLater(m, chan'[m][k][i])
    BY DEF LettersLater
  <2>1. CASE m = n
    BY <1>0, <1>2, <2>1, CutFits
  <2>2. CASE m # n /\ chan'[m][k] = chan[m][k]
    BY <1>2, <2>2 DEF LettersLater
  <2>3. CASE m # n /\ chan'[m][k] = <<>>
    BY <2>3
  <2> QED
    BY <2>1, <2>2, <2>3
<1>4. TimersLater(timer', chan')
  <2> SUFFICES ASSUME NEW p \in Node, NEW s \in Step, Alive(p)'
               PROVE  /\ timer'[p][s] # "off" => s < next'[p]
                      /\ Trusted /\ timer'[p][s] = "armed" => ToldLater(p, s, chan')
                      /\ Trusted /\ timer'[p][s] = "queued" => PassedLater(s)
    BY DEF TimersLater
  <2>1. p # n /\ timer'[p] = timer[p]
    OBVIOUS
  <2>2. ToldLater(p, s, chan) => ToldLater(p, s, chan')
    BY <2>1 DEF ToldLater
  <2> QED
    BY <1>2, <2>1, <2>2 DEF TimersLater
<1> QED
  BY <1>1, <1>2, <1>3, <1>4, FitMeans

(* A crash.                                                                *)
LEMMA CrashTimed ==
  ASSUME TimedInv, TypeOK', NEW n \in Node, Crash(n)
  PROVE  TimedInv'
<1>0. TypeOK /\ Within
  BY DEF TimedInv
<1>1. PICK out \in CutStreams(n) :
        chan' = [m \in Node |-> IF m = n THEN out
                                         ELSE [chan[m] EXCEPT ![n] = <<>>]]
  BY DEF Crash
<1>2. /\ UNCHANGED <<next, current, voting, timer, started, log>>
      /\ \A m \in Node : mode'[m] = IF m = n THEN "crashed" ELSE mode[m]
  BY <1>0 DEF Crash, TypeOK
<1>3. /\ chan'[n] = out
      /\ \A m \in Node \ {n} : \A k \in Node \ {n} : chan'[m][k] = chan[m][k]
      /\ \A m \in Node \ {n} : chan'[m][n] \in {chan[m][n], <<>>}
  BY <1>0, <1>1 DEF TypeOK
<1>4. ~Alive(n)' /\ \A m \in Node \ {n} : mode'[m] = mode[m]
  BY <1>2 DEF Alive
<1>5. \A p \in Node \ {n} : timer'[p] = timer[p]
  BY <1>2
<1>6. Forward /\ LogsFit' /\ MessagesFit' /\ TimersFit'
  BY <1>2, <1>3, <1>4, <1>5, CutTimed
<1>7. ObjectsFit'
  BY <1>2, <1>6, FitStays, FitMeans
<1>8. Within' /\ NothingHeldBack'
  BY <1>0, <1>2 DEF TimedInv, Within, NothingHeldBack, Alive
<1> QED
  BY <1>6, <1>7, <1>8 DEF TimedInv

(* The clean-up after fail().                                              *)
LEMMA CleanupTimed ==
  ASSUME TimedInv, TypeOK', NEW n \in Node, CleanupRun(n)
  PROVE  TimedInv'
<1>0. TypeOK /\ Within
  BY DEF TimedInv
<1>1. PICK out \in CutStreams(n) : chan' = [chan EXCEPT ![n] = out]
  BY DEF CleanupRun
<1>2. /\ UNCHANGED <<next, started, log>>
      /\ \A m \in Node : mode'[m] = IF m = n THEN "closed" ELSE mode[m]
      /\ \A m \in Node : current'[m] = IF m = n THEN MaxStep ELSE current[m]
      /\ \A m \in Node : \A s \in Step :
           voting'[m][s] = IF m = n THEN Fresh ELSE voting[m][s]
  BY <1>0 DEF CleanupRun, TypeOK
<1>3. /\ chan'[n] = out
      /\ \A m \in Node \ {n} : \A k \in Node \ {n} : chan'[m][k] = chan[m][k]
      /\ \A m \in Node \ {n} : chan'[m][n] \in {chan[m][n], <<>>}
  BY <1>0, <1>1 DEF TypeOK
<1>4. ~Alive(n)' /\ \A m \in Node \ {n} : mode'[m] = mode[m]
  BY <1>2 DEF Alive
<1>5. \A p \in Node \ {n} : timer'[p] = timer[p]
  BY <1>0 DEF CleanupRun, TypeOK
<1>6. Forward /\ LogsFit' /\ MessagesFit' /\ TimersFit'
  BY <1>2, <1>3, <1>4, <1>5, CutTimed
<1>7. ObjectsFit'
  <2>1. \A s \in Step : FitsLater(Fresh, s)
    BY DEF FitsLater, Fresh, Shrunk
  <2> QED
    BY <1>2, <1>6, <2>1, FitStays, FitMeans
<1>8. Within'
  <2> SUFFICES ASSUME NEW m \in Node
               PROVE  /\ Alive(m)' => Len(log[m]) = current'[m] /\ current'[m] <= next[m]
                      /\ mode'[m] = "closed" => current'[m] = MaxStep
                      /\ \A s \in Step :
                           voting'[m][s] # Fresh => current'[m] <= s /\ s < next[m]
    BY <1>2 DEF Within
  <2>1. CASE m = n
    BY <1>2, <1>4, <2>1
  <2>2. CASE m # n
    BY <1>0, <1>2, <2>2 DEF Within, Alive
  <2> QED
    BY <2>1, <2>2
<1>9. NothingHeldBack'
  BY <1>2 DEF TimedInv, NothingHeldBack, Fresh
<1> QED
  BY <1>6, <1>7, <1>8, <1>9 DEF TimedInv

(* A step that changes nothing but timers, of which it may also close the  *)
(* process.                                                                *)
LEMMA OnlyTimers ==
  ASSUME TimedInv, TypeOK', UNCHANGED <<next, current, voting, chan, started, log>>,
         \A m \in Node : (Alive(m)' <=> Alive(m)) /\ (mode'[m] = "closed" => mode[m] = "closed")
  PROVE  /\ Forward
         /\ (Within /\ NothingHeldBack /\ ObjectsFit /\ MessagesFit /\ LogsFit)'
<1>1. Forward
  BY ForwardStill DEF TimedInv
<1>2. ObjectsFit' /\ MessagesFit' /\ LogsFit'
  BY <1>1, FitStays, FitMeans
<1>3. Within' /\ NothingHeldBack'
  BY DEF TimedInv, Within, NothingHeldBack
<1> QED
  BY <1>1, <1>2, <1>3

(* The 500 ms have passed.  On a timely network everybody who is still     *)
(* there has read of the step.                                             *)
LEMMA ExpireTimed ==
  ASSUME TimedInv, TypeOK', NEW n \in Node, NEW s \in Step, Expire(n, s)
  PROVE  TimedInv'
<1>0. TypeOK /\ TimersFit
  BY DEF TimedInv
<1>1. /\ UNCHANGED <<mode, next, current, voting, chan, started, log>>
      /\ Alive(n) /\ timer[n][s] = "armed"
      /\ Timely => \A m, k \in Node : mode[k] = "crashed" \/ chan[m][k] = <<>>
      /\ \A p \in Node : \A r \in Step :
           timer'[p][r] = IF p = n /\ r = s THEN "queued" ELSE timer[p][r]
  BY <1>0 DEF Expire, Earliest, TypeOK
<1>2. Forward /\ (Within /\ NothingHeldBack /\ ObjectsFit /\ MessagesFit /\ LogsFit)'
  BY <1>1, OnlyTimers DEF Alive
<1>3. ASSUME Trusted
      PROVE  PassedLater(s)
  <2> SUFFICES ASSUME NEW q \in Node, Alive(q)
               PROVE  s < next[q]
    BY <1>1 DEF PassedLater, Alive
  <2>1. CASE q = n
    BY <1>0, <1>1, <2>1 DEF TimersFit
  <2>2. CASE q # n
    <3>1. s < next[q] \/ \E i \in DOMAIN chan[n][q] : chan[n][q][i].step = s
      BY <1>0, <1>1, <1>3, <2>2 DEF TimersFit, Told
    <3>2. chan[n][q] = <<>>
      BY <1>1, <1>3 DEF Trusted, Alive
    <3> QED
      BY <3>1, <3>2
  <2> QED
    BY <2>1, <2>2
<1>4. TimersLater(timer', chan')
  <2>1. TimersLater(timer, chan)
    BY <1>2, FitStays
  <2> QED
    BY <1>1, <1>3, <2>1 DEF TimersLater
<1> QED
  BY <1>2, <1>4, FitMeans DEF TimedInv

(* The handler on the object of a step: it votes among those that voted,   *)
(* or starts to shut the process down.                                     *)
LEMMA TimeoutTimed ==
  ASSUME TimedInv, TypeOK', NEW n \in Node, NEW s \in Step, NEW r \in Step,
         Alive(n), UNCHANGED <<next, started>>,
         s >= current[n], s < next[n], Trusted => Passed(s),
         Timeout(n, s, Dequeued(n, r))
  PROVE  TimedInv'
<1> DEFINE w == voting[n][s]
           t == Dequeued(n, r)
<1>0. TypeOK
  BY DEF TimedInv
<1>1. t \in Timers /\ \A p \in Node : \A k \in Step : t[p][k] \in {timer[p][k], "off"}
  BY <1>0 DEF Dequeued, TypeOK, Timers
<1> HIDE DEF t
<1>2. \A m \in Node : Alive(m)' <=> Alive(m)
  BY <1>0 DEF Timeout, Fail, Alive, TypeOK
<1>3. Forward
  BY <1>0, <1>2, ForwardStill
<1>4. chan \in Chans /\ timer \in Timers /\ LettersLater(chan) /\ TimersLater(t, chan)
  <2>1. chan \in Chans /\ timer \in Timers /\ LettersLater(chan) /\ TimersLater(timer, chan)
    BY <1>0, <1>3, FitStays DEF TypeOK, Chans, Timers
  <2>2. \A p, q \in Node : \A i \in DOMAIN chan[p][q] :
          i \in DOMAIN chan[p][q] /\ chan[p][q][i] = chan[p][q][i]
    OBVIOUS
  <2> QED
    BY <1>1, <2>1, <2>2, TimersKeep
<1>5. CASE Vote(n, s, w.carries, n, w.voted, chan, t) /\ UNCHANGED mode
  <2>1. w \in Object /\ FitsLater(w, s)
    <3>1. voting \in [Node -> [Step -> Object]]
      BY <1>0 DEF TypeOK
    <3> QED
      BY <1>3, <3>1, FitStays
  <2>2. w.carries \in Batch /\ w.voted \in SUBSET Node /\ w.carries \subseteq ProposedLater(s)
    BY <2>1 DEF Object, FitsLater
  <2>3. s < next'[n] /\ s \in Nat
    BY VotingAssumption DEF Step
  <2>4. Trusted => PassedLater(s)
    BY <1>0, <1>3, <2>3, PassedStays
  <2>5. Handled(s, n, chan, t)
    <3> HIDE DEF w
    <3> QED
      BY <1>1, <1>3, <1>4, <1>5, <2>2, <2>3, <2>4, VoteFits
  <2>6. TimersFit'
    BY <1>1, <1>4, <2>5, HandledTimers
  <2> QED
    BY <2>5, <2>6 DEF TimedInv, Handled
<1>6. CASE Fail(n, t)
  <2>1. /\ UNCHANGED <<next, current, voting, chan, started, log>> /\ timer' = t
        /\ \A m \in Node : mode'[m] = "closed" => mode[m] = "closed"
    BY <1>0, <1>6 DEF Fail, TypeOK
  <2>2. (Within /\ NothingHeldBack /\ ObjectsFit /\ MessagesFit /\ LogsFit)'
    BY <1>2, <2>1, OnlyTimers
  <2>3. TimersFit'
    BY <1>4, <2>1, FitMeans
  <2> QED
    BY <2>2, <2>3 DEF TimedInv
<1> QED
  BY <1>5, <1>6 DEF Timeout, t

(* Its timer has run out.                                                  *)
LEMMA RunTimeoutTimed ==
  ASSUME TimedInv, TypeOK', NEW n \in Node, NEW s \in Step, RunTimeout(n, s)
  PROVE  TimedInv'
<1>1. /\ Alive(n) /\ timer[n][s] = "queued" /\ s >= current[n]
      /\ UNCHANGED <<next, started>> /\ Timeout(n, s, Dequeued(n, s))
  BY DEF RunTimeout, Earliest
<1>2. s < next[n] /\ (Trusted => Passed(s))
  BY <1>1 DEF TimedInv, TimersFit
<1> QED
  BY <1>1, <1>2, TimeoutTimed

(* The timer of an object that is gone.                                    *)
LEMMA DanglingTimed ==
  ASSUME TimedInv, TypeOK', NEW n \in Node, NEW s \in Step, DanglingTimeout(n, s)
  PROVE  TimedInv'
<1>0. TypeOK /\ Within
  BY DEF TimedInv
<1>1. Alive(n) /\ UNCHANGED <<next, started>>
  BY DEF DanglingTimeout
<1>2. ASSUME NEW r \in Step, Reuse, voting[n][r] # Fresh, Timeout(n, r, Dequeued(n, s))
      PROVE  TimedInv'
  <2>1. current[n] <= r /\ r < next[n] /\ current[n] \in Nat /\ r \in Nat
    BY <1>0, <1>2, VotingAssumption DEF Within, TypeOK, Step
  <2>2. ~Trusted /\ r >= current[n]
    BY <1>2, <2>1 DEF Trusted
  <2> QED
    BY <1>1, <1>2, <2>1, <2>2, TimeoutTimed
<1>3. CASE /\ timer' = Dequeued(n, s)
           /\ \/ UNCHANGED <<mode, current, voting, chan, log>>
              \/ Fail(n, Dequeued(n, s))
  <2>1. /\ timer' \in Timers /\ timer \in Timers /\ chan \in Chans /\ chan' = chan
        /\ \A p \in Node : \A k \in Step : timer'[p][k] \in {timer[p][k], "off"}
    BY <1>0, <1>3 DEF Dequeued, TypeOK, Timers, Chans, Fail
  <2>2. /\ UNCHANGED <<next, current, voting, chan, started, log>>
        /\ \A m \in Node : (Alive(m)' <=> Alive(m)) /\ (mode'[m] = "closed" => mode[m] = "closed")
    BY <1>0, <1>1, <1>3 DEF Fail, TypeOK, Alive
  <2>3. Forward /\ (Within /\ NothingHeldBack /\ ObjectsFit /\ MessagesFit /\ LogsFit)'
    BY <2>2, OnlyTimers
  <2>4. TimersLater(timer, chan)
    BY <2>3, FitStays
  <2>5. \A p, q \in Node : \A i \in DOMAIN chan[p][q] :
          i \in DOMAIN chan[p][q] /\ chan[p][q][i] = chan[p][q][i]
    OBVIOUS
  <2>6. TimersLater(timer', chan')
    BY <2>1, <2>4, <2>5, TimersKeep
  <2> QED
    BY <2>3, <2>6, FitMeans DEF TimedInv
<1> QED
  BY <1>2, <1>3 DEF DanglingTimeout, Fail

(* Every step of the whole protocol keeps the invariant.                   *)
LEMMA TimedStep == TimedInv /\ [Next]_vars => TimedInv'
<1> SUFFICES ASSUME TimedInv, [Next]_vars
             PROVE  TimedInv'
  OBVIOUS
<1>1. TypeOK'
  BY TypeStep DEF TimedInv
<1>2. CASE Quiet
  BY <1>1, <1>2, ApplyTimed, CrashTimed, StaleTimed, RecvVoteTimed, RecvCommitTimed
  DEF Quiet
<1>3. CASE Late
  BY <1>1, <1>3, CleanupTimed, ExpireTimed, RunTimeoutTimed, DanglingTimed DEF Late
<1>4. CASE UNCHANGED vars
  <2>1. UNCHANGED <<mode, next, current, voting, timer, chan, started, log>>
    BY <1>4 DEF vars
  <2>2. Within' /\ NothingHeldBack'
    BY <2>1 DEF TimedInv, Within, NothingHeldBack, Alive
  <2>3. Forward
    BY <2>1, ForwardStill DEF TimedInv, Alive
  <2>4. ObjectsFit' /\ MessagesFit' /\ LogsFit' /\ TimersFit'
    BY <2>1, <2>3, <1>1, FitStays, FitMeans
  <2> QED
    BY <1>1, <2>2, <2>4 DEF TimedInv
<1> QED
  BY <1>2, <1>3, <1>4 DEF Next

(* It holds in the beginning.                                              *)
LEMMA TimedInit == Init => TimedInv
<1> SUFFICES ASSUME Init
             PROVE  TimedInv
  OBVIOUS
<1>1. TypeOK
  BY TypeInit
<1>2. Within /\ NothingHeldBack
  BY DEF Init, Within, NothingHeldBack, Alive, Fresh
<1>3. ObjectsFit /\ MessagesFit /\ LogsFit /\ TimersFit
  BY DEF Init, ObjectsFit, ObjectFits, MessagesFit, LogsFit, TimersFit, Fresh, Shrunk
<1> QED
  BY <1>1, <1>2, <1>3 DEF TimedInv

(* Whatever the network does, whoever dies and whenever the timers run     *)
(* out: what vote(), commit() and complete() execute in a step had been    *)
(* given to apply() in this step, so nothing is executed twice, and a      *)
(* decided step only waits for an earlier one that is not decided.         *)
THEOREM AlwaysInOrder == Spec => [](Integrity /\ NothingHeldBack)
<1>1. TimedInv => Integrity /\ NothingHeldBack
  BY DEF TimedInv, LogsFit, Integrity
<1> QED
  BY <1>1, TimedInit, TimedStep, PTL DEF Spec

(* With a timely network, in which no timer handler runs on memory that    *)
(* has become another object, also nobody can propose in a step that was   *)
(* executed anywhere, with any number of crashes, timeouts and ballots.    *)
THEOREM TimelyInOrder ==
  ASSUME Timely, ~Reuse
  PROVE  Spec => []VotingInv
<1>1. TimedInv => VotingInv
  <2> SUFFICES ASSUME TimedInv
               PROVE  VotingInv
    OBVIOUS
  <2>1. Integrity /\ NothingHeldBack /\ TypeOK
    BY DEF TimedInv, LogsFit, Integrity
  <2>2. ASSUME NEW r \in Node, NEW n \in Node, Alive(n)
        PROVE  next[n] >= Len(log[r])
    <3>1. log[r] \in Seq(Batch) /\ next[n] \in Nat /\ Len(log[r]) \in Nat
      BY <2>1 DEF TypeOK
    <3>2. CASE Len(log[r]) = 0
      BY <3>1, <3>2
    <3>3. CASE Len(log[r]) # 0
      <4>1. Len(log[r]) \in DOMAIN log[r]
        BY <3>1, <3>3
      <4>2. Passed(Len(log[r]) - 1)
        BY <4>1 DEF TimedInv, LogsFit, Trusted
      <4>3. Len(log[r]) - 1 < next[n]
        BY <2>2, <4>2 DEF Passed
      <4> QED
        BY <3>1, <4>3
    <3> QED
      BY <3>2, <3>3
  <2> QED
    BY <2>1, <2>2 DEF VotingInv, StepClosed
<1> QED
  BY <1>1, TimedInit, TimedStep, PTL DEF Spec

-----------------------------------------------------------------------------
(* Agreement among three processes.  What is on its way, as a set: reading *)
(* takes at most the first message, sending adds one, and closing sockets  *)
(* adds none.                                                              *)
LEMMA InMail ==
  \A c, m, n, x : x \in MailOf(c, m, n) <=> \E i \in DOMAIN c[m][n] : x = c[m][n][i]
BY DEF MailOf

(* What is on its way is messages.                                         *)
LEMMA MailBack ==
  ASSUME NEW c \in Chans, NEW m \in Node, NEW n \in Node
  PROVE  MailOf(c, m, n) \subseteq Message
<1>1. c[m][n] \in Seq(Message)
  BY DEF Chans
<1>2. \A i \in DOMAIN c[m][n] : c[m][n][i] \in Message
  BY <1>1
<1> QED
  BY <1>2 DEF MailOf

(* Reading takes the first message of one stream.                          *)
LEMMA MailPopped ==
  ASSUME TypeOK, NEW m \in Node, NEW n \in Node, Receives(m, n)
  PROVE  /\ Head(chan[m][n]) \in Mail(m, n)
         /\ \A a, b \in Node :
              /\ MailOf(Popped(m, n), a, b) \subseteq Mail(a, b)
              /\ a # m \/ b # n => Mail(a, b) = MailOf(Popped(m, n), a, b)
              /\ Mail(a, b) \subseteq MailOf(Popped(m, n), a, b) \cup {Head(chan[m][n])}
<1>1. chan[m][n] \in Seq(Message) /\ chan[m][n] # <<>>
  BY DEF TypeOK, Receives
<1>2. 1 \in DOMAIN chan[m][n] /\ Head(chan[m][n]) = chan[m][n][1]
  BY <1>1
<1>3. Head(chan[m][n]) \in Mail(m, n)
  BY <1>2 DEF Mail, MailOf
<1>4. \A i \in DOMAIN Tail(chan[m][n]) :
        i + 1 \in DOMAIN chan[m][n] /\ Tail(chan[m][n])[i] = chan[m][n][i + 1]
  BY <1>1
<1>5. \A i \in DOMAIN chan[m][n] : i # 1 =>
        i - 1 \in DOMAIN Tail(chan[m][n]) /\ Tail(chan[m][n])[i - 1] = chan[m][n][i]
  BY <1>1
<1>6. \A a, b \in Node :
        Popped(m, n)[a][b] = IF a = m /\ b = n THEN Tail(chan[m][n]) ELSE chan[a][b]
  BY DEF Popped, TypeOK
<1>7. MailOf(Popped(m, n), m, n) \subseteq Mail(m, n)
  <2> SUFFICES ASSUME NEW i \in DOMAIN Popped(m, n)[m][n]
               PROVE  Popped(m, n)[m][n][i] \in Mail(m, n)
    BY InMail
  <2>1. i + 1 \in DOMAIN chan[m][n] /\ Popped(m, n)[m][n][i] = chan[m][n][i + 1]
    BY <1>4, <1>6
  <2> QED
    BY <2>1, InMail DEF Mail
<1>8. Mail(m, n) \subseteq MailOf(Popped(m, n), m, n) \cup {Head(chan[m][n])}
  <2> SUFFICES ASSUME NEW i \in DOMAIN chan[m][n]
               PROVE  \/ chan[m][n][i] = Head(chan[m][n])
                      \/ chan[m][n][i] \in MailOf(Popped(m, n), m, n)
    BY InMail DEF Mail
  <2>1. CASE i = 1
    BY <1>2, <2>1
  <2>2. CASE i # 1
    BY <1>5, <1>6, <2>2, InMail
  <2> QED
    BY <2>1, <2>2
<1>9. \A a, b \in Node : a # m \/ b # n => Mail(a, b) = MailOf(Popped(m, n), a, b)
  BY <1>6 DEF Mail, MailOf
<1> QED
  BY <1>3, <1>7, <1>8, <1>9

(* Sending adds one to what is on its way to whoever is still there.       *)
LEMMA MailSent ==
  ASSUME NEW c \in Chans, NEW n \in Node, NEW msg \in Message,
         NEW a \in Node, NEW b \in Node
  PROVE  MailOf(Broadcast(c, n, msg), a, b) =
           MailOf(c, a, b) \cup
             (IF a = n /\ b # n /\ mode[b] # "crashed" THEN {msg} ELSE {})
<1> DEFINE d == Broadcast(c, n, msg)
           q == c[a][b]
<1>1. q \in Seq(Message)
  BY DEF Chans
<1>2. d[a][b] = IF a = n /\ b # n /\ mode[b] # "crashed" THEN Append(q, msg) ELSE q
  BY DEF Broadcast, Chans
<1>3. /\ DOMAIN Append(q, msg) = (DOMAIN q) \cup {Len(q) + 1}
      /\ \A i \in DOMAIN q : Append(q, msg)[i] = q[i]
      /\ Append(q, msg)[Len(q) + 1] = msg
  BY <1>1
<1> HIDE DEF d, q
<1>4. {Append(q, msg)[i] : i \in DOMAIN Append(q, msg)} = {q[i] : i \in DOMAIN q} \cup {msg}
  BY <1>3
<1> QED
  BY <1>2, <1>4 DEF MailOf, d, q

(* What arrives of a stream that was cut was on its way.                   *)
LEMMA MailCut ==
  ASSUME TypeOK, NEW n \in Node, NEW out \in CutStreams(n), NEW k \in Node
  PROVE  {out[k][i] : i \in DOMAIN out[k]} \subseteq Mail(n, k)
<1>1. chan[n][k] \in Seq(Message)
  BY DEF TypeOK
<1>2. PICK j \in 0 .. Len(chan[n][k]) : out[k] = SubSeq(chan[n][k], 1, j)
  BY CutPrefix
<1>3. \A i \in DOMAIN out[k] : i \in DOMAIN chan[n][k] /\ out[k][i] = chan[n][k][i]
  BY <1>1, <1>2
<1> QED
  BY <1>3 DEF Mail, MailOf

-----------------------------------------------------------------------------
(* What a ballot keeps when somebody acts on it: the votes in it count, or *)
(* it shrinks; it stays shrunk; what it carries, and that it was voted in. *)
Continues(v, w) ==
  /\ v.voted \subseteq w.voted \/ (Shrunk(w.nodes) /\ v.voted \subseteq w.nodes)
  /\ Shrunk(v.nodes) => w.nodes = v.nodes
  /\ v.carries \subseteq w.carries
  /\ v.state = "Voted" => w.state = "Voted"

(* A step in which n makes w of its ballot in step s, sends the messages   *)
(* out and decides what is in res.                                         *)
Moves(n, s, w, out, res) ==
  /\ Forward
  /\ \A m \in Node : mode[m] = "crashed" => mode'[m] = "crashed"
  /\ \A m \in Node : \A k \in DOMAIN started'[m] :
       \/ k \in DOMAIN started[m]
       \/ m = n /\ started'[m][k] = s /\ next[n] <= s /\ Alive(n)
  /\ \A m, k \in Node :
       Mail(m, k)' \subseteq Mail(m, k) \cup (IF m = n /\ k # n THEN out ELSE {})
  /\ \A m \in Node : \A t \in Step :
       /\ Finished(m, t) => Finished(m, t)'
       /\ \/ Finished(m, t)'
          \/ voting'[m][t] = IF m = n /\ t = s THEN w ELSE voting[m][t]
       /\ m = n /\ t = s => Finished(m, t)' \/ Continues(voting[n][s], w)
  /\ \A m \in Node : Results(m)' \subseteq Results(m) \cup (IF m = n THEN res ELSE {})

(* The types again, as the provers want them.                              *)
LEMMA Naturals ==
  ASSUME TypeOK
  PROVE  /\ \A m \in Node : next[m] \in Nat /\ current[m] \in Nat
         /\ \A r \in Step : r \in Nat
         /\ \A m \in Node : \A k \in DOMAIN started[m] : started[m][k] \in Step
         /\ \A m \in Node : \A r \in Step : voting[m][r] \in Object
BY Numbers DEF TypeOK

(* Who has voted in a ballot has proposed all it will in this step.        *)
LEMMA CountedGoes ==
  ASSUME TypeOK, TypeOK', NEW n, NEW s, NEW w, NEW out, NEW res, Moves(n, s, w, out, res),
         NEW m \in Node, NEW r \in Step, NEW batch, Counted(m, r, batch)
  PROVE  CountedLater(m, r, batch)
<1>1. next[m] \in Nat /\ next'[m] \in Nat /\ r \in Nat /\ next[m] <= next'[m]
  BY VotingAssumption DEF TypeOK, Step, Moves, Forward
<1>2. r < next'[m]
  BY <1>1 DEF Counted
<1>3. ASSUME NEW k \in DOMAIN started'[m], started'[m][k] = r
      PROVE  <<m, k>> \in batch
  <2>1. k \in DOMAIN started[m]
    BY <1>1, <1>3 DEF Moves, Counted
  <2>2. started[m][k] = r
    BY <1>3, <2>1 DEF Moves, Forward
  <2> QED
    BY <2>1, <2>2 DEF Counted
<1> QED
  BY <1>2, <1>3 DEF CountedLater

(* Nobody proposes in a step that everybody who is still there has passed. *)
LEMMA PassedProposals ==
  ASSUME TypeOK, NEW n \in Node, NEW s, NEW w, NEW out, NEW res, Moves(n, s, w, out, res),
         NEW r \in Nat, Passed(r)
  PROVE  ProposedLater(r) = Proposed(r)
<1>1. Proposed(r) \subseteq ProposedLater(r)
  BY ProposalsStay DEF Moves
<1>2. ASSUME NEW m \in Node, NEW k \in DOMAIN started'[m], started'[m][k] = r
      PROVE  k \in DOMAIN started[m] /\ started[m][k] = r
  <2>1. Alive(m) => r < next[m] /\ next[m] \in Nat
    BY DEF Passed, TypeOK
  <2>2. k \in DOMAIN started[m]
    BY <1>2, <2>1 DEF Moves
  <2> QED
    BY <1>2, <2>2 DEF Moves, Forward
<1>3. ProposedLater(r) \subseteq Proposed(r)
  BY <1>2, ProposedDef
<1> QED
  BY <1>1, <1>3

(* A vote that was counted stays so, or its ballot shrinks or closes.      *)
LEMMA HeardStays ==
  ASSUME NEW n, NEW s, NEW w, NEW out, NEW res, Moves(n, s, w, out, res),
         NEW m \in Node, NEW a, NEW t \in Step, Heard(m, a, t)
  PROVE  Heard(m, a, t)'
<1> SUFFICES ASSUME ~Finished(m, t)'
             PROVE  Shrunk(voting'[m][t].nodes) \/ a \in voting'[m][t].voted
  BY DEF Heard
<1>1. ~Finished(m, t)
  BY DEF Moves
<1>2. Shrunk(voting[m][t].nodes) \/ a \in voting[m][t].voted
  BY <1>1 DEF Heard
<1>3. CASE m = n /\ t = s
  <2>1. voting'[m][t] = w /\ Continues(voting[n][s], w)
    BY <1>3 DEF Moves
  <2> QED
    BY <1>2, <1>3, <2>1 DEF Continues
<1>4. CASE ~(m = n /\ t = s)
  <2>1. voting'[m][t] = voting[m][t]
    BY <1>4 DEF Moves
  <2> QED
    BY <1>2, <2>1
<1> QED
  BY <1>3, <1>4

(* Who has voted in a step has for good.                                   *)
LEMMA ActedStays ==
  ASSUME NEW n, NEW s, NEW w, NEW out, NEW res, Moves(n, s, w, out, res),
         NEW m \in Node, NEW t \in Step, Acted(m, t)
  PROVE  Acted(m, t)'
<1> SUFFICES ASSUME ~Finished(m, t)'
             PROVE  voting'[m][t].state = "Voted"
  BY DEF Acted
<1>1. ~Finished(m, t) /\ voting[m][t].state = "Voted"
  BY DEF Moves, Acted
<1>2. CASE m = n /\ t = s
  <2>1. voting'[m][t] = w /\ Continues(voting[n][s], w)
    BY <1>2 DEF Moves
  <2> QED
    BY <1>1, <1>2, <2>1 DEF Continues
<1>3. CASE ~(m = n /\ t = s)
  BY <1>1, <1>3 DEF Moves
<1> QED
  BY <1>2, <1>3

(* What was passed on stays so.                                            *)
LEMMA RelayedStays ==
  ASSUME NEW n, NEW s, NEW w, NEW out, NEW res, Moves(n, s, w, out, res),
         NEW t \in Step, NEW x, Relayed(x, t)
  PROVE  Relayed(x, t)'
<1>1. PICK m \in Node \ {x[1]} : Heard(m, x[1], t)
  BY DEF Relayed
<1>2. Heard(m, x[1], t)'
  BY <1>1, HeardStays
<1> QED
  BY <1>2 DEF Relayed

(* What somebody knows was known before, or is proposed in this step.      *)
Old(x) == Known(x) \/ x \notin Submitted

(* Nothing becomes known that was not, but a new proposal.                 *)
LEMMA KnownBack ==
  ASSUME TypeOK', Within', NEW n \in Node, NEW s, NEW w, NEW out, NEW res,
         Moves(n, s, w, out, res),
         mode'[n] # "crashed" => \A x \in w.carries : Old(x),
         \A msg \in out : \A x \in msg.carries : Old(x),
         \A d \in res : \A x \in d[2] : Old(x),
         NEW x, Known(x)'
  PROVE  Old(x)
<1>1. PICK m \in Node : mode'[m] # "crashed" /\ Knows(m, x)'
  BY DEF Known
<1>2. mode[m] # "crashed"
  BY <1>1 DEF Moves
<1>3. ASSUME Knows(m, x)
      PROVE  Old(x)
  BY <1>2, <1>3 DEF Known, Old
<1>4. ASSUME NEW d \in Results(m)', x \in d[2]
      PROVE  Old(x)
  <2>1. d \in Results(m) \/ d \in res
    BY DEF Moves
  <2> QED
    BY <1>3, <1>4, <2>1 DEF Knows
<1>5. ASSUME NEW t \in Step, x \in voting'[m][t].carries
      PROVE  Old(x)
  <2>1. CASE Finished(m, t)'
    <3>1. CASE voting'[m][t].state = "Completed"
      <4>1. <<t, voting'[m][t].carries>> \in Results(m)'
        BY <3>1 DEF Results
      <4> QED
        BY <1>4, <1>5, <4>1
    <3>2. CASE t < current'[m]
      <4>1. current'[m] <= t => FALSE
        <5>1. current'[m] \in Nat /\ t \in Nat
          BY VotingAssumption DEF TypeOK, Step
        <5> QED
          BY <3>2, <5>1
      <4>2. voting'[m][t] = Fresh
        BY <4>1 DEF Within
      <4> QED
        BY <1>5, <4>2 DEF Fresh
    <3> QED
      BY <2>1, <3>1, <3>2 DEF Finished
  <2>2. CASE ~Finished(m, t)'
    <3>1. voting'[m][t] = voting[m][t] \/ (m = n /\ voting'[m][t] = w)
      BY <2>2 DEF Moves
    <3> QED
      BY <1>1, <1>3, <1>5, <3>1 DEF Knows
  <2> QED
    BY <2>1, <2>2
<1>6. ASSUME NEW k \in Node, NEW msg \in Mail(k, m)', x \in msg.carries
      PROVE  Old(x)
  <2>1. msg \in Mail(k, m) \/ msg \in out
    BY DEF Moves
  <2> QED
    BY <1>3, <1>6, <2>1 DEF Knows
<1> QED
  BY <1>1, <1>4, <1>5, <1>6 DEF Knows

-----------------------------------------------------------------------------
(* What a step leaves of a ballot that is still open: all votes but n's    *)
(* own came in counted, or its timer ran out.                              *)
Votes(n, s, w) ==
  s \in Step =>
    \/ Finished(n, s)'
    \/ /\ w.state = "Voted" /\ n \in w.voted /\ w.voted # w.nodes /\ w.nodes # {}
       /\ \A m \in w.voted : CountedLater(m, s, w.carries)
       /\ \A x \in w.carries : x[1] = n \/ Relayed(x, s)'
       /\ \/ w.nodes = Node /\ voting[n][s].nodes \in {{}, Node}
          \/ /\ voting[n][s].nodes = Node /\ w.nodes = voting[n][s].voted /\ w.nodes # Node
             /\ w.voted = {n} /\ Settled(s) /\ timer'[n][s] = "off"
             /\ \E m \in Node \ {n} : w.nodes = {n, m}

(* What it sends: a vote among all, one among two, or a decision.          *)
Sends(n, s, out, res) ==
  /\ \A msg \in out :
       /\ msg \in Message /\ msg.step = s /\ s <= next[n] /\ Alive(n)
       /\ msg.type = "vote" =>
            /\ CountedLater(n, s, msg.carries)
            /\ \/ /\ msg.nodes = Node /\ ~Settled(s)
                  /\ \A x \in msg.carries : x[1] = n \/ Relayed(x, s)'
               \/ /\ Settled(s) /\ Waiting(n, s) /\ msg.nodes # Node
                  /\ voting[n][s].nodes = Node /\ msg.nodes = voting[n][s].voted
                  /\ \E m \in Node \ {n} : msg.nodes = {n, m}
       /\ msg.type = "commit" => <<s, msg.carries>> \in res
  /\ \A d \in res :
       d[1] \in Step /\ Final(d[1], d[2]) /\ ProposedLater(d[1]) = Proposed(d[1])

(* It hands on nothing that nobody knew of.                                *)
HandsOn(n, w, out, res) ==
  /\ mode'[n] # "crashed" => \A x \in w.carries : Old(x)
  /\ \A msg \in out : \A x \in msg.carries : Old(x)
  /\ \A d \in res : \A x \in d[2] : Old(x)

(* Those that are still there read what is sent to them, and are told what *)
(* n does.                                                                 *)
Reads(n, out) ==
  /\ \A m, k \in Node : Alive(m)' /\ Alive(k)' =>
       \A msg \in Mail(m, k) :
         \/ msg \in Mail(m, k)'
         \/ /\ Heard(k, m, msg.step)'
            /\ msg.type = "commit" => Finished(k, msg.step)'
  /\ \A k \in Node \ {n} : Alive(k)' => out \subseteq Mail(n, k)'

Tells(n, s, out) ==
  \A m \in Node : \A t \in Step : Alive(m)' =>
    /\ t < next'[m] =>
         t < next[m] \/ (m = n /\ t = s /\ out # {} /\ Acted(n, s)')
    /\ Finished(m, t)' =>
         \/ Finished(m, t)
         \/ m = n /\ t = s /\ \E msg \in out : msg.type = "commit"

(* Its streams: one message less, one more, or the end missing.            *)
Streams(n, out) ==
  \A m, k \in Node : Alive(k)' =>
    \/ chan'[m][k] = chan[m][k]
    \/ /\ chan[m][k] # <<>> /\ chan'[m][k] = Tail(chan[m][k])
       /\ \E t \in Step : t = Head(chan[m][k]).step /\ Acted(k, t)'
    \/ /\ m = n /\ m # k
       /\ \E msg \in out : chan'[m][k] = Append(chan[m][k], msg)
    \/ \E j \in 0 .. Len(chan[m][k]) : chan'[m][k] = SubSeq(chan[m][k], 1, j)

(* Its timers and modes.                                                   *)
Clocks(n, s, w) ==
  /\ \A m \in Node : \A t \in Step :
       \/ timer'[m][t] \in {timer[m][t], "off"}
       \/ timer[m][t] # "off" /\ timer'[m][t] = "queued" /\ Settled(t)
       \/ m = n /\ t = s /\ timer'[m][t] = "armed" /\ ~Shrunk(w.nodes)
  /\ \A m \in Node : \A t \in Step :
       Alive(m)' /\ timer'[m][t] = "armed" => current'[m] <= t
  /\ \A m \in Node : mode'[m] \in {"closing", "closed"} =>
       mode[m] \in {"closing", "closed"} \/ \E k \in Node \ {m} : ~Alive(k)

Keeps(n, s, w, out, res) ==
  /\ Votes(n, s, w)
  /\ Sends(n, s, out, res)
  /\ HandsOn(n, w, out, res)
  /\ Reads(n, out)
  /\ Tells(n, s, out)
  /\ Streams(n, out)
  /\ Clocks(n, s, w)

(* The operator that stands for the next state is that.                    *)
LEMMA LaterCounted ==
  \A m, s, batch : CountedLater(m, s, batch) <=> Counted(m, s, batch)'
BY DEF CountedLater, Counted

(* What a process proposes stays in its own ballot until that closes.      *)
LEMMA OwnHeldStays ==
  ASSUME TypeOK, TypeOK', OwnHeld, NEW n \in Node, NEW s, NEW w, NEW out, NEW res,
         Moves(n, s, w, out, res), Votes(n, s, w)
  PROVE  OwnHeld'
<1>1. \A m \in Node : \A k \in DOMAIN started'[m] : started'[m][k] \in Step
  <2>1. \A m \in Node : started'[m] \in Seq(Step)
    BY DEF TypeOK
  <2> QED
    BY <2>1
<1> SUFFICES ASSUME NEW m \in Node, NEW k \in DOMAIN started'[m], NEW t \in Step,
                    t = started'[m][k], ~Finished(m, t)'
             PROVE  <<m, k>> \in voting'[m][t].carries
  BY <1>1 DEF OwnHeld, Finished
<1>2. /\ ~Finished(m, t)
      /\ voting'[m][t] = IF m = n /\ t = s THEN w ELSE voting[m][t]
      /\ m = n /\ t = s => Continues(voting[n][s], w)
  BY DEF Moves
<1>3. CASE k \in DOMAIN started[m]
  <2>1. started[m][k] = t
    BY <1>3 DEF Moves, Forward
  <2>2. <<m, k>> \in voting[m][t].carries
    BY <1>2, <1>3, <2>1 DEF OwnHeld
  <2> QED
    BY <1>2, <2>2 DEF Continues
<1>4. CASE k \notin DOMAIN started[m]
  <2>1. m = n /\ t = s
    BY <1>4 DEF Moves
  <2>2. CountedLater(n, s, w.carries)
    BY <1>2, <2>1 DEF Votes
  <2>3. <<m, k>> \in w.carries
    BY <2>1, <2>2 DEF CountedLater
  <2> QED
    BY <1>2, <2>1, <2>3
<1> QED
  BY <1>3, <1>4

(* The votes that a ballot has counted stay complete.                      *)
LEMMA BallotsStay ==
  ASSUME TypeOK, TypeOK', BallotsOK, NEW n \in Node, NEW s, NEW w, NEW out, NEW res,
         Moves(n, s, w, out, res), Votes(n, s, w)
  PROVE  BallotsOK'
<1> SUFFICES ASSUME NEW m \in Node, NEW t \in Step, ~Finished(m, t)'
             PROVE  BallotOK(m, t, voting[m][t])'
  BY DEF BallotsOK
<1>1. /\ ~Finished(m, t)
      /\ voting'[m][t] = IF m = n /\ t = s THEN w ELSE voting[m][t]
  BY DEF Moves
<1>2. CASE m = n /\ t = s
  <2>1. /\ w.state = "Voted" /\ n \in w.voted /\ w.voted # w.nodes /\ w.nodes # {}
        /\ \A k \in w.voted : CountedLater(k, s, w.carries)
    BY <1>2 DEF Votes
  <2>2. voting'[m][t] = w
    BY <1>1, <1>2
  <2> QED
    BY <1>2, <2>1, <2>2, LaterCounted DEF BallotOK
<1>3. CASE ~(m = n /\ t = s)
  <2> DEFINE v == voting[m][t]
  <2>1. BallotOK(m, t, v) /\ voting'[m][t] = v
    BY <1>1, <1>3 DEF BallotsOK
  <2>2. v.voted \subseteq Node
    BY Naturals DEF Object
  <2> HIDE DEF v
  <2>3. \A k \in v.voted : CountedLater(k, t, v.carries)
    BY <2>1, <2>2, CountedGoes DEF BallotOK
  <2> QED
    BY <2>1, <2>3, LaterCounted DEF BallotOK, v
<1> QED
  BY <1>2, <1>3

(* So do those on their way, and nobody writes to itself.                  *)
LEMMA VotesStay ==
  ASSUME TypeOK, TypeOK', VotesOK, NEW n \in Node, NEW s, NEW w, NEW out, NEW res,
         Moves(n, s, w, out, res), Sends(n, s, out, res)
  PROVE  VotesOK'
<1> SUFFICES ASSUME NEW m \in Node, NEW k \in Node
             PROVE  /\ \A msg \in Mail(m, k)' : VoteOK(m, msg)'
                    /\ Mail(k, k)' = {}
  BY DEF VotesOK
<1>1. Mail(k, k)' = {}
  BY DEF Moves, VotesOK
<1>2. ASSUME NEW msg \in Mail(m, k)', msg.type = "vote"
      PROVE  msg.nodes # {} /\ Counted(m, msg.step, msg.carries)'
  <2>1. CASE msg \in Mail(m, k)
    <3>1. VoteOK(m, msg)
      BY <2>1 DEF VotesOK
    <3>2. chan \in Chans
      BY DEF TypeOK, Chans
    <3>3. msg.step \in Step
      BY <2>1, <3>2, MailBack DEF Mail, Message
    <3> QED
      BY <1>2, <3>1, <3>3, CountedGoes, LaterCounted DEF VoteOK
  <2>2. CASE m = n /\ msg \in out
    <3>1. msg.step = s /\ CountedLater(n, s, msg.carries) /\ msg.nodes # {}
      BY <1>2, <2>2 DEF Sends
    <3> QED
      BY <2>2, <3>1, LaterCounted
  <2> QED
    BY <2>1, <2>2 DEF Moves
<1> QED
  BY <1>1, <1>2 DEF VoteOK

(* What reached a ballot through somebody else was counted there.          *)
LEMMA RelaysStay ==
  ASSUME TypeOK, TypeOK', RelaysOK, NEW n \in Node, NEW s, NEW w, NEW out, NEW res,
         Moves(n, s, w, out, res), Votes(n, s, w), Sends(n, s, out, res)
  PROVE  RelaysOK'
<1> SUFFICES ASSUME NEW m \in Node
             PROVE  /\ \A t \in Step : \A x \in voting'[m][t].carries :
                         x[1] = m \/ Finished(m, t)' \/ Relayed(x, t)'
                    /\ \A k \in Node : \A msg \in Mail(m, k)' : \A x \in msg.carries :
                         msg.type = "vote" /\ msg.nodes = Node /\ x[1] # m
                           => Relayed(x, msg.step)'
  BY DEF RelaysOK
<1>1. ASSUME NEW t \in Step, NEW x \in voting'[m][t].carries, ~Finished(m, t)', x[1] # m
      PROVE  Relayed(x, t)'
  <2>1. ~Finished(m, t) /\ voting'[m][t] = IF m = n /\ t = s THEN w ELSE voting[m][t]
    BY <1>1 DEF Moves
  <2>2. CASE m = n /\ t = s
    BY <1>1, <2>1, <2>2 DEF Votes
  <2>3. CASE ~(m = n /\ t = s)
    <3>1. Relayed(x, t)
      BY <1>1, <2>1, <2>3 DEF RelaysOK
    <3> QED
      BY <3>1, RelayedStays
  <2> QED
    BY <2>2, <2>3
<1>2. ASSUME NEW k \in Node, NEW msg \in Mail(m, k)', NEW x \in msg.carries,
             msg.type = "vote", msg.nodes = Node, x[1] # m
      PROVE  Relayed(x, msg.step)'
  <2>1. CASE msg \in Mail(m, k)
    <3>1. Relayed(x, msg.step)
      BY <1>2, <2>1 DEF RelaysOK
    <3>2. chan \in Chans
      BY DEF TypeOK, Chans
    <3>3. msg.step \in Step
      BY <2>1, <3>2, MailBack DEF Mail, Message
    <3> QED
      BY <3>1, <3>3, RelayedStays
  <2>2. CASE m = n /\ msg \in out
    BY <1>2, <2>2 DEF Sends
  <2> QED
    BY <2>1, <2>2 DEF Moves
<1> QED
  BY <1>1, <1>2

-----------------------------------------------------------------------------
(* A result of a step that everybody has passed stays one that has all.    *)
LEMMA FinalStays ==
  ASSUME TypeOK', Within', NEW n \in Node, NEW s, NEW w, NEW out, NEW res,
         Moves(n, s, w, out, res), HandsOn(n, w, out, res),
         NEW r, NEW batch, Final(r, batch), ProposedLater(r) = Proposed(r)
  PROVE  Final(r, batch)'
<1> SUFFICES ASSUME NEW x \in Proposed(r)', Known(x)'
             PROVE  x \in batch
  BY DEF Final
<1>1. x \in Proposed(r)
  BY DEF Proposed, ProposedLater, Submitted
<1>2. Old(x)
  BY KnownBack DEF HandsOn
<1> QED
  BY <1>1, <1>2 DEF Old, Final, Proposed

(* Whoever has decided a step knows that nobody proposes in it.            *)
LEMMA ResultsPassed ==
  ASSUME TimedInv, Trusted, NEW m \in Node, NEW d \in Results(m)
  PROVE  d[1] \in Nat /\ Passed(d[1]) /\ d[2] \subseteq Proposed(d[1])
<1>1. CASE d \in {<<i - 1, log[m][i]>> : i \in DOMAIN log[m]}
  <2>1. PICK i \in DOMAIN log[m] : d = <<i - 1, log[m][i]>>
    BY <1>1
  <2>2. log[m] \in Seq(Batch)
    BY DEF TimedInv, TypeOK
  <2>3. i - 1 \in Nat
    BY <2>2
  <2> QED
    BY <2>1, <2>3 DEF TimedInv, LogsFit
<1>2. CASE d \in {<<s, voting[m][s].carries>> :
                    s \in {r \in Step : voting[m][r].state = "Completed"}}
  <2>1. PICK s \in Step : voting[m][s].state = "Completed" /\ d = <<s, voting[m][s].carries>>
    BY <1>2
  <2>2. s \in Nat
    BY VotingAssumption DEF Step
  <2> QED
    BY <2>1, <2>2 DEF TimedInv, ObjectsFit, ObjectFits
<1> QED
  BY <1>1, <1>2 DEF Results

(* So does whoever wrote of a decision.                                    *)
LEMMA LetterPassed ==
  ASSUME TimedInv, Trusted, NEW m \in Node, NEW k \in Node, NEW msg \in Mail(m, k)
  PROVE  /\ msg \in Message /\ msg.step \in Step /\ msg.step \in Nat
         /\ msg.carries \subseteq Proposed(msg.step) /\ msg.step < next[m]
         /\ Shrunk(msg.nodes) \/ msg.type = "commit" => Passed(msg.step)
<1>1. chan \in Chans
  BY DEF TimedInv, TypeOK, Chans
<1>2. msg \in Message
  BY <1>1, MailBack DEF Mail
<1>3. msg.step \in Step
  BY <1>2 DEF Message
<1>4. msg.step \in Nat
  BY <1>3, VotingAssumption DEF Step
<1>5. PICK i \in DOMAIN chan[m][k] : msg = chan[m][k][i]
  BY InMail DEF Mail
<1>6. MessageFits(m, msg)
  BY <1>5 DEF TimedInv, MessagesFit
<1> QED
  BY <1>2, <1>3, <1>4, <1>6 DEF MessageFits

(* Every result stays final.                                               *)
LEMMA ResultsStay ==
  ASSUME TimedInv, Trusted, TypeOK', Within', ResultsFinal,
         NEW n \in Node, NEW s, NEW w, NEW out, NEW res,
         Moves(n, s, w, out, res), Sends(n, s, out, res), HandsOn(n, w, out, res)
  PROVE  ResultsFinal'
<1>0. TypeOK
  BY DEF TimedInv
<1> SUFFICES ASSUME NEW m \in Node, mode'[m] # "crashed"
             PROVE  /\ \A d \in Results(m)' : Final(d[1], d[2])'
                    /\ \A k \in Node : \A msg \in Mail(k, m)' :
                         msg.type = "commit" => Final(msg.step, msg.carries)'
  BY DEF ResultsFinal
<1>1. mode[m] # "crashed"
  BY DEF Moves
<1>2. ASSUME NEW d \in res
      PROVE  Final(d[1], d[2])'
  BY <1>2, FinalStays DEF Sends
<1>3. ASSUME NEW d \in Results(m)'
      PROVE  Final(d[1], d[2])'
  <2>1. CASE d \in Results(m)
    <3>1. d[1] \in Nat /\ Passed(d[1])
      BY <2>1, ResultsPassed
    <3>2. ProposedLater(d[1]) = Proposed(d[1])
      BY <1>0, <3>1, PassedProposals
    <3>3. Final(d[1], d[2])
      BY <1>1, <2>1 DEF ResultsFinal
    <3> QED
      BY <3>2, <3>3, FinalStays
  <2>2. CASE d \in res
    BY <1>2, <2>2
  <2> QED
    BY <2>1, <2>2 DEF Moves
<1>4. ASSUME NEW k \in Node, NEW msg \in Mail(k, m)', msg.type = "commit"
      PROVE  Final(msg.step, msg.carries)'
  <2>1. CASE msg \in Mail(k, m)
    <3>1. msg.step \in Nat /\ Passed(msg.step)
      BY <1>4, <2>1, LetterPassed
    <3>2. ProposedLater(msg.step) = Proposed(msg.step)
      BY <1>0, <3>1, PassedProposals
    <3>3. Final(msg.step, msg.carries)
      BY <1>1, <1>4, <2>1 DEF ResultsFinal
    <3> QED
      BY <3>2, <3>3, FinalStays
  <2>2. CASE msg \in out
    <3>1. <<s, msg.carries>> \in res /\ msg.step = s
      BY <1>4, <2>2 DEF Sends
    <3>2. Final(s, msg.carries)'
      BY <1>2, <3>1
    <3> QED
      BY <3>1, <3>2
  <2> QED
    BY <2>1, <2>2 DEF Moves
<1> QED
  BY <1>3, <1>4

(* Who is alone with nothing left to read stays so.                        *)
LEMMA HopelessStays ==
  ASSUME NEW n \in Node, NEW s, NEW w, NEW out, NEW res,
         Moves(n, s, w, out, res), Sends(n, s, out, res), NEW m \in Node, Hopeless(m)
  PROVE  Hopeless(m)'
<1>1. \A k \in Node \ {m} : ~Alive(k) /\ ~Alive(k)'
  BY DEF Hopeless, Moves, Forward
<1>2. \A k \in Node : Mail(k, m)' = {}
  BY <1>1 DEF Hopeless, Moves, Sends
<1> QED
  BY <1>1, <1>2 DEF Hopeless

(* Once enough time has passed for a step, it has.                         *)
LEMMA SettledStays ==
  ASSUME TypeOK, TypeOK', Within',
         NEW n \in Node, NEW s, NEW w, NEW out, NEW res,
         Moves(n, s, w, out, res), Sends(n, s, out, res), HandsOn(n, w, out, res),
         NEW t \in Step, Settled(t)
  PROVE  Settled(t)'
<1>1. (\E m \in Node : ~Alive(m))'
  BY DEF Settled, Moves, Forward
<1>2. Passed(t) /\ t \in Nat
  BY VotingAssumption DEF Settled, Step
<1>3. Passed(t)'
  <2>1. PassedLater(t)
    BY <1>2, PassedStays DEF Moves
  <2> QED
    BY <2>1 DEF PassedLater, Passed
<1>4. ASSUME NEW m \in Node, Waiting(m, t)'
      PROVE  /\ \A k \in Node : \A msg \in Mail(k, m)' :
                  msg.type = "vote" /\ msg.step = t => msg.nodes # Node
             /\ \A x \in Proposed(t)' :
                  Known(x)' => x \in voting'[m][t].carries \/ Hopeless(m)'
             /\ \A k \in Node : Alive(k)' =>
                  \/ k = m
                  \/ k \in voting'[m][t].voted
                  \/ Shrunk(voting'[m][t].nodes) /\ k \in voting'[m][t].nodes
  <2>1. /\ Waiting(m, t) /\ ~Finished(m, t)'
        /\ voting'[m][t] = IF m = n /\ t = s THEN w ELSE voting[m][t]
        /\ m = n /\ t = s => Continues(voting[n][s], w)
    BY <1>4 DEF Waiting, Moves, Forward
  <2>2. ASSUME NEW k \in Node, NEW msg \in Mail(k, m)', msg.type = "vote", msg.step = t,
               msg.nodes = Node
        PROVE  FALSE
    <3>1. CASE msg \in Mail(k, m)
      BY <2>1, <2>2, <3>1 DEF Settled
    <3>2. CASE msg \in out
      BY <2>2, <3>2 DEF Sends
    <3> QED
      BY <3>1, <3>2 DEF Moves
  <2>3. ASSUME NEW x \in Proposed(t)', Known(x)'
        PROVE  x \in voting'[m][t].carries \/ Hopeless(m)'
    <3>1. x \in Proposed(t)
      <4>1. ProposedLater(t) = Proposed(t)
        BY <1>2, PassedProposals
      <4> QED
        BY <4>1 DEF Proposed, ProposedLater, Submitted
    <3>2. Known(x)
      <4>1. Old(x)
        BY <2>3, KnownBack DEF HandsOn
      <4> QED
        BY <3>1, <4>1 DEF Old, Proposed
    <3>3. x \in voting[m][t].carries \/ Hopeless(m)
      BY <2>1, <3>1, <3>2 DEF Settled
    <3>4. x \in voting[m][t].carries => x \in voting'[m][t].carries
      BY <2>1 DEF Continues
    <3> QED
      BY <3>3, <3>4, HopelessStays
  <2>4. ASSUME NEW k \in Node, Alive(k)', k # m, k \notin voting'[m][t].voted
        PROVE  Shrunk(voting'[m][t].nodes) /\ k \in voting'[m][t].nodes
    <3>1. Alive(k)
      BY <2>4 DEF Moves, Forward
    <3>2. \/ k \in voting[m][t].voted
          \/ Shrunk(voting[m][t].nodes) /\ k \in voting[m][t].nodes
      BY <2>1, <2>4, <3>1 DEF Settled
    <3>3. CASE m = n /\ t = s
      BY <2>1, <2>4, <3>2, <3>3 DEF Continues
    <3>4. CASE ~(m = n /\ t = s)
      BY <2>1, <2>4, <3>2, <3>4
    <3> QED
      BY <3>3, <3>4
  <2> QED
    BY <2>2, <2>3, <2>4
<1> QED
  BY <1>1, <1>3, <1>4 DEF Settled

(* Where a timer has run out or a ballot has shrunk, it was settled.       *)
LEMMA UrgentStays ==
  ASSUME TypeOK, TypeOK', Within', UrgentSettled,
         NEW n \in Node, NEW s, NEW w, NEW out, NEW res,
         Moves(n, s, w, out, res), Votes(n, s, w), Sends(n, s, out, res),
         HandsOn(n, w, out, res), Clocks(n, s, w)
  PROVE  UrgentSettled'
<1> SUFFICES ASSUME NEW m \in Node, NEW t \in Step, Alive(m)', Urgent(m, t)', ~Settled(t)
             PROVE  FALSE
  BY SettledStays DEF UrgentSettled
<1>1. Alive(m)
  BY DEF Moves, Forward
<1>2. ~Urgent(m, t)
  BY <1>1 DEF UrgentSettled
<1>3. CASE timer'[m][t] = "queued"
  BY <1>2, <1>3 DEF Clocks, Urgent
<1>4. CASE ~Finished(m, t)' /\ Shrunk(voting'[m][t].nodes)
  <2>1. /\ ~Finished(m, t)
        /\ voting'[m][t] = IF m = n /\ t = s THEN w ELSE voting[m][t]
    BY <1>4 DEF Moves
  <2>2. CASE m = n /\ t = s
    BY <1>4, <2>1, <2>2 DEF Votes, Shrunk
  <2>3. CASE ~(m = n /\ t = s)
    BY <1>2, <1>4, <2>1, <2>3 DEF Urgent
  <2> QED
    BY <2>2, <2>3
<1>5. ASSUME NEW k \in Node, NEW msg \in Mail(k, m)', msg.step = t,
             msg.type = "vote", msg.nodes # Node
      PROVE  FALSE
  <2>1. CASE msg \in Mail(k, m)
    BY <1>2, <1>5, <2>1 DEF Urgent
  <2>2. CASE msg \in out
    BY <1>5, <2>2 DEF Sends
  <2> QED
    BY <2>1, <2>2 DEF Moves
<1> QED
  BY <1>3, <1>4, <1>5 DEF Urgent

-----------------------------------------------------------------------------
(* Three processes.                                                        *)
LEMMA Three ==
  ASSUME Cardinality(Node) = 3, NEW a \in Node, NEW b \in Node, NEW c \in Node,
         a # b, a # c, b # c
  PROVE  Node = {a, b, c}
<1>1. IsFiniteSet(Node) /\ {a, b, c} \subseteq Node
  BY VotingAssumption
<1>2. IsFiniteSet({a}) /\ Cardinality({a}) = 1
  BY FS_Singleton
<1>3. IsFiniteSet({a, b}) /\ Cardinality({a, b}) = 2
  <2>1. b \notin {a} /\ {a, b} = {a} \cup {b}
    OBVIOUS
  <2> QED
    BY <1>2, <2>1, FS_AddElement
<1>4. Cardinality({a, b, c}) = 3
  <2>1. c \notin {a, b} /\ {a, b, c} = {a, b} \cup {c}
    OBVIOUS
  <2> QED
    BY <1>3, <2>1, FS_AddElement
<1> QED
  BY <1>1, <1>4, FS_Subset

(* A part of three processes with two in it is these two.                  *)
LEMMA Two ==
  ASSUME Cardinality(Node) = 3, NEW a \in Node, NEW b \in Node, a # b,
         NEW S \in SUBSET Node, a \in S, b \in S, S # Node
  PROVE  S = {a, b}
<1>1. \A c \in S : c \in {a, b}
  BY Three
<1> QED
  BY <1>1

(* A ballot only shrinks to two processes that agree to.                   *)
LEMMA PairsStay ==
  ASSUME Cardinality(Node) = 3, TypeOK, BallotsOK, VotesOK, PairsOK,
         NEW n \in Node, NEW s, NEW w, NEW out, NEW res,
         Moves(n, s, w, out, res), Votes(n, s, w), Sends(n, s, out, res),
         Clocks(n, s, w)
  PROVE  PairsOK'
<1> SUFFICES ASSUME NEW m \in Node, NEW t \in Step, Waiting(m, t)'
             PROVE  /\ PairOK(m, t, voting[m][t])'
                    /\ Shrunk(voting'[m][t].nodes) => timer'[m][t] = "off"
  BY DEF PairsOK
<1> DEFINE v == voting[m][t]
           u == voting'[m][t]
<1>1. /\ Waiting(m, t) /\ u = IF m = n /\ t = s THEN w ELSE v
      /\ m = n /\ t = s => Continues(voting[n][s], w)
  BY DEF Waiting, Moves, Forward
<1>2. /\ Shrunk(v.nodes) => v.voted = {m} /\ m \in v.nodes /\ timer[m][t] = "off"
      /\ \A k \in Node : \A msg \in Mail(k, m) :
           msg.type = "vote" /\ msg.step = t /\ msg.nodes # Node =>
             /\ msg.nodes = {k, m}
             /\ v.nodes = {k, m} \/ (v.nodes = Node /\ k \in v.voted)
  BY <1>1 DEF PairsOK, PairOK
<1>3. ~Finished(m, t)'
  BY DEF Waiting
<1>4. v \in Object
  BY Naturals
<1> HIDE DEF v, u
<1>5. ASSUME Shrunk(u.nodes)
      PROVE  u.voted = {m} /\ m \in u.nodes /\ timer'[m][t] = "off"
  <2>1. CASE m = n /\ t = s
    BY <1>1, <1>3, <1>5, <2>1 DEF Votes, Shrunk, u
  <2>2. CASE ~(m = n /\ t = s)
    <3>1. u = v
      BY <1>1, <2>2
    <3>2. timer'[m][t] = "off"
      BY <1>2, <1>5, <2>2, <3>1 DEF Clocks
    <3> QED
      BY <1>2, <1>5, <3>1, <3>2
  <2> QED
    BY <2>1, <2>2
<1>6. ASSUME NEW k \in Node, NEW msg \in Mail(k, m), msg.type = "vote",
             msg.step = t, msg.nodes # Node
      PROVE  /\ msg.nodes = {k, m}
             /\ u.nodes = {k, m} \/ (u.nodes = Node /\ k \in u.voted)
  <2>1. /\ msg.nodes = {k, m} /\ k # m
        /\ v.nodes = {k, m} \/ (v.nodes = Node /\ k \in v.voted)
    BY <1>2, <1>6 DEF VotesOK
  <2>2. CASE ~(m = n /\ t = s)
    BY <1>1, <2>1, <2>2
  <2>3. CASE m = n /\ t = s
    <3>1. u = w /\ v = voting[n][s] /\ Continues(v, w)
      BY <1>1, <2>3 DEF v
    <3>2. \/ w.nodes = Node /\ v.nodes \in {{}, Node}
          \/ /\ w.nodes = v.voted /\ w.nodes # Node
             /\ \E j \in Node \ {n} : w.nodes = {n, j}
      BY <1>3, <2>3, <3>1 DEF Votes
    <3>3. CASE v.nodes = {k, m}
      <4>1. Shrunk(v.nodes)
        BY <1>6, <2>1, <3>3 DEF Shrunk
      <4> QED
        BY <2>1, <3>1, <3>3, <4>1 DEF Continues
    <3>4. CASE v.nodes = Node /\ k \in v.voted
      <4>1. CASE w.nodes = Node
        BY <2>1, <3>1, <3>4, <4>1 DEF Continues, Shrunk
      <4>2. CASE w.nodes = v.voted /\ \E j \in Node \ {n} : w.nodes = {n, j}
        BY <2>1, <2>3, <3>1, <3>4, <4>2
      <4> QED
        BY <3>2, <4>1, <4>2
    <3> QED
      BY <2>1, <3>3, <3>4
  <2> QED
    BY <2>2, <2>3
<1>7. ASSUME NEW msg \in out, m # n, msg.type = "vote", msg.step = t, msg.nodes # Node
      PROVE  /\ msg.nodes = {n, m}
             /\ u.nodes = {n, m} \/ (u.nodes = Node /\ n \in u.voted)
  <2> DEFINE o == voting[n][s]
  <2>1. /\ t = s /\ Settled(s) /\ Waiting(n, s) /\ o.nodes = Node /\ msg.nodes = o.voted
        /\ \E j \in Node \ {n} : msg.nodes = {n, j}
    BY <1>7 DEF Sends
  <2>2. Alive(m) /\ Alive(n) /\ ~Shrunk(o.nodes)
    BY <1>1, <2>1 DEF Waiting, Shrunk
  <2>3. m \in o.voted
    BY <1>7, <2>1, <2>2 DEF Settled
  <2>4. msg.nodes = {n, m}
    BY <1>7, <2>1, <2>3
  <2>5. u = v
    BY <1>1, <1>7
  <2>6. n \in v.voted \/ (Shrunk(v.nodes) /\ n \in v.nodes)
    BY <1>1, <1>7, <2>1, <2>2 DEF Settled, v
  <2>7. CASE Shrunk(v.nodes)
    <3>1. m \in v.nodes /\ v.voted = {m}
      BY <1>2, <2>7
    <3>2. v.nodes \in SUBSET Node /\ v.nodes # Node /\ n \in v.nodes
      BY <1>4, <1>7, <2>6, <2>7, <3>1 DEF Object, Shrunk
    <3>3. v.nodes = {n, m}
      BY <1>7, <3>1, <3>2, Two
    <3> QED
      BY <2>4, <2>5, <3>3
  <2>8. CASE ~Shrunk(v.nodes)
    <3>1. n \in v.voted
      BY <2>6, <2>8
    <3>2. BallotOK(m, t, v) /\ v.state # "Completed"
      BY <1>1 DEF BallotsOK, Waiting, Finished, v
    <3>3. v.nodes # {}
      BY <1>4, <3>1, <3>2 DEF BallotOK, Fresh, Object
    <3> QED
      BY <2>4, <2>5, <2>8, <3>1, <3>3 DEF Shrunk
  <2> QED
    BY <2>7, <2>8
<1>8. PairOK(m, t, voting[m][t])'
  <2>1. ASSUME NEW k \in Node, NEW msg \in Mail(k, m)', msg.type = "vote",
               msg.step = t, msg.nodes # Node
        PROVE  /\ msg.nodes = {k, m}
               /\ u.nodes = {k, m} \/ (u.nodes = Node /\ k \in u.voted)
    <3>1. msg \in Mail(k, m) \/ (k = n /\ m # n /\ msg \in out)
      BY DEF Moves
    <3> QED
      BY <1>6, <1>7, <2>1, <3>1
  <2> QED
    BY <1>5, <2>1 DEF PairOK, u
<1> QED
  BY <1>5, <1>8 DEF u

(* Who shuts down has lost another, and that does not return.              *)
LEMMA OthersStayGone ==
  ASSUME OthersGone, NEW n \in Node, NEW s, NEW w, NEW out, NEW res,
         Moves(n, s, w, out, res), Clocks(n, s, w)
  PROVE  OthersGone'
<1> SUFFICES ASSUME NEW m \in Node, mode'[m] \in {"closing", "closed"}
             PROVE  \E k \in Node \ {m} : ~Alive(k)'
  BY DEF OthersGone
<1>1. \E k \in Node \ {m} : ~Alive(k)
  BY DEF Clocks, OthersGone
<1> QED
  BY <1>1 DEF Moves, Forward

(* Executing a step cancels its timer.                                     *)
LEMMA ArmedStays ==
  ASSUME NEW n \in Node, NEW s, NEW w, Clocks(n, s, w)
  PROVE  ArmedAhead'
BY DEF ArmedAhead, Clocks

(* The table of a process that has voted in a step shows it.               *)
LEMMA HeardActed ==
  ASSUME BallotsOK, TypeOK, NEW m \in Node, NEW k \in Node, NEW t \in Step, Heard(m, k, t)
  PROVE  Acted(m, t)
<1>1. voting[m][t] \in Object
  BY Naturals
<1>2. CASE ~Finished(m, t)
  <2>1. BallotOK(m, t, voting[m][t]) /\ voting[m][t].state # "Completed"
    BY <1>2 DEF BallotsOK, Finished
  <2>2. voting[m][t].state \in {"Initial", "Voted"}
    BY <1>1, <2>1 DEF Object
  <2>3. voting[m][t] # Fresh
    BY <1>2 DEF Heard, Fresh, Shrunk
  <2> QED
    BY <2>1, <2>2, <2>3 DEF BallotOK, Acted
<1> QED
  BY <1>2 DEF Acted

(* Votes and decisions are still on their way or were read.                *)
LEMMA ToldStays ==
  ASSUME TypeOK, TypeOK', AllTold, NEW n \in Node, NEW s, NEW w, NEW out, NEW res,
         Moves(n, s, w, out, res), Sends(n, s, out, res), Reads(n, out), Tells(n, s, out)
  PROVE  AllTold'
<1> SUFFICES ASSUME NEW m \in Node, NEW k \in Node, Alive(m)', Alive(k)', m # k,
                    NEW t \in Step
             PROVE  /\ t < next'[m] =>
                         Heard(k, m, t)' \/ \E msg \in Mail(m, k)' : msg.step = t
                    /\ Finished(m, t)' =>
                         \/ Finished(k, t)'
                         \/ \E msg \in Mail(m, k)' : msg.type = "commit" /\ msg.step = t
  BY DEF AllTold
<1>1. Alive(m) /\ Alive(k)
  BY DEF Moves, Forward
<1>2. ASSUME t < next'[m]
      PROVE  Heard(k, m, t)' \/ \E msg \in Mail(m, k)' : msg.step = t
  <2>1. CASE t < next[m]
    <3>1. Heard(k, m, t) \/ \E msg \in Mail(m, k) : msg.step = t
      BY <1>1, <2>1 DEF AllTold
    <3>2. CASE Heard(k, m, t)
      BY <3>2, HeardStays
    <3>3. ASSUME NEW msg \in Mail(m, k), msg.step = t
          PROVE  Heard(k, m, t)' \/ msg \in Mail(m, k)'
      BY <3>3 DEF Reads, Tells
    <3> QED
      BY <3>1, <3>2, <3>3
  <2>2. CASE m = n /\ t = s /\ out # {}
    <3>1. PICK msg \in out : msg.step = s
      BY <2>2 DEF Sends
    <3>2. msg \in Mail(m, k)'
      BY <2>2, <3>1 DEF Reads, Tells
    <3> QED
      BY <2>2, <3>1, <3>2
  <2> QED
    BY <1>2, <2>1, <2>2 DEF Reads, Tells
<1>3. ASSUME Finished(m, t)'
      PROVE  \/ Finished(k, t)'
             \/ \E msg \in Mail(m, k)' : msg.type = "commit" /\ msg.step = t
  <2>1. CASE Finished(m, t)
    <3>1. \/ Finished(k, t)
          \/ \E msg \in Mail(m, k) : msg.type = "commit" /\ msg.step = t
      BY <1>1, <2>1 DEF AllTold
    <3>2. CASE Finished(k, t)
      BY <3>2 DEF Moves
    <3>3. ASSUME NEW msg \in Mail(m, k), msg.type = "commit", msg.step = t
          PROVE  Finished(k, t)' \/ msg \in Mail(m, k)'
      BY <3>3 DEF Reads, Tells
    <3> QED
      BY <3>1, <3>2, <3>3
  <2>2. CASE m = n /\ t = s /\ \E msg \in out : msg.type = "commit"
    <3>1. PICK msg \in out : msg.type = "commit" /\ msg.step = s
      BY <2>2 DEF Sends
    <3>2. msg \in Mail(m, k)'
      BY <2>2, <3>1 DEF Reads, Tells
    <3> QED
      BY <2>2, <3>1, <3>2
  <2> QED
    BY <1>3, <2>1, <2>2 DEF Reads, Tells
<1> QED
  BY <1>2, <1>3

(* A step without a proposal leaves their order.                           *)
LEMMA StartsStay ==
  ASSUME TypeOK, TypeOK', StartedInOrder, Forward, UNCHANGED started
  PROVE  StartedInOrder'
<1> SUFFICES ASSUME NEW m \in Node, NEW k \in DOMAIN started[m]
             PROVE  started[m][k] < next'[m]
  BY DEF StartedInOrder
<1>1. next[m] \in Nat /\ next'[m] \in Nat /\ next[m] <= next'[m]
  BY DEF TypeOK, Forward
<1>2. started[m][k] \in Nat
  BY Numbers
<1>3. started[m][k] < next[m]
  BY DEF StartedInOrder
<1> QED
  BY <1>1, <1>2, <1>3

-----------------------------------------------------------------------------
(* No step is skipped: what is at the head of a stream is at most one      *)
(* ahead, and what is sent comes behind all that was sent before.          *)
LEMMA SkipsStay ==
  ASSUME TypeOK, TypeOK', BallotsOK, NoneSkipped, AllTold,
         NEW n \in Node, NEW s, NEW w, NEW out, NEW res,
         Moves(n, s, w, out, res), Sends(n, s, out, res), Reads(n, out),
         Tells(n, s, out), Streams(n, out)
  PROVE  NoneSkipped'
<1> SUFFICES ASSUME NEW m \in Node, Alive(m)', NEW r \in Step
             PROVE  /\ r < next'[m] => Acted(m, r)'
                    /\ \A k \in Node : \A i \in DOMAIN chan'[k][m] :
                         r < chan'[k][m][i].step =>
                           Acted(m, r)' \/ \E j \in 1 .. i - 1 : chan'[k][m][j].step = r
  BY DEF NoneSkipped
<1>1. Alive(m)
  BY DEF Moves, Forward
<1>2. ASSUME r < next'[m]
      PROVE  Acted(m, r)'
  <2>1. CASE r < next[m]
    <3>1. Acted(m, r)
      BY <1>1, <2>1 DEF NoneSkipped
    <3> QED
      BY <3>1, ActedStays
  <2> QED
    BY <1>2, <2>1 DEF Reads, Tells
<1>3. ASSUME NEW k \in Node, NEW i \in DOMAIN chan'[k][m], r < chan'[k][m][i].step,
             ~Acted(m, r)'
      PROVE  \E j \in 1 .. i - 1 : chan'[k][m][j].step = r
  <2> DEFINE q == chan[k][m]
             p == chan'[k][m]
  <2>1. q \in Seq(Message) /\ p \in Seq(Message)
    BY DEF TypeOK
  <2>2. ~Acted(m, r)
    BY <1>3, ActedStays
  <2>3. \A h \in DOMAIN q : r < q[h].step => \E j \in 1 .. h - 1 : q[j].step = r
    BY <1>1, <2>2 DEF NoneSkipped
  <2>4. i \in DOMAIN p /\ r < p[i].step
    BY <1>3
  <2>5. /\ p = q
        \/ /\ q # <<>> /\ p = Tail(q)
           /\ \E t \in Step : t = Head(q).step /\ Acted(m, t)'
        \/ /\ k = n /\ n # m
           /\ \E msg \in out : p = Append(q, msg)
        \/ \E j \in 0 .. Len(q) : p = SubSeq(q, 1, j)
    BY DEF Streams
  <2> HIDE DEF q, p
  <2> SUFFICES \E j \in 1 .. i - 1 : p[j].step = r
    BY DEF p
  <2>6. CASE p = q
    BY <2>3, <2>4, <2>6
  <2>7. ASSUME NEW t \in Step, q # <<>>, p = Tail(q), t = Head(q).step, Acted(m, t)'
        PROVE  \E j \in 1 .. i - 1 : p[j].step = r
    <3>1. /\ i + 1 \in DOMAIN q /\ p[i] = q[i + 1] /\ Len(q) \in Nat /\ i \in Nat
          /\ \A j \in 2 .. i : p[j - 1] = q[j]
          /\ Head(q) = q[1]
      BY <2>1, <2>4, <2>7
    <3>2. PICK j \in 1 .. (i + 1) - 1 : q[j].step = r
      BY <2>3, <2>4, <3>1
    <3>3. j # 1
      BY <1>3, <2>7, <3>1, <3>2
    <3>4. j - 1 \in 1 .. i - 1 /\ p[j - 1].step = r
      BY <3>1, <3>2, <3>3
    <3> QED
      BY <3>4
  <2>8. ASSUME k = n, n # m, NEW msg \in out, p = Append(q, msg)
        PROVE  \E j \in 1 .. i - 1 : p[j].step = r
    <3>1. /\ DOMAIN p = 1 .. Len(q) + 1 /\ Len(q) \in Nat
          /\ \A j \in DOMAIN q : p[j] = q[j]
          /\ p[Len(q) + 1] = msg /\ DOMAIN q = 1 .. Len(q)
      <4>1. msg \in Message
        BY <2>8 DEF Sends
      <4> QED
        BY <2>1, <2>8, <4>1
    <3>2. CASE i \in DOMAIN q
      <4>1. PICK j \in 1 .. i - 1 : q[j].step = r
        BY <2>3, <2>4, <3>1, <3>2
      <4>2. j \in DOMAIN q
        BY <3>1, <3>2
      <4> QED
        BY <3>1, <4>1, <4>2
    <3>3. CASE i = Len(q) + 1
      <4>1. r < s /\ s <= next[n] /\ Alive(n) /\ s \in Nat
        <5>1. msg \in Message /\ msg.step = s /\ s <= next[n] /\ Alive(n)
          BY <2>8 DEF Sends
        <5>2. s \in Nat
          BY <5>1, Naturals DEF Message
        <5> QED
          BY <2>4, <3>1, <3>3, <5>1, <5>2
      <4>2. r < next[n]
        BY <4>1, Naturals
      <4>3. Heard(m, n, r) \/ \E l \in Mail(n, m) : l.step = r
        BY <1>1, <2>8, <4>1, <4>2 DEF AllTold
      <4>4. ~Heard(m, n, r)
        BY <2>2, HeardActed
      <4>5. PICK j \in DOMAIN q : q[j].step = r
        BY <2>8, <4>3, <4>4, InMail DEF Mail, q
      <4>6. j \in 1 .. i - 1 /\ p[j].step = r
        BY <3>1, <3>3, <4>5
      <4> QED
        BY <4>6
    <3> QED
      BY <2>4, <3>1, <3>2, <3>3
  <2>9. ASSUME NEW j \in 0 .. Len(q), p = SubSeq(q, 1, j)
        PROVE  \E h \in 1 .. i - 1 : p[h].step = r
    <3>1. DOMAIN p = 1 .. j /\ \A h \in 1 .. j : p[h] = q[h]
      BY <2>1, <2>9
    <3>2. i \in DOMAIN q /\ i \in 1 .. j /\ Len(q) \in Nat
      BY <2>1, <2>4, <2>9, <3>1
    <3>3. PICK h \in 1 .. i - 1 : q[h].step = r
      BY <2>3, <2>4, <3>1, <3>2
    <3>4. h \in 1 .. j
      BY <3>2
    <3> QED
      BY <3>1, <3>3, <3>4
  <2> QED
    BY <2>5, <2>6, <2>7, <2>8, <2>9
<1> QED
  BY <1>2, <1>3

(* Together: a step that keeps these things keeps the invariant.           *)
LEMMA ThreeStays ==
  ASSUME Trusted, Cardinality(Node) = 3, TimedInv, TimedInv', ThreeInv,
         NEW n \in Node, NEW s, NEW w, NEW out, NEW res,
         Moves(n, s, w, out, res), Keeps(n, s, w, out, res), StartedInOrder'
  PROVE  ThreeInv'
<1>1. TypeOK /\ TypeOK' /\ Within'
  BY DEF TimedInv
<1>2. OwnHeld' /\ BallotsOK'
  BY <1>1, OwnHeldStays, BallotsStay DEF ThreeInv, Keeps
<1>3. VotesOK' /\ RelaysOK'
  BY <1>1, VotesStay, RelaysStay DEF ThreeInv, Keeps
<1>4. NoneSkipped' /\ AllTold'
  BY <1>1, SkipsStay, ToldStays DEF ThreeInv, Keeps
<1>5. ResultsFinal'
  BY <1>1, ResultsStay DEF ThreeInv, Keeps
<1>6. UrgentSettled'
  BY <1>1, UrgentStays DEF ThreeInv, Keeps
<1>7. PairsOK'
  BY <1>1, PairsStay DEF ThreeInv, Keeps
<1>8. OthersGone' /\ ArmedAhead'
  BY OthersStayGone, ArmedStays DEF ThreeInv, Keeps
<1> QED
  BY <1>2, <1>3, <1>4, <1>5, <1>6, <1>7, <1>8 DEF ThreeInv

-----------------------------------------------------------------------------
(* The streams after a handler of n: it has read one message or none, and  *)
(* written one to everybody or none.                                       *)
LEMMA HandledStreams ==
  ASSUME TypeOK, TypeOK', UNCHANGED mode, NEW n \in Node, NEW c \in Chans,
         NEW out \in SUBSET Message,
         \/ chan' = c /\ out = {}
         \/ \E msg \in Message : chan' = Broadcast(c, n, msg) /\ out = {msg},
         \/ c = chan
         \/ \E m \in Node \ {n} : \E t \in Step :
              /\ Receives(m, n) /\ c = Popped(m, n) /\ t = Head(chan[m][n]).step
              /\ Heard(n, m, t)' /\ Acted(n, t)'
              /\ Head(chan[m][n]).type = "commit" => Finished(n, t)'
  PROVE  /\ \A m, k \in Node :
              Mail(m, k)' \subseteq Mail(m, k) \cup (IF m = n /\ k # n THEN out ELSE {})
         /\ Reads(n, out)
         /\ Streams(n, out)
<1>1. \A m, k \in Node : Mail(m, k)' = MailOf(chan', m, k) /\ Mail(m, k) = MailOf(chan, m, k)
  BY DEF Mail, MailOf
<1>2. \A m, k \in Node :
        /\ MailOf(chan', m, k) \subseteq
             MailOf(c, m, k) \cup (IF m = n /\ k # n THEN out ELSE {})
        /\ MailOf(c, m, k) \subseteq MailOf(chan', m, k)
        /\ m = n /\ k # n /\ Alive(k)' => out \subseteq MailOf(chan', m, k)
  <2>1. CASE chan' = c /\ out = {}
    BY <2>1
  <2>2. ASSUME NEW msg \in Message, chan' = Broadcast(c, n, msg), out = {msg}
        PROVE  \A m, k \in Node :
                 /\ MailOf(chan', m, k) \subseteq
                      MailOf(c, m, k) \cup (IF m = n /\ k # n THEN out ELSE {})
                 /\ MailOf(c, m, k) \subseteq MailOf(chan', m, k)
                 /\ m = n /\ k # n /\ Alive(k)' => out \subseteq MailOf(chan', m, k)
    <3> SUFFICES ASSUME NEW m \in Node, NEW k \in Node
                 PROVE  /\ MailOf(chan', m, k) \subseteq
                             MailOf(c, m, k) \cup (IF m = n /\ k # n THEN out ELSE {})
                        /\ MailOf(c, m, k) \subseteq MailOf(chan', m, k)
                        /\ m = n /\ k # n /\ Alive(k)' => out \subseteq MailOf(chan', m, k)
      OBVIOUS
    <3>1. MailOf(chan', m, k) = MailOf(c, m, k) \cup
             (IF m = n /\ k # n /\ mode[k] # "crashed" THEN {msg} ELSE {})
      BY <2>2, MailSent
    <3>2. Alive(k)' => mode[k] # "crashed"
      BY DEF Alive
    <3> QED
      BY <2>2, <3>1, <3>2
  <2> QED
    BY <2>1, <2>2
<1>3. \A m, k \in Node :
        /\ MailOf(c, m, k) \subseteq MailOf(chan, m, k)
        /\ \A msg \in MailOf(chan, m, k) :
             \/ msg \in MailOf(c, m, k)
             \/ /\ Heard(k, m, msg.step)'
                /\ msg.type = "commit" => Finished(k, msg.step)'
  <2>1. CASE c = chan
    BY <2>1
  <2>2. ASSUME NEW p \in Node \ {n}, NEW t \in Step, Receives(p, n), c = Popped(p, n),
               t = Head(chan[p][n]).step, Heard(n, p, t)',
               Head(chan[p][n]).type = "commit" => Finished(n, t)'
        PROVE  \A m, k \in Node :
                 /\ MailOf(c, m, k) \subseteq MailOf(chan, m, k)
                 /\ \A msg \in MailOf(chan, m, k) :
                      \/ msg \in MailOf(c, m, k)
                      \/ /\ Heard(k, m, msg.step)'
                         /\ msg.type = "commit" => Finished(k, msg.step)'
    <3> SUFFICES ASSUME NEW m \in Node, NEW k \in Node
                 PROVE  /\ MailOf(c, m, k) \subseteq MailOf(chan, m, k)
                        /\ \A msg \in MailOf(chan, m, k) :
                             \/ msg \in MailOf(c, m, k)
                             \/ /\ Heard(k, m, msg.step)'
                                /\ msg.type = "commit" => Finished(k, msg.step)'
      OBVIOUS
    <3>1. /\ MailOf(c, m, k) \subseteq Mail(m, k)
          /\ m # p \/ k # n => Mail(m, k) = MailOf(c, m, k)
          /\ Mail(m, k) \subseteq MailOf(c, m, k) \cup {Head(chan[p][n])}
      BY <2>2, MailPopped
    <3>2. MailOf(c, m, k) \subseteq MailOf(chan, m, k)
      BY <3>1 DEF Mail
    <3>3. ASSUME NEW msg \in MailOf(chan, m, k), msg \notin MailOf(c, m, k)
          PROVE  Heard(k, m, msg.step)' /\ (msg.type = "commit" => Finished(k, msg.step)')
      <4>1. m = p /\ k = n /\ msg = Head(chan[p][n])
        BY <3>1, <3>3 DEF Mail
      <4>2. msg.step = t
        BY <2>2, <4>1
      <4> QED
        BY <2>2, <4>1, <4>2
    <3> QED
      BY <3>2, <3>3
  <2> QED
    BY <2>1, <2>2
<1>4. \A m, k \in Node :
        Mail(m, k)' \subseteq Mail(m, k) \cup (IF m = n /\ k # n THEN out ELSE {})
  BY <1>1, <1>2, <1>3
<1>5. Reads(n, out)
  <2>1. \A m, k \in Node : \A msg \in Mail(m, k) :
          \/ msg \in Mail(m, k)'
          \/ /\ Heard(k, m, msg.step)'
             /\ msg.type = "commit" => Finished(k, msg.step)'
    BY <1>1, <1>2, <1>3
  <2>2. \A k \in Node \ {n} : Alive(k)' => out \subseteq Mail(n, k)'
    BY <1>1, <1>2
  <2> QED
    BY <2>1, <2>2 DEF Reads
<1>6. Streams(n, out)
  <2> SUFFICES ASSUME NEW m \in Node, NEW k \in Node, Alive(k)'
               PROVE  \/ chan'[m][k] = chan[m][k]
                      \/ /\ chan[m][k] # <<>> /\ chan'[m][k] = Tail(chan[m][k])
                         /\ \E t \in Step : t = Head(chan[m][k]).step /\ Acted(k, t)'
                      \/ /\ m = n /\ m # k
                         /\ \E msg \in out : chan'[m][k] = Append(chan[m][k], msg)
    BY DEF Streams
  <2>1. chan'[m][k] = c[m][k] \/
          (m = n /\ m # k /\ \E msg \in out : chan'[m][k] = Append(c[m][k], msg))
    <3>1. ASSUME NEW msg \in Message, chan' = Broadcast(c, n, msg), out = {msg}
          PROVE  \/ chan'[m][k] = c[m][k]
                 \/ m = n /\ m # k /\ chan'[m][k] = Append(c[m][k], msg)
      <4>1. \A a \in Node : c[a] \in [Node -> Seq(Message)]
        BY DEF Chans
      <4> QED
        BY <3>1, <4>1 DEF Broadcast, Chans
    <3> QED
      BY <3>1
  <2>2. CASE c = chan
    BY <2>1, <2>2
  <2>3. ASSUME NEW p \in Node \ {n}, NEW t \in Step, Receives(p, n), c = Popped(p, n),
               t = Head(chan[p][n]).step, Acted(n, t)'
        PROVE  \/ chan'[m][k] = chan[m][k]
               \/ /\ chan[m][k] # <<>> /\ chan'[m][k] = Tail(chan[m][k])
                  /\ \E r \in Step : r = Head(chan[m][k]).step /\ Acted(k, r)'
               \/ /\ m = n /\ m # k
                  /\ \E msg \in out : chan'[m][k] = Append(chan[m][k], msg)
    <3>1. c[m][k] = IF m = p /\ k = n THEN Tail(chan[m][k]) ELSE chan[m][k]
      BY <2>3 DEF Popped, TypeOK
    <3>2. chan[p][n] # <<>>
      BY <2>3 DEF Receives
    <3> QED
      BY <2>1, <2>3, <3>1, <3>2
  <2> QED
    BY <2>2, <2>3
<1> QED
  BY <1>4, <1>5, <1>6

-----------------------------------------------------------------------------
(* A step that makes nothing of any ballot.                                *)
LEMMA RestStays ==
  ASSUME Trusted, Cardinality(Node) = 3, TimedInv, TimedInv', ThreeInv, NEW n \in Node,
         Forward, UNCHANGED started,
         \A m \in Node : mode[m] = "crashed" => mode'[m] = "crashed",
         \A m, k \in Node : Mail(m, k)' \subseteq Mail(m, k),
         \A m \in Node : \A t \in Step :
           /\ Finished(m, t) => Finished(m, t)'
           /\ Finished(m, t)' \/ voting'[m][t] = voting[m][t],
         \A m \in Node : Results(m)' \subseteq Results(m),
         Reads(n, {}), Tells(n, MaxStep, {}), Streams(n, {}), Clocks(n, MaxStep, Fresh)
  PROVE  ThreeInv'
<1>1. \A t \in Step : t # MaxStep
  BY VotingAssumption DEF Step
<1>2. Moves(n, MaxStep, Fresh, {}, {})
  BY <1>1 DEF Moves
<1>3. Keeps(n, MaxStep, Fresh, {}, {})
  BY <1>1 DEF Keeps, Votes, Sends, HandsOn, Fresh
<1>4. StartedInOrder'
  BY StartsStay DEF ThreeInv, TimedInv
<1> QED
  BY <1>2, <1>3, <1>4, ThreeStays

(* Of these, one that leaves the tables alone.                             *)
LEMMA IdleStays ==
  ASSUME Trusted, Cardinality(Node) = 3, TimedInv, TimedInv', ThreeInv, NEW n \in Node,
         Forward, UNCHANGED <<next, current, voting, log, started>>,
         \A m \in Node : mode[m] = "crashed" => mode'[m] = "crashed",
         \A m, k \in Node : Mail(m, k)' \subseteq Mail(m, k),
         Reads(n, {}), Streams(n, {}), Clocks(n, MaxStep, Fresh)
  PROVE  ThreeInv'
<1>1. \A m \in Node : \A t \in Step : Finished(m, t)' <=> Finished(m, t)
  BY DEF Finished
<1>2. \A m \in Node : Results(m)' = Results(m)
  BY DEF Results
<1>3. Tells(n, MaxStep, {})
  BY <1>1 DEF Tells
<1> QED
  BY <1>1, <1>2, <1>3, RestStays

(* A step that leaves the streams alone.                                   *)
LEMMA StreamsStill ==
  ASSUME NEW n \in Node, UNCHANGED chan
  PROVE  /\ \A m, k \in Node : Mail(m, k)' = Mail(m, k)
         /\ Reads(n, {}) /\ Streams(n, {})
<1>1. \A m, k \in Node : Mail(m, k)' = Mail(m, k)
  BY DEF Mail, MailOf
<1> QED
  BY <1>1 DEF Reads, Streams

-----------------------------------------------------------------------------
(* A step that at most disarms timers and kills or closes a process.       *)
LEMMA ClocksStill ==
  ASSUME ArmedAhead, NEW n \in Node, NEW s, NEW w, UNCHANGED current,
         \A m \in Node : Alive(m)' => Alive(m),
         \A m \in Node : \A t \in Step : timer'[m][t] \in {timer[m][t], "off"},
         \A m \in Node : mode'[m] \in {"closing", "closed"} =>
           mode[m] \in {"closing", "closed"} \/ \E k \in Node \ {m} : ~Alive(k)
  PROVE  Clocks(n, s, w)
BY DEF ArmedAhead, Clocks

(* A message of a step that was executed here.                             *)
LEMMA StaleThree ==
  ASSUME Trusted, Cardinality(Node) = 3, TimedInv, TimedInv', ThreeInv,
         NEW m \in Node, NEW n \in Node, RecvStale(m, n)
  PROVE  ThreeInv'
<1>0. TypeOK /\ TypeOK' /\ VotesOK /\ ArmedAhead
  BY DEF TimedInv, ThreeInv
<1>1. /\ Receives(m, n) /\ chan' = Popped(m, n)
      /\ UNCHANGED <<mode, next, current, voting, timer, started, log>>
  BY DEF RecvStale
<1>2. PICK t \in Step : t = Head(chan[m][n]).step
  BY <1>0, <1>1, PoppedType DEF Message
<1>3. Finished(n, t)'
  BY <1>1, <1>2 DEF RecvStale, Finished
<1>4. Heard(n, m, t)' /\ Acted(n, t)'
  BY <1>3 DEF Heard, Acted
<1>5. m # n
  BY <1>0, <1>1, MailPopped DEF VotesOK
<1>6. Popped(m, n) \in Chans
  BY <1>0, <1>1, PoppedType
<1>7. /\ \A k, l \in Node : Mail(k, l)' \subseteq Mail(k, l)
      /\ Reads(n, {}) /\ Streams(n, {})
  BY <1>0, <1>1, <1>2, <1>3, <1>4, <1>5, <1>6, HandledStreams
<1>8. Forward
  BY <1>0, <1>1, ForwardStill DEF Alive
<1>9. Clocks(n, MaxStep, Fresh)
  BY <1>0, <1>1, ClocksStill DEF Alive
<1> QED
  BY <1>1, <1>7, <1>8, <1>9, IdleStays

(* What is left of the streams of a process that has died.                 *)
LEMMA CutStill ==
  ASSUME TypeOK, NEW n \in Node, ~Alive(n)', NEW out \in CutStreams(n), chan'[n] = out,
         \A m \in Node \ {n} : \A k \in Node \ {n} : chan'[m][k] = chan[m][k],
         \A m \in Node \ {n} : chan'[m][n] \in {chan[m][n], <<>>}
  PROVE  /\ \A m, k \in Node : Mail(m, k)' \subseteq Mail(m, k)
         /\ Reads(n, {}) /\ Streams(n, {})
<1>1. \A m \in Node \ {n} : \A k \in Node \ {n} : Mail(m, k)' = Mail(m, k)
  BY DEF Mail, MailOf
<1>2. \A k \in Node : Mail(n, k)' \subseteq Mail(n, k)
  BY MailCut DEF Mail, MailOf
<1>3. \A m \in Node \ {n} : Mail(m, n)' \subseteq Mail(m, n)
  <2> SUFFICES ASSUME NEW m \in Node \ {n}
               PROVE  Mail(m, n)' \subseteq Mail(m, n)
    OBVIOUS
  <2>1. CASE chan'[m][n] = chan[m][n]
    BY <2>1 DEF Mail, MailOf
  <2>2. CASE chan'[m][n] = <<>>
    BY <2>2 DEF Mail, MailOf
  <2> QED
    BY <2>1, <2>2
<1>4. Reads(n, {})
  BY <1>1 DEF Reads
<1>5. Streams(n, {})
  <2>1. \A k \in Node : \E j \in 0 .. Len(chan[n][k]) : chan'[n][k] = SubSeq(chan[n][k], 1, j)
    BY CutPrefix
  <2> QED
    BY <2>1 DEF Streams
<1> QED
  BY <1>1, <1>2, <1>3, <1>4, <1>5

(* A process dies: less is on its way, and less is known.                  *)
LEMMA CrashThree ==
  ASSUME Trusted, Cardinality(Node) = 3, TimedInv, TimedInv', ThreeInv,
         NEW n \in Node, Crash(n)
  PROVE  ThreeInv'
<1>0. TypeOK /\ TypeOK' /\ ArmedAhead
  BY DEF TimedInv, ThreeInv
<1>1. PICK out \in CutStreams(n) :
        chan' = [m \in Node |-> IF m = n THEN out
                                         ELSE [chan[m] EXCEPT ![n] = <<>>]]
  BY DEF Crash
<1>2. /\ UNCHANGED <<next, current, voting, timer, started, log>>
      /\ \A m \in Node : mode'[m] = IF m = n THEN "crashed" ELSE mode[m]
  BY <1>0 DEF Crash, TypeOK
<1>3. /\ chan'[n] = out
      /\ \A m \in Node \ {n} : \A k \in Node \ {n} : chan'[m][k] = chan[m][k]
      /\ \A m \in Node \ {n} : chan'[m][n] \in {chan[m][n], <<>>}
  BY <1>0, <1>1 DEF TypeOK
<1>4. ~Alive(n)' /\ \A m \in Node : Alive(m)' => Alive(m)
  BY <1>2 DEF Alive
<1>5. /\ \A m, k \in Node : Mail(m, k)' \subseteq Mail(m, k)
      /\ Reads(n, {}) /\ Streams(n, {})
  BY <1>0, <1>3, <1>4, CutStill
<1>6. Forward
  BY <1>0, <1>2, <1>4, ForwardStill
<1>7. Clocks(n, MaxStep, Fresh)
  <2>1. \A m \in Node : mode'[m] \in {"closing", "closed"} => mode[m] \in {"closing", "closed"}
    BY <1>2
  <2> QED
    BY <1>0, <1>2, <1>4, <2>1, ClocksStill
<1> QED
  BY <1>2, <1>5, <1>6, <1>7, IdleStays

(* The clean-up coroutine: the table is cleared, the sockets are closed.   *)
LEMMA CleanupThree ==
  ASSUME Trusted, Cardinality(Node) = 3, TimedInv, TimedInv', ThreeInv,
         NEW n \in Node, CleanupRun(n)
  PROVE  ThreeInv'
<1>0. TypeOK /\ TypeOK' /\ ArmedAhead
  BY DEF TimedInv, ThreeInv
<1>1. PICK out \in CutStreams(n) : chan' = [chan EXCEPT ![n] = out]
  BY DEF CleanupRun
<1>2. /\ UNCHANGED <<next, started, log>> /\ mode[n] = "closing"
      /\ \A m \in Node : mode'[m] = IF m = n THEN "closed" ELSE mode[m]
      /\ \A m \in Node : current'[m] = IF m = n THEN MaxStep ELSE current[m]
      /\ \A m \in Node : \A s \in Step :
           /\ voting'[m][s] = IF m = n THEN Fresh ELSE voting[m][s]
           /\ timer'[m][s] = IF m = n THEN "off" ELSE timer[m][s]
  BY <1>0 DEF CleanupRun, TypeOK
<1>3. /\ chan'[n] = out
      /\ \A m \in Node \ {n} : \A k \in Node \ {n} : chan'[m][k] = chan[m][k]
      /\ \A m \in Node \ {n} : chan'[m][n] \in {chan[m][n], <<>>}
  BY <1>0, <1>1 DEF TypeOK
<1>4. ~Alive(n)' /\ \A m \in Node : Alive(m)' => Alive(m)
  BY <1>2 DEF Alive
<1>5. /\ \A m, k \in Node : Mail(m, k)' \subseteq Mail(m, k)
      /\ Reads(n, {}) /\ Streams(n, {})
  BY <1>0, <1>3, <1>4, CutStill
<1>6. Forward
  BY <1>0, <1>2, <1>4, ForwardStill
<1>7. /\ \A t \in Step : Finished(n, t)'
      /\ \A m \in Node \ {n} : \A t \in Step : Finished(m, t)' <=> Finished(m, t)
  BY <1>2, VotingAssumption DEF Finished, Step
<1>8. \A m \in Node : Results(m)' \subseteq Results(m)
  BY <1>2 DEF Results, Fresh
<1>9. Tells(n, MaxStep, {})
  BY <1>2, <1>4, <1>7 DEF Tells
<1>10. Clocks(n, MaxStep, Fresh)
  BY <1>0, <1>2, <1>4 DEF Clocks, ArmedAhead
<1> QED
  BY <1>2, <1>5, <1>6, <1>7, <1>8, <1>9, <1>10, RestStays

(* A handler that does no more than disarm a timer, or starts to shut the  *)
(* process down.                                                           *)
LEMMA DisarmThree ==
  ASSUME Trusted, Cardinality(Node) = 3, TimedInv, TimedInv', ThreeInv,
         NEW n \in Node, Alive(n), NEW s \in Step, timer[n][s] = "queued",
         UNCHANGED <<next, started, current, voting, chan, log>>,
         timer' = Dequeued(n, s),
         mode' = mode \/ mode' = [mode EXCEPT ![n] = "closing"]
  PROVE  ThreeInv'
<1>0. TypeOK /\ TypeOK' /\ ArmedAhead
  BY DEF TimedInv, ThreeInv
<1>1. Settled(s)
  BY DEF ThreeInv, UrgentSettled, Urgent
<1>2. \E k \in Node \ {n} : ~Alive(k)
  BY <1>1 DEF Settled
<1>3. \A m \in Node : \A t \in Step : timer'[m][t] \in {timer[m][t], "off"}
  BY <1>0 DEF Dequeued, TypeOK
<1>4. /\ \A m \in Node : mode'[m] = mode[m] \/ (m = n /\ mode'[m] = "closing")
      /\ \A m \in Node : Alive(m)' => Alive(m)
      /\ \A m \in Node : mode[m] = "crashed" => mode'[m] = "crashed"
  BY <1>0 DEF TypeOK, Alive
<1>5. Clocks(n, MaxStep, Fresh)
  <2>1. \A m \in Node : mode'[m] \in {"closing", "closed"} =>
          mode[m] \in {"closing", "closed"} \/ \E k \in Node \ {m} : ~Alive(k)
    BY <1>2, <1>4
  <2> QED
    BY <1>0, <1>3, <1>4, <2>1, ClocksStill
<1>6. Forward
  BY <1>0, <1>4, ForwardStill
<1> QED
  BY <1>4, <1>5, <1>6, StreamsStill, IdleStays

-----------------------------------------------------------------------------
(* What a process has decided, it has finished.                            *)
LEMMA ResultsFinished ==
  ASSUME TimedInv, NEW m \in Node, Alive(m), NEW d \in Results(m)
  PROVE  Finished(m, d[1])
<1>1. CASE d \in {<<i - 1, log[m][i]>> : i \in DOMAIN log[m]}
  <2>1. PICK i \in DOMAIN log[m] : d = <<i - 1, log[m][i]>>
    BY <1>1
  <2>2. log[m] \in Seq(Batch) /\ Len(log[m]) = current[m]
    BY DEF TimedInv, TypeOK, Within
  <2>3. i - 1 < current[m]
    BY <2>2
  <2> QED
    BY <2>1, <2>3 DEF Finished
<1>2. CASE d \in {<<s, voting[m][s].carries>> :
                    s \in {r \in Step : voting[m][r].state = "Completed"}}
  BY <1>2 DEF Finished
<1> QED
  BY <1>1, <1>2 DEF Results

(* When a timer runs out on a network that has delivered everything, one   *)
(* process is gone, and of the others each has counted the other's vote.   *)
(* What only the lost one proposed and one of them knows of, it has passed *)
(* on to the other, for otherwise it would have decided.                   *)
LEMMA ExpireSettles ==
  ASSUME Trusted, Cardinality(Node) = 3, TimedInv, ThreeInv,
         NEW p \in Node, NEW s \in Step, Alive(p), timer[p][s] = "armed",
         \A m, k \in Node : mode[k] = "crashed" \/ chan[m][k] = <<>>
  PROVE  Settled(s)
<1> SUFFICES ASSUME ~Settled(s)
             PROVE  FALSE
  OBVIOUS
<1>0. TypeOK
  BY DEF TimedInv
<1>1. \A m, k \in Node : mode[k] # "crashed" => Mail(m, k) = {}
  BY DEF Mail, MailOf
<1>2. \A k \in Node : Alive(k) => mode[k] # "crashed"
  BY DEF Alive
<1>3. Passed(s)
  <2> SUFFICES ASSUME NEW q \in Node, Alive(q)
               PROVE  s < next[q]
    BY DEF Passed
  <2>1. CASE q = p
    BY <2>1 DEF TimedInv, TimersFit
  <2>2. CASE q # p
    <3>1. s < next[q] \/ \E i \in DOMAIN chan[p][q] : chan[p][q][i].step = s
      BY <2>2 DEF TimedInv, TimersFit, Told
    <3>2. chan[p][q] = <<>>
      BY <1>2
    <3> QED
      BY <3>1, <3>2
  <2> QED
    BY <2>1, <2>2
<1>4. ASSUME NEW m \in Node, NEW k \in Node, NEW r \in Step, Alive(m), Alive(k), m # k,
             r < next[m], ~Finished(k, r), ~Shrunk(voting[k][r].nodes)
      PROVE  m \in voting[k][r].voted
  <2>1. Heard(k, m, r)
    BY <1>1, <1>2, <1>4 DEF ThreeInv, AllTold
  <2> QED
    BY <1>4, <2>1 DEF Heard
<1>5. \A m, k \in Node : Alive(m) /\ Alive(k) /\ Finished(m, s) => Finished(k, s)
  <2> SUFFICES ASSUME NEW m \in Node, NEW k \in Node, Alive(m), Alive(k), Finished(m, s), m # k
               PROVE  Finished(k, s)
    OBVIOUS
  <2> QED
    BY <1>1, <1>2 DEF ThreeInv, AllTold
<1>6. \A k \in Node : Waiting(k, s) => ~Shrunk(voting[k][s].nodes)
  BY DEF ThreeInv, UrgentSettled, Urgent, Waiting
<1>7. \E m \in Node : ~Alive(m)
  <2> SUFFICES ASSUME \A m \in Node : Alive(m)
               PROVE  FALSE
    OBVIOUS
  <2> DEFINE r == current[p]
             v == voting[p][r]
  <2>1. r <= s /\ s < next[p]
    BY DEF ThreeInv, ArmedAhead, TimedInv, TimersFit
  <2>2. r \in Nat /\ s \in Nat /\ r \in Step /\ r < next[p]
    BY <1>0, <2>1, Naturals, VotingAssumption DEF Step
  <2>3. v.state # "Completed" /\ ~Finished(p, r)
    <3>1. ~(r > r)
      BY <2>2
    <3>2. v.state # "Completed"
      BY <2>2, <3>1 DEF TimedInv, NothingHeldBack
    <3> QED
      BY <2>2, <3>2 DEF Finished
  <2>4. v.state = "Voted" /\ BallotOK(p, r, v) /\ v \in Object
    BY <1>0, <2>2, <2>3, Naturals DEF ThreeInv, NoneSkipped, BallotsOK, Acted
  <2>5. p \in v.voted /\ v.voted # v.nodes /\ v.nodes # {} /\ v.voted \subseteq Node
    BY <2>4 DEF BallotOK, Object
  <2>6. CASE Shrunk(v.nodes)
    <3>1. Settled(r)
      BY <2>2, <2>3, <2>6 DEF ThreeInv, UrgentSettled, Urgent
    <3> QED
      BY <3>1 DEF Settled
  <2>7. CASE ~Shrunk(v.nodes)
    <3>1. v.nodes = Node
      BY <2>5, <2>7 DEF Shrunk
    <3>2. PICK m \in Node : m \notin v.voted
      BY <2>5, <3>1
    <3>3. r < next[m] /\ m # p
      <4>1. s < next[m] /\ next[m] \in Nat
        BY <1>0, <1>3, Naturals DEF Passed
      <4> QED
        BY <2>1, <2>2, <2>5, <3>2, <4>1
    <3> QED
      BY <1>4, <2>2, <2>3, <2>7, <3>2, <3>3
  <2> QED
    BY <2>6, <2>7
<1>8. ASSUME NEW n \in Node, Waiting(n, s),
             NEW x \in Proposed(s), Known(x), x \notin voting[n][s].carries,
             NEW z \in Node \ {n}, Alive(z)
      PROVE  FALSE
  <2>1. PICK y \in Node : \E k \in DOMAIN started[y] : x = <<y, k>> /\ started[y][k] = s
    BY ProposedDef
  <2>2. PICK k \in DOMAIN started[y] : x = <<y, k>> /\ started[y][k] = s
    BY <2>1
  <2>3. \A t : x \in Proposed(t) => t = s
    BY <2>2, ProposedDef
  <2>4. Alive(n) /\ ~Finished(n, s) /\ ~Shrunk(voting[n][s].nodes)
    BY <1>6, <1>8 DEF Waiting
  <2>5. y # n
    BY <1>8, <2>2, <2>4 DEF ThreeInv, OwnHeld
  <2>6. y \notin voting[n][s].voted
    BY <1>8, <2>2, <2>4 DEF ThreeInv, BallotsOK, BallotOK, Counted
  <2>7. \A m \in Node : Alive(m) => s < next[m]
    BY <1>3 DEF Passed
  <2>8. ~Alive(y)
    BY <1>4, <2>4, <2>5, <2>6, <2>7
  <2>9. z # y /\ Node = {n, y, z}
    <3>1. z # y /\ z # n
      BY <1>8, <2>8
    <3> QED
      BY <2>5, <3>1, Three
  <2>10. mode[y] = "crashed"
    <3>1. mode[y] \in {"closing", "closed"} => \E m \in Node \ {y} : ~Alive(m)
      BY DEF ThreeInv, OthersGone
    <3>2. mode[y] \in {"up", "closing", "closed", "crashed"}
      BY <1>0 DEF TypeOK
    <3> QED
      BY <1>8, <2>4, <2>8, <2>9, <3>1, <3>2 DEF Alive
  <2>11. PICK q \in Node : mode[q] # "crashed" /\ Knows(q, x)
    BY <1>8 DEF Known
  <2>12. (q = n \/ q = z) /\ Alive(q)
    BY <1>8, <2>4, <2>9, <2>10, <2>11
  <2>13. ~Finished(q, s) /\ ~Finished(z, s)
    BY <1>5, <1>8, <2>4, <2>12
  <2>14. ASSUME NEW d \in Results(q), x \in d[2]
         PROVE  FALSE
    <3>1. d[1] = s
      BY <2>3, <2>14, ResultsPassed
    <3>2. Finished(q, d[1])
      BY <2>12, ResultsFinished
    <3> QED
      BY <2>13, <3>1, <3>2
  <2>15. ASSUME NEW t \in Step, x \in voting[q][t].carries
         PROVE  FALSE
    <3>1. t = s
      BY <2>3, <2>15 DEF TimedInv, ObjectsFit, ObjectFits
    <3>2. q = z
      BY <1>8, <2>12, <2>15, <3>1
    <3> DEFINE v == voting[z][s]
    <3>3. Waiting(z, s) /\ ~Shrunk(v.nodes)
      BY <1>6, <1>8, <2>13 DEF Waiting
    <3>4. n \in v.voted
      BY <1>4, <1>8, <2>4, <2>7, <2>13, <3>3
    <3>5. BallotOK(z, s, v) /\ v \in Object /\ v.state # "Completed"
      BY <1>0, <1>8, <2>13, Naturals DEF ThreeInv, BallotsOK, Finished
    <3>6. v.state = "Voted"
      <4>1. v # Fresh
        BY <3>4 DEF Fresh
      <4> QED
        BY <3>5, <4>1 DEF BallotOK, Object
    <3>7. z \in v.voted /\ v.voted # Node /\ v.voted \subseteq Node
      <4>1. z \in v.voted /\ v.voted # v.nodes /\ v.nodes # {} /\ v.voted \subseteq Node
        BY <3>5, <3>6 DEF BallotOK, Object
      <4> QED
        BY <3>3, <4>1 DEF Shrunk
    <3>8. y \notin v.voted
      BY <2>9, <3>4, <3>7
    <3>9. Relayed(x, s)
      <4>1. x[1] # z
        BY <2>2, <2>9
      <4> QED
        BY <1>8, <2>13, <2>15, <3>1, <3>2, <4>1 DEF ThreeInv, RelaysOK
    <3>10. PICK m \in Node \ {y} : Heard(m, y, s)
      BY <2>2, <3>9 DEF Relayed
    <3>11. CASE m = n
      BY <2>4, <2>6, <3>10, <3>11 DEF Heard
    <3>12. CASE m = z
      BY <2>13, <3>3, <3>8, <3>10, <3>12 DEF Heard
    <3> QED
      BY <2>9, <3>10, <3>11, <3>12
  <2>16. ~\E m \in Node : \E msg \in Mail(m, q) : x \in msg.carries
    BY <1>1, <2>11
  <2> QED
    BY <2>11, <2>14, <2>15, <2>16 DEF Knows
<1>9. ASSUME NEW n \in Node, Waiting(n, s)
      PROVE  /\ \A m \in Node : \A msg \in Mail(m, n) :
                  msg.type = "vote" /\ msg.step = s => msg.nodes # Node
             /\ \A x \in Proposed(s) :
                  Known(x) => x \in voting[n][s].carries \/ Hopeless(n)
             /\ \A m \in Node : Alive(m) =>
                  \/ m = n
                  \/ m \in voting[n][s].voted
                  \/ Shrunk(voting[n][s].nodes) /\ m \in voting[n][s].nodes
  <2>1. Alive(n) /\ ~Finished(n, s) /\ \A m \in Node : Mail(m, n) = {}
    BY <1>1, <1>2, <1>9 DEF Waiting
  <2>2. \A m \in Node : Alive(m) => m = n \/ m \in voting[n][s].voted
    BY <1>3, <1>4, <1>6, <1>9, <2>1 DEF Passed
  <2>3. ASSUME NEW x \in Proposed(s), Known(x), x \notin voting[n][s].carries
        PROVE  Hopeless(n)
    <3>1. \A z \in Node \ {n} : ~Alive(z)
      BY <1>8, <1>9, <2>3
    <3> QED
      BY <2>1, <3>1 DEF Hopeless
  <2> QED
    BY <2>1, <2>2, <2>3
<1> QED
  BY <1>3, <1>7, <1>9 DEF Settled

(* A timer runs out.                                                       *)
LEMMA ExpireThree ==
  ASSUME Trusted, Cardinality(Node) = 3, TimedInv, TimedInv', ThreeInv,
         NEW n \in Node, NEW s \in Step, Expire(n, s)
  PROVE  ThreeInv'
<1>0. TypeOK /\ TypeOK' /\ ArmedAhead
  BY DEF TimedInv, ThreeInv
<1>1. /\ UNCHANGED <<mode, next, current, voting, chan, started, log>>
      /\ Alive(n) /\ timer[n][s] = "armed"
      /\ Timely => \A m, k \in Node : mode[k] = "crashed" \/ chan[m][k] = <<>>
      /\ \A m \in Node : \A t \in Step :
           timer'[m][t] = IF m = n /\ t = s THEN "queued" ELSE timer[m][t]
  BY <1>0 DEF Expire, Earliest, TypeOK
<1>2. Settled(s)
  BY <1>1, ExpireSettles DEF Trusted
<1>3. Forward
  BY <1>0, <1>1, ForwardStill DEF Alive
<1>4. Clocks(n, MaxStep, Fresh)
  BY <1>0, <1>1, <1>2 DEF Clocks, ArmedAhead, Alive
<1> QED
  BY <1>1, <1>3, <1>4, StreamsStill, IdleStays

-----------------------------------------------------------------------------
(* What complete() does of a step, when the object of step s is b.         *)
LEMMA CompleteMoves ==
  ASSUME TimedInv, TypeOK', NEW n \in Node, NEW s \in Step, Alive(n), s >= current[n],
         NEW b \in Object, b.state = "Completed", NEW t \in Timers,
         Complete(n, s, [voting[n] EXCEPT ![s] = b], t)
  PROVE  /\ Finished(n, s)'
         /\ \A m \in Node : \A r \in Step :
              /\ Finished(m, r) => Finished(m, r)'
              /\ Finished(m, r)' => Finished(m, r) \/ (m = n /\ r = s)
              /\ Finished(m, r)' \/ voting'[m][r] = voting[m][r]
         /\ \A m \in Node :
              Results(m)' \subseteq Results(m) \cup (IF m = n THEN {<<s, b.carries>>} ELSE {})
         /\ \A m \in Node : \A r \in Step :
              /\ timer'[m][r] \in {t[m][r], "off"}
              /\ timer'[m][r] = "armed" /\ current[m] <= r => current'[m] <= r
<1> DEFINE v == [voting[n] EXCEPT ![s] = b]
<1>0. TypeOK /\ Within
  BY DEF TimedInv
<1>1. /\ \A m \in Node : current[m] \in Nat /\ log[m] \in Seq(Batch)
      /\ \A m \in Node : next'[m] \in Nat
      /\ \A r \in Step : r \in Nat
      /\ s \in Nat /\ Len(log[n]) = current[n]
  BY <1>0, Naturals DEF TypeOK, Within
<1>2. /\ v \in [Step -> Object] /\ v[s] = b
      /\ \A r \in Step : r # s => v[r] = voting[n][r]
  BY <1>0 DEF TypeOK
<1>3. Complete(n, s, v, t)
  OBVIOUS
<1> HIDE DEF v
<1>4. \A r \in Step : v[r].state = "Completed" <=> (voting[n][r].state = "Completed" \/ r = s)
  <2>1. \A r \in Step : r # s => (v[r].state = "Completed" <=> voting[n][r].state = "Completed")
    BY <1>2
  <2> QED
    BY <1>2, <2>1
<1>5. CASE /\ s # current[n]
           /\ voting' = [voting EXCEPT ![n] = v]
           /\ timer' = t
           /\ UNCHANGED <<current, log>>
  <2>1. \A m \in Node : voting'[m] = IF m = n THEN v ELSE voting[m]
    BY <1>0, <1>5 DEF TypeOK
  <2>2. \A m \in Node : \A r \in Step :
          Finished(m, r)' <=> Finished(m, r) \/ (m = n /\ r = s)
    BY <1>4, <1>5, <2>1 DEF Finished
  <2>3. \A m \in Node : \A r \in Step : Finished(m, r)' \/ voting'[m][r] = voting[m][r]
    BY <1>2, <2>1, <2>2
  <2>4. \A m \in Node :
          Results(m)' \subseteq Results(m) \cup (IF m = n THEN {<<s, b.carries>>} ELSE {})
    <3> SUFFICES ASSUME NEW m \in Node, NEW d \in Results(m)', d \notin Results(m)
                 PROVE  m = n /\ d = <<s, b.carries>>
      OBVIOUS
    <3>1. PICK r \in Step : voting'[m][r].state = "Completed" /\ d = <<r, voting'[m][r].carries>>
      BY <1>5 DEF Results
    <3>2. voting'[m][r] # voting[m][r]
      BY <3>1 DEF Results
    <3>3. m = n /\ r = s /\ voting'[m][r] = b
      BY <1>2, <2>1, <3>2
    <3> QED
      BY <3>1, <3>3
  <2> QED
    BY <1>5, <2>2, <2>3, <2>4
<1>6. CASE s = current[n] /\ ~(s # current[n])
  <2>1. PICK k \in s + 1 .. next'[n] :
          /\ RunsUpTo(k, s, v, next'[n])
          /\ current' = [current EXCEPT ![n] = k]
          /\ log' = [log EXCEPT ![n] = @ \o Batches(k, s, v)]
          /\ voting' = [voting EXCEPT ![n] =
                          [i \in Step |-> IF i < k THEN Fresh ELSE v[i]]]
          /\ timer' = [t EXCEPT ![n] =
                         [i \in Step |-> IF i < k /\ t[n][i] = "armed"
                                           THEN "off" ELSE t[n][i]]]
    BY <1>3, <1>6 DEF Complete
  <2> DEFINE q == Batches(k, s, v)
  <2>2. k \in s + 1 .. MaxStep /\ k \in Nat /\ s < k /\ MaxStep \in Nat
    <3>1. next'[n] \in 0 .. MaxStep
      BY DEF TypeOK
    <3> QED
      BY <1>1, <3>1, VotingAssumption
  <2>3. q \in Seq(Batch) /\ Len(q) = k - s /\ k - s \in Nat
    <3>1. q \in Seq(Batch) /\ Len(q) = k - s
      BY <1>2, <2>2, BatchesType
    <3>2. k - s \in Nat
      BY <1>1, <2>2
    <3> QED
      BY <3>1, <3>2
  <2>4. /\ \A m \in Node : current'[m] = IF m = n THEN k ELSE current[m]
        /\ \A m \in Node : log'[m] = IF m = n THEN log[n] \o q ELSE log[m]
        /\ \A m \in Node : \A r \in Step :
             voting'[m][r] = IF m = n THEN IF r < k THEN Fresh ELSE v[r]
                                      ELSE voting[m][r]
        /\ \A m \in Node : \A r \in Step :
             timer'[m][r] = IF m = n /\ r < k /\ t[n][r] = "armed" THEN "off" ELSE t[m][r]
    BY <1>0, <2>1 DEF TypeOK, Timers
  <2>5. \A i \in 1 .. k - s : s + i - 1 \in Step /\ q[i] = v[s + i - 1].carries
    <3>1. \A i \in 1 .. k - s : q[i] = v[s + i - 1].carries
      BY <1>2, <2>2, BatchesType
    <3>2. \A i \in 1 .. k - s : s + i - 1 \in Step
      BY <1>1, <2>2 DEF Step
    <3> QED
      BY <3>1, <3>2
  <2> HIDE DEF q
  <2>6. \A r \in Step : s <= r /\ r < k => v[r].state = "Completed"
    <3>1. \A r \in s .. k - 1 : v[r].state = "Completed"
      BY <2>1 DEF RunsUpTo
    <3>2. ASSUME NEW r \in Step, s <= r, r < k
          PROVE  r \in s .. k - 1
      <4>1. r \in Nat /\ s \in Nat /\ k \in Nat
        BY <1>1, <2>2
      <4> QED
        BY <3>2, <4>1
    <3> QED
      BY <3>1, <3>2
  <2>7. \A r \in Step : Finished(n, r)' <=> r < k \/ v[r].state = "Completed"
    BY <2>4 DEF Finished, Fresh
  <2>8. ASSUME NEW r \in Step, r < k
        PROVE  Finished(n, r) \/ r = s
    <3>1. CASE r < s
      BY <1>6, <3>1 DEF Finished
    <3>2. CASE s <= r
      BY <1>4, <2>6, <2>8, <3>2 DEF Finished
    <3>3. r < s \/ s <= r
      <4>1. r \in Nat /\ s \in Nat
        BY <1>1
      <4> QED
        BY <4>1
    <3> QED
      BY <3>1, <3>2, <3>3
  <2>9. ASSUME NEW r \in Step, Finished(n, r)
        PROVE  r < k \/ v[r].state = "Completed"
    <3>1. CASE r < s
      <4>1. r \in Nat /\ s \in Nat /\ k \in Nat /\ s < k
        BY <1>1, <2>2
      <4> QED
        BY <3>1, <4>1
    <3>2. CASE voting[n][r].state = "Completed"
      BY <1>4, <3>2
    <3> QED
      BY <1>6, <2>9, <3>1, <3>2 DEF Finished
  <2>10. \A r \in Step : Finished(n, r)' <=> Finished(n, r) \/ r = s
    <3>1. \A r \in Step : v[r].state = "Completed" => Finished(n, r) \/ r = s
      BY <1>4 DEF Finished
    <3> QED
      BY <1>2, <2>7, <2>8, <2>9, <3>1
  <2>11. \A m \in Node : m # n => \A r \in Step : Finished(m, r)' <=> Finished(m, r)
    BY <2>4 DEF Finished
  <2>12. \A m \in Node : \A r \in Step : Finished(m, r)' \/ voting'[m][r] = voting[m][r]
    BY <1>2, <2>4, <2>7, <2>10
  <2>13. Results(n)' \subseteq Results(n) \cup {<<s, b.carries>>}
    <3> SUFFICES ASSUME NEW d \in Results(n)'
                 PROVE  d \in Results(n) \/ d = <<s, b.carries>>
      OBVIOUS
    <3>1. \A r \in Step : v[r].state = "Completed" =>
            <<r, v[r].carries>> \in Results(n) \/ <<r, v[r].carries>> = <<s, b.carries>>
      <4> SUFFICES ASSUME NEW r \in Step, v[r].state = "Completed", r # s
                   PROVE  <<r, v[r].carries>> \in Results(n)
        BY <1>2
      <4>1. v[r] = voting[n][r]
        BY <1>2
      <4> QED
        BY <4>1 DEF Results
    <3>2. CASE d \in {<<i - 1, log'[n][i]>> : i \in DOMAIN log'[n]}
      <4>1. PICK i \in DOMAIN log'[n] : d = <<i - 1, log'[n][i]>>
        BY <3>2
      <4>2. log[n] \in Seq(Batch) /\ Len(log[n]) = s /\ log'[n] = log[n] \o q
        BY <1>1, <1>6, <2>4
      <4>3. i \in DOMAIN log[n] \/ i - s \in 1 .. k - s
        BY <1>1, <2>2, <2>3, <4>1, <4>2
      <4>4. CASE i \in DOMAIN log[n]
        <5>1. log'[n][i] = log[n][i]
          BY <2>3, <4>2, <4>4
        <5> QED
          BY <4>1, <4>4, <5>1 DEF Results
      <4>5. CASE i - s \in 1 .. k - s
        <5>1. i \in Nat
          BY <2>3, <4>1, <4>2
        <5>2. log'[n][i] = q[i - s]
          BY <1>1, <2>2, <2>3, <4>2, <4>5, <5>1
        <5>3. s + (i - s) - 1 = i - 1 /\ i - 1 < k /\ s <= i - 1
          BY <1>1, <2>2, <4>5, <5>1
        <5>4. i - 1 \in Step /\ q[i - s] = v[i - 1].carries
          BY <2>5, <4>5, <5>3
        <5>5. v[i - 1].state = "Completed"
          BY <2>6, <5>3, <5>4
        <5> QED
          BY <3>1, <4>1, <5>2, <5>4, <5>5
      <4> QED
        BY <4>3, <4>4, <4>5
    <3>3. CASE d \in {<<r, voting'[n][r].carries>> :
                        r \in {i \in Step : voting'[n][i].state = "Completed"}}
      <4>1. PICK r \in Step : voting'[n][r].state = "Completed" /\ d = <<r, voting'[n][r].carries>>
        BY <3>3
      <4>2. voting'[n][r] = v[r]
        BY <2>4, <4>1 DEF Fresh
      <4> QED
        BY <3>1, <4>1, <4>2
    <3> QED
      BY <3>2, <3>3 DEF Results
  <2>14. \A m \in Node : m # n => Results(m)' \subseteq Results(m)
    BY <2>4 DEF Results
  <2>15. \A m \in Node : \A r \in Step :
           /\ timer'[m][r] \in {t[m][r], "off"}
           /\ timer'[m][r] = "armed" /\ current[m] <= r => current'[m] <= r
    BY <1>1, <2>2, <2>4
  <2> QED
    BY <2>10, <2>11, <2>12, <2>13, <2>14, <2>15
<1> QED
  BY <1>3, <1>5, <1>6 DEF Complete

(* The reader gets one step ahead at most.                                 *)
LEMMA ActedNext ==
  ASSUME TimedInv, NEW n \in Node, Alive(n), NEW r \in Step, Acted(n, r)
  PROVE  r < next[n]
<1>1. TypeOK /\ Within
  BY DEF TimedInv
<1>2. current[n] <= next[n] /\ current[n] \in Nat /\ next[n] \in Nat /\ r \in Nat
  BY <1>1, Naturals DEF Within
<1>3. CASE r < current[n]
  BY <1>2, <1>3
<1>4. CASE voting[n][r].state \in {"Voted", "Completed"}
  BY <1>1, <1>4 DEF Within, Fresh
<1> QED
  BY <1>3, <1>4 DEF Acted, Finished

(* getPtr() moves the next step past the one of the message, no further.   *)
LEMMA ReachesNext ==
  ASSUME TimedInv, NoneSkipped, VotesOK, NEW m \in Node, NEW n \in Node, NEW s \in Step,
         Receives(m, n), s = Head(chan[m][n]).step, Reaches(n, s),
         UNCHANGED <<mode, started>>
  PROVE  /\ Forward /\ Alive(n) /\ s < next'[n] /\ s <= next[n] /\ m # n
         /\ \A k \in Node : \A t \in Step :
              t < next'[k] => t < next[k] \/ (k = n /\ t = s)
         /\ s = next[n] => voting[n][s] = Fresh
<1>0. TypeOK /\ Within
  BY DEF TimedInv
<1>1. mode[n] # "crashed"
  BY DEF Receives
<1>2. Forward /\ Alive(n) /\ s < next'[n]
  BY <1>1, ReachesForward
<1>3. m # n
  BY <1>0, MailPopped DEF VotesOK
<1>4. /\ next[n] \in Nat /\ s \in Nat /\ s < MaxStep /\ MaxStep \in Nat
  BY <1>0, Naturals, VotingAssumption DEF Step
<1>5. s <= next[n]
  <2> SUFFICES ASSUME next[n] < s
               PROVE  FALSE
    BY <1>4
  <2>1. next[n] \in Step
    BY <1>4 DEF Step
  <2>2. 1 \in DOMAIN chan[m][n] /\ Head(chan[m][n]) = chan[m][n][1]
    <3>1. chan[m][n] \in Seq(Message) /\ chan[m][n] # <<>>
      BY <1>0 DEF TypeOK, Receives
    <3> QED
      BY <3>1
  <2>3. Acted(n, next[n])
    BY <1>2, <2>1, <2>2 DEF NoneSkipped
  <2>4. next[n] < next[n]
    BY <1>2, <2>1, <2>3, ActedNext
  <2> QED
    BY <1>4, <2>4
<1>6. \A k \in Node : next'[k] = IF k = n /\ next[n] <= s THEN s + 1 ELSE next[k]
  BY <1>0 DEF Reaches, TypeOK
<1>7. \A k \in Node : \A t \in Step :
        t < next'[k] => t < next[k] \/ (k = n /\ t = s)
  BY <1>0, <1>4, <1>5, <1>6, Naturals
<1>8. s = next[n] => voting[n][s] = Fresh
  BY <1>0, <1>4 DEF Within
<1> QED
  BY <1>2, <1>3, <1>5, <1>7, <1>8

-----------------------------------------------------------------------------
(* What a process has in its table, it knows of.                           *)
LEMMA HeldOld ==
  ASSUME NEW n \in Node, mode[n] # "crashed", NEW s \in Step
  PROVE  /\ \A x \in voting[n][s].carries : Old(x)
         /\ \A m \in Node : \A msg \in Mail(m, n) : \A x \in msg.carries : Old(x)
BY DEF Old, Known, Knows

(* n has read a message of m, in step s, and gets the object of that step. *)
Takes(m, n, s) ==
  Receives(m, n) /\ s = Head(chan[m][n]).step /\ Reaches(n, s)

Handed(m, n, msg) ==
  Receives(m, n) /\ msg = Head(chan[m][n]) /\ Reaches(n, msg.step)

(* commit() on what the last vote or somebody's decision brings.           *)
LEMMA DecidesThree ==
  ASSUME Trusted, Cardinality(Node) = 3, TimedInv, TimedInv', ThreeInv,
         NEW m \in Node, NEW n \in Node, NEW s \in Step,
         Takes(m, n, s), UNCHANGED <<mode, started>>,
         NEW w \in Object, NEW batch \in Batch,
         Commit(n, s, w, batch, Popped(m, n), timer),
         Final(s, batch), \A x \in batch : Old(x)
  PROVE  ThreeInv'
<1> DEFINE o == voting[n][s]
           b == InState("Completed", w, batch)
           out == {CommitMsg(s, batch)}
           res == {<<s, batch>>}
<1>0. TypeOK /\ TypeOK' /\ ArmedAhead
  BY DEF TimedInv, ThreeInv
<1>1. /\ Forward /\ Alive(n) /\ s < next'[n] /\ s <= next[n] /\ m # n
      /\ \A k \in Node : \A t \in Step :
           t < next'[k] => t < next[k] \/ (k = n /\ t = s)
  BY ReachesNext DEF ThreeInv, Takes
<1>2. /\ b \in Object /\ b.state = "Completed" /\ b.carries = batch
      /\ timer \in Timers /\ s >= current[n]
      /\ Complete(n, s, [voting[n] EXCEPT ![s] = b], timer)
  BY <1>0 DEF InState, Object, TypeOK, Timers, Reaches, Commit, Takes
<1> HIDE DEF b
<1>3. /\ Finished(n, s)'
      /\ \A k \in Node : \A r \in Step :
           /\ Finished(k, r) => Finished(k, r)'
           /\ Finished(k, r)' => Finished(k, r) \/ (k = n /\ r = s)
           /\ Finished(k, r)' \/ voting'[k][r] = voting[k][r]
      /\ \A k \in Node :
           Results(k)' \subseteq Results(k) \cup (IF k = n THEN {<<s, b.carries>>} ELSE {})
      /\ \A k \in Node : \A r \in Step :
           /\ timer'[k][r] \in {timer[k][r], "off"}
           /\ timer'[k][r] = "armed" /\ current[k] <= r => current'[k] <= r
  BY <1>0, <1>1, <1>2, CompleteMoves
<1>4. Heard(n, m, s)' /\ Acted(n, s)'
  BY <1>3 DEF Heard, Acted
<1>5. CommitMsg(s, batch) \in Message
  BY DEF CommitMsg, Message
<1>6. chan' = Broadcast(Popped(m, n), n, CommitMsg(s, batch))
  BY DEF Commit
<1>7. Popped(m, n) \in Chans /\ m \in Node \ {n}
  BY <1>0, <1>1, PoppedType DEF Takes
<1>8. /\ \A k, l \in Node :
           Mail(k, l)' \subseteq Mail(k, l) \cup (IF k = n /\ l # n THEN out ELSE {})
      /\ Reads(n, out) /\ Streams(n, out)
  <2>1. PICK c \in Chans : c = Popped(m, n)
    BY <1>7
  <2>2. PICK l \in Message : l = CommitMsg(s, batch)
    BY <1>5
  <2>3. chan' = Broadcast(c, n, l) /\ out = {l} /\ out \in SUBSET Message
    BY <1>6, <2>1, <2>2
  <2>4. \E k \in Node \ {n} : \E t \in Step :
          /\ Receives(k, n) /\ c = Popped(k, n) /\ t = Head(chan[k][n]).step
          /\ Heard(n, k, t)' /\ Acted(n, t)'
          /\ Head(chan[k][n]).type = "commit" => Finished(n, t)'
    BY <1>3, <1>4, <1>7, <2>1 DEF Takes
  <2> HIDE DEF out
  <2> QED
    BY <1>0, <2>3, <2>4, HandledStreams
<1>9. Moves(n, s, o, out, res)
  BY <1>1, <1>2, <1>3, <1>8 DEF Moves
<1>10. Votes(n, s, o)
  BY <1>3 DEF Votes
<1>11. Sends(n, s, out, res)
  <2>1. ProposedLater(s) = Proposed(s)
    <3>1. started' = started
      OBVIOUS
    <3> QED
      BY <3>1 DEF Proposed, ProposedLater, Submitted
  <2>2. \A msg \in out :
          /\ msg \in Message /\ msg.step = s /\ msg.type = "commit" /\ msg.type # "vote"
          /\ msg.carries = batch
    BY <1>5 DEF CommitMsg
  <2> QED
    BY <1>1, <2>1, <2>2 DEF Sends
<1>12. HandsOn(n, o, out, res)
  <2>1. mode'[n] # "crashed" => \A x \in o.carries : Old(x)
    BY HeldOld
  <2> QED
    BY <2>1 DEF HandsOn, CommitMsg
<1>13. Tells(n, s, out)
  BY <1>1, <1>3, <1>4 DEF Tells, CommitMsg
<1>14. Clocks(n, s, o)
  <2>1. ASSUME NEW k \in Node, NEW t \in Step, Alive(k)', timer'[k][t] = "armed"
        PROVE  current'[k] <= t
    <3>1. timer[k][t] = "armed" /\ Alive(k)
      BY <1>3, <2>1 DEF Alive
    <3> QED
      BY <1>0, <1>3, <2>1, <3>1 DEF ArmedAhead
  <2> QED
    BY <1>3, <2>1 DEF Clocks
<1>15. StartedInOrder'
  BY <1>0, <1>1, StartsStay DEF ThreeInv
<1>16. Keeps(n, s, o, out, res)
  BY <1>8, <1>10, <1>11, <1>12, <1>13, <1>14 DEF Keeps
<1> QED
  <2> HIDE DEF o, out, res
  <2> QED
    BY <1>9, <1>15, <1>16, ThreeStays

(* A ballot that stays open: in what it makes of the tables.               *)
Opens(n, s, u) ==
  /\ Forward
  /\ UNCHANGED <<mode, current, log>>
  /\ Alive(n) /\ s >= current[n] /\ voting[n][s].state # "Completed"
  /\ u.state = "Voted" /\ Continues(voting[n][s], u)
  /\ voting' = [voting EXCEPT ![n][s] = u]
  /\ \A m \in Node : \A k \in DOMAIN started'[m] :
       \/ k \in DOMAIN started[m]
       \/ m = n /\ started'[m][k] = s /\ next[n] <= s

Carried(n, out) ==
  \A k, l \in Node :
    Mail(k, l)' \subseteq Mail(k, l) \cup (IF k = n /\ l # n THEN out ELSE {})

(* Such a ballot stays open, with a vote in it.                            *)
LEMMA OpenTables ==
  ASSUME TimedInv, TypeOK', NEW n \in Node, NEW s \in Step, NEW u \in Object,
         Opens(n, s, u)
  PROVE  /\ Waiting(n, s) /\ ~Finished(n, s) /\ ~Finished(n, s)' /\ Acted(n, s)'
         /\ \A m \in Node : \A t \in Step :
              /\ voting'[m][t] = IF m = n /\ t = s THEN u ELSE voting[m][t]
              /\ Finished(m, t)' <=> Finished(m, t)
<1>0. TypeOK
  BY DEF TimedInv
<1>1. \A m \in Node : \A t \in Step :
        voting'[m][t] = IF m = n /\ t = s THEN u ELSE voting[m][t]
  BY <1>0 DEF TypeOK, Opens
<1>2. \A m \in Node : \A t \in Step :
        voting'[m][t].state = "Completed" <=> voting[m][t].state = "Completed"
  BY <1>1 DEF Opens
<1>3. \A m \in Node : \A t \in Step : Finished(m, t)' <=> Finished(m, t)
  BY <1>2 DEF Finished, Opens
<1>4. ~(s < current[n])
  BY <1>0, Naturals DEF Opens
<1>5. Waiting(n, s) /\ ~Finished(n, s) /\ ~Finished(n, s)' /\ Acted(n, s)'
  BY <1>1, <1>3, <1>4 DEF Waiting, Finished, Acted, Opens
<1> QED
  BY <1>1, <1>3, <1>5

(* So it is one of the steps above.                                        *)
LEMMA OpenMoves ==
  ASSUME TimedInv, TypeOK', NEW n \in Node, NEW s \in Step, NEW u \in Object,
         Opens(n, s, u), NEW out, Carried(n, out)
  PROVE  Moves(n, s, u, out, {})
<1>1. /\ Waiting(n, s) /\ ~Finished(n, s)'
      /\ \A m \in Node : \A t \in Step :
           /\ voting'[m][t] = IF m = n /\ t = s THEN u ELSE voting[m][t]
           /\ Finished(m, t)' <=> Finished(m, t)
  BY OpenTables
<1>2. \A m \in Node : Results(m)' \subseteq Results(m)
  <2> SUFFICES ASSUME NEW m \in Node, NEW d \in Results(m)', d \notin Results(m)
               PROVE  FALSE
    OBVIOUS
  <2>1. PICK r \in Step : voting'[m][r].state = "Completed" /\ d = <<r, voting'[m][r].carries>>
    BY DEF Results, Opens
  <2>2. voting'[m][r] = voting[m][r]
    BY <1>1, <2>1 DEF Opens
  <2> QED
    BY <2>1, <2>2 DEF Results
<1> QED
  BY <1>1, <1>2 DEF Moves, Opens, Carried

-----------------------------------------------------------------------------
(* A message of a step that is decided here but was not executed yet.      *)
LEMMA IgnoredThree ==
  ASSUME Trusted, Cardinality(Node) = 3, TimedInv, TimedInv', ThreeInv,
         NEW m \in Node, NEW n \in Node, NEW s \in Step,
         Takes(m, n, s),
         voting[n][s].state = "Completed", chan' = Popped(m, n),
         UNCHANGED <<mode, started, current, voting, timer, log>>
  PROVE  ThreeInv'
<1>0. TypeOK /\ TypeOK' /\ ArmedAhead /\ Within
  BY DEF TimedInv, ThreeInv
<1>1. /\ Forward /\ Alive(n) /\ s <= next[n] /\ m # n
  BY ReachesNext DEF ThreeInv, Takes
<1>2. UNCHANGED next
  <2>1. s < next[n] /\ s \in Nat /\ next[n] \in Nat
    BY <1>0, Naturals DEF Within, Fresh
  <2>2. ~(next[n] <= s)
    BY <2>1
  <2> QED
    BY <1>0, <2>2 DEF Reaches, TypeOK, Takes
<1>3. Heard(n, m, s)' /\ Acted(n, s)' /\ Finished(n, s)'
  BY DEF Heard, Acted, Finished
<1>4. Popped(m, n) \in Chans
  BY <1>0, PoppedType DEF Takes
<1>5. /\ \A k, l \in Node : Mail(k, l)' \subseteq Mail(k, l)
      /\ Reads(n, {}) /\ Streams(n, {})
  BY <1>0, <1>1, <1>3, <1>4, HandledStreams DEF Takes
<1>6. Clocks(n, MaxStep, Fresh)
  BY <1>0, ClocksStill DEF Alive
<1> QED
  BY <1>1, <1>2, <1>5, <1>6, IdleStays

(* A decision.                                                             *)
LEMMA RecvCommitThree ==
  ASSUME Trusted, Cardinality(Node) = 3, TimedInv, TimedInv', ThreeInv,
         NEW m \in Node, NEW n \in Node, RecvCommit(m, n)
  PROVE  ThreeInv'
<1>0. TypeOK
  BY DEF TimedInv
<1>1. PICK msg \in Message : msg = Head(chan[m][n])
  BY <1>0, PoppedType DEF RecvCommit
<1>2. PICK s \in Step : s = msg.step
  BY DEF Message
<1>3. /\ Receives(m, n) /\ s = Head(chan[m][n]).step /\ Reaches(n, s)
      /\ UNCHANGED <<mode, started>> /\ msg.type = "commit" /\ mode[n] # "crashed"
      /\ IF voting[n][s].state = "Completed"
           THEN /\ chan' = Popped(m, n)
                /\ UNCHANGED <<current, voting, timer, log>>
           ELSE Commit(n, s, voting[n][s], msg.carries, Popped(m, n), timer)
  BY <1>1, <1>2 DEF RecvCommit, Receives
<1>4. msg \in Mail(m, n)
  BY <1>0, <1>1, <1>3, MailPopped
<1>5. CASE voting[n][s].state = "Completed"
  <2>1. Takes(m, n, s)
    BY <1>3 DEF Takes
  <2> QED
    BY <1>3, <1>5, <2>1, IgnoredThree
<1>6. CASE voting[n][s].state # "Completed"
  <2>1. Commit(n, s, voting[n][s], msg.carries, Popped(m, n), timer)
    BY <1>3, <1>6
  <2>2. voting[n][s] \in Object /\ msg.carries \in Batch
    BY <1>0, Naturals DEF Message
  <2>3. Final(s, msg.carries)
    BY <1>2, <1>3, <1>4 DEF ThreeInv, ResultsFinal
  <2>4. \A x \in msg.carries : Old(x)
    BY <1>3, <1>4, HeldOld
  <2> QED
    <3>1. Takes(m, n, s)
      BY <1>3 DEF Takes
    <3> QED
      BY <1>3, <2>1, <2>2, <2>3, <2>4, <3>1, DecidesThree
<1> QED
  BY <1>5, <1>6

(* A vote in a ballot of all.                                              *)
LEMMA FullVoteThree ==
  ASSUME Trusted, Cardinality(Node) = 3, TimedInv, TimedInv', ThreeInv,
         NEW m \in Node, NEW n \in Node, NEW msg \in Message, NEW s \in Step,
         Handed(m, n, msg), s = msg.step, msg.type = "vote",
         msg.nodes = Node, UNCHANGED <<mode, started>>,
         voting[n][s].state # "Completed",
         Vote(n, s, msg.carries, m, Node, Popped(m, n), timer)
  PROVE  ThreeInv'
<1> DEFINE o == voting[n][s]
           w == Merged(o, n, msg.carries, m, Node)
<1>0. TypeOK /\ TypeOK' /\ ArmedAhead /\ BallotsOK
  BY DEF TimedInv, ThreeInv
<1>1. /\ Forward /\ Alive(n) /\ s < next'[n] /\ s <= next[n] /\ m # n
      /\ \A k \in Node : \A t \in Step :
           t < next'[k] => t < next[k] \/ (k = n /\ t = s)
      /\ s = next[n] => o = Fresh
  BY ReachesNext DEF ThreeInv, Handed
<1>2. msg \in Mail(m, n) /\ o \in Object /\ s >= current[n] /\ mode[n] # "crashed"
  BY <1>0, MailPopped, Naturals DEF Reaches, Receives, Handed
<1>3. Waiting(n, s) /\ ~Finished(n, s)
  <2>1. ~(s < current[n])
    BY <1>0, <1>2, Naturals
  <2> QED
    BY <1>1, <2>1 DEF Waiting, Finished
<1>4. ~Settled(s)
  BY <1>2, <1>3 DEF Settled
<1>5. o.nodes = {} \/ o.nodes = Node
  <2>1. ~Urgent(n, s)
    BY <1>1, <1>4 DEF ThreeInv, UrgentSettled
  <2> QED
    BY <1>3, <2>1 DEF Urgent, Shrunk
<1>6. /\ w.state = o.state /\ w.nodes = Node /\ w.voted = o.voted \cup {m, n}
      /\ w.carries = o.carries \cup msg.carries /\ w \in Object
  <2>1. w = [state |-> o.state, nodes |-> Node, voted |-> o.voted \cup {m, n},
             carries |-> o.carries \cup msg.carries]
    BY <1>5 DEF Merged
  <2>2. /\ o.state \in {"Initial", "Voted", "Completed"}
        /\ o.voted \cup {m, n} \in SUBSET Node
    BY <1>2 DEF Object
  <2>3. o.carries \cup msg.carries \in Batch
    BY <1>2 DEF Object, Message, Batch
  <2> HIDE DEF o, w
  <2> QED
    BY <2>1, <2>2, <2>3 DEF Object
<1> HIDE DEF w
<1>7. PICK u : u = InState("Voted", w, w.carries)
  OBVIOUS
<1>8. /\ u.state = "Voted" /\ u.nodes = Node /\ u.voted = o.voted \cup {m, n}
      /\ u.carries = o.carries \cup msg.carries /\ u \in Object
  BY <1>6, <1>7 DEF InState, Object
<1>9. \A k \in o.voted \cup {m} : Counted(k, s, u.carries)
  <2>1. \A k \in o.voted : Counted(k, s, o.carries)
    BY <1>0, <1>3 DEF BallotsOK, BallotOK
  <2>2. Counted(m, s, msg.carries)
    BY <1>2 DEF ThreeInv, VotesOK, VoteOK
  <2> QED
    BY <1>8, <2>1, <2>2 DEF Counted
<1>10. \A k \in DOMAIN started[n] : started[n][k] = s => <<n, k>> \in u.carries
  BY <1>3, <1>8 DEF ThreeInv, OwnHeld
<1>11. \A x \in u.carries : Old(x)
  BY <1>2, <1>8, HeldOld
<1>12. CASE w.voted = w.nodes
  <2>1. Commit(n, s, w, w.carries, Popped(m, n), timer)
    BY <1>12 DEF Vote, w
  <2>2. Final(s, w.carries)
    <3>1. ASSUME NEW x \in Proposed(s)
          PROVE  x \in u.carries
      <4>1. PICK y \in Node : \E k \in DOMAIN started[y] : x = <<y, k>> /\ started[y][k] = s
        BY ProposedDef
      <4>2. y \in o.voted \cup {m} \/ y = n
        BY <1>6, <1>12
      <4>3. CASE y \in o.voted \cup {m}
        BY <1>9, <4>1, <4>3 DEF Counted
      <4> QED
        BY <1>10, <4>1, <4>2, <4>3
    <3> QED
      BY <1>6, <1>8, <3>1 DEF Final
  <2>3. w.carries \in Batch /\ \A x \in w.carries : Old(x)
    BY <1>6, <1>8, <1>11 DEF Object
  <2> QED
    <3>1. Takes(m, n, s)
      BY DEF Takes, Handed
    <3> QED
      BY <1>6, <2>1, <2>2, <2>3, <3>1, DecidesThree
<1>13. CASE w.voted # w.nodes
  <2> DEFINE vm == VoteMsg(s, u.carries, Node)
  <2>0. PICK out : out = IF o.state = "Initial" THEN {vm} ELSE {}
    OBVIOUS
  <2>1. /\ voting' = [voting EXCEPT ![n][s] = u] /\ timer' = timer
        /\ UNCHANGED <<current, log>>
        /\ chan' = IF o.state = "Initial" THEN Broadcast(Popped(m, n), n, vm)
                                          ELSE Popped(m, n)
    <3>1. /\ voting' = [voting EXCEPT ![n][s] = InState("Voted", w, w.carries)]
          /\ chan' = IF w.state = "Initial"
                       THEN Broadcast(Popped(m, n), n, VoteMsg(s, w.carries, w.nodes))
                       ELSE Popped(m, n)
          /\ timer' = timer
          /\ UNCHANGED <<current, log>>
      BY <1>13 DEF Vote, w
    <3> QED
      BY <1>6, <1>7, <1>8, <3>1
  <2>2. vm \in Message
    BY <1>8 DEF VoteMsg, Message, Object
  <2>3. Continues(o, u)
    BY <1>5, <1>8 DEF Continues, Shrunk
  <2>4. ~Shrunk(u.nodes)
    BY <1>8 DEF Shrunk
  <2>5. Heard(n, m, s)' /\ Acted(n, s)'
    <3>1. voting'[n][s] = u
      <4>1. /\ voting' = [voting EXCEPT ![n][s] = u]
            /\ voting \in [Node -> [Step -> Object]]
        BY <1>0, <2>1 DEF TypeOK
      <4> QED
        BY <4>1
    <3> QED
      BY <1>8, <3>1 DEF Heard, Acted
  <2>6. Popped(m, n) \in Chans /\ m \in Node \ {n}
    BY <1>0, <1>1, PoppedType DEF Handed
  <2>7. out \in SUBSET Message
    BY <2>0, <2>2
  <2>8. \/ chan' = Popped(m, n) /\ out = {}
        \/ \E l \in Message : chan' = Broadcast(Popped(m, n), n, l) /\ out = {l}
    BY <2>0, <2>1, <2>2
  <2> HIDE DEF vm, o
  <2>9. /\ \A k, l \in Node :
             Mail(k, l)' \subseteq Mail(k, l) \cup (IF k = n /\ l # n THEN out ELSE {})
        /\ Reads(n, out) /\ Streams(n, out)
    <3>1. msg.type # "commit"
      OBVIOUS
    <3> QED
      BY <1>0, <2>5, <2>6, <2>7, <2>8, <3>1, HandledStreams DEF Handed
  <2>10. /\ Moves(n, s, u, out, {})
         /\ ~Finished(n, s)'
         /\ \A k \in Node : \A t \in Step : Finished(k, t)' <=> Finished(k, t)
    <3>1. voting[n][s].state # "Completed" /\ Continues(voting[n][s], u)
      BY <2>3 DEF o
    <3>2. Opens(n, s, u)
      BY <1>1, <1>2, <1>8, <2>1, <3>1 DEF Opens
    <3>3. Carried(n, out)
      BY <2>9 DEF Carried
    <3>4. Moves(n, s, u, out, {})
      BY <1>0, <1>8, <3>2, <3>3, OpenMoves
    <3> QED
      BY <1>0, <1>8, <3>2, <3>4, OpenTables
  <2>11. \A k \in u.voted : CountedLater(k, s, u.carries)
    <3>1. \A k \in o.voted \cup {m} : k \in Node /\ CountedLater(k, s, u.carries)
      BY <1>0, <1>2, <1>9, <2>10, CountedGoes DEF Object
    <3>2. CountedLater(n, s, u.carries)
      BY <1>1, <1>10 DEF CountedLater
    <3> QED
      BY <1>8, <3>1, <3>2
  <2>12. \A x \in u.carries : x[1] = n \/ Relayed(x, s)'
    <3>1. ASSUME NEW x \in o.carries, x[1] # n
          PROVE  Relayed(x, s)'
      <4>1. Relayed(x, s)
        BY <1>3, <3>1 DEF ThreeInv, RelaysOK, o
      <4> QED
        BY <2>10, <4>1, RelayedStays
    <3>2. ASSUME NEW x \in msg.carries, x[1] # n
          PROVE  Relayed(x, s)'
      <4>1. CASE x[1] = m
        BY <2>5, <3>2, <4>1 DEF Relayed
      <4>2. CASE x[1] # m
        <5>1. Relayed(x, s)
          BY <1>2, <3>2, <4>2 DEF ThreeInv, RelaysOK
        <5> QED
          BY <2>10, <5>1, RelayedStays
      <4> QED
        BY <4>1, <4>2
    <3> QED
      BY <1>8, <3>1, <3>2
  <2>13. Votes(n, s, u)
    <3>1. u.voted # Node /\ Node # {}
      BY <1>6, <1>8, <1>13
    <3> QED
      BY <1>5, <1>8, <2>11, <2>12, <3>1 DEF Votes, o
  <2>14. Sends(n, s, out, {})
    <3>1. \A l \in out : l = vm
      BY <2>0
    <3>2. vm.step = s /\ vm.type # "commit" /\ vm.nodes = Node /\ vm.carries = u.carries
      BY DEF vm, VoteMsg
    <3>3. CountedLater(n, s, u.carries)
      BY <1>8, <2>11
    <3> QED
      BY <1>1, <1>4, <2>2, <2>12, <3>1, <3>2, <3>3 DEF Sends
  <2>15. HandsOn(n, u, out, {})
    BY <1>11, <2>0 DEF HandsOn, vm, VoteMsg
  <2>16. Tells(n, s, out)
    <3>1. s < next[n] \/ out # {}
      <4>1. s < next[n] \/ s = next[n]
        BY <1>0, <1>1, Naturals
      <4> QED
        BY <1>1, <2>0, <4>1 DEF o, Fresh
    <3> QED
      BY <1>1, <2>5, <2>10, <3>1 DEF Tells
  <2>17. Clocks(n, s, u)
    BY <1>0, <2>1, ClocksStill DEF Alive
  <2>18. StartedInOrder'
    BY <1>0, <1>1, StartsStay DEF ThreeInv
  <2>19. Keeps(n, s, u, out, {})
    BY <2>9, <2>13, <2>14, <2>15, <2>16, <2>17 DEF Keeps
  <2> QED
    BY <2>10, <2>18, <2>19, ThreeStays
<1> QED
  BY <1>12, <1>13

(* A vote in a ballot of two: whoever reads it has counted the sender      *)
(* before, so with its own vote this ballot is complete.                   *)
LEMMA ShrunkVoteThree ==
  ASSUME Trusted, Cardinality(Node) = 3, TimedInv, TimedInv', ThreeInv,
         NEW m \in Node, NEW n \in Node, NEW msg \in Message, NEW s \in Step,
         Handed(m, n, msg), s = msg.step, msg.type = "vote",
         msg.nodes # Node, UNCHANGED <<mode, started>>,
         voting[n][s].state # "Completed",
         Vote(n, s, msg.carries, m, msg.nodes, Popped(m, n), timer)
  PROVE  ThreeInv'
<1> DEFINE o == voting[n][s]
           w == Merged(o, n, msg.carries, m, msg.nodes)
<1>0. TypeOK /\ UrgentSettled /\ PairsOK
  BY DEF TimedInv, ThreeInv
<1>1. Alive(n) /\ m # n
  BY ReachesNext DEF ThreeInv, Handed
<1>2. msg \in Mail(m, n) /\ o \in Object /\ s >= current[n] /\ mode[n] # "crashed"
  BY <1>0, MailPopped, Naturals DEF Reaches, Receives, Handed
<1>3. Waiting(n, s)
  <2>1. ~(s < current[n])
    BY <1>0, <1>2, Naturals
  <2> QED
    BY <1>1, <2>1 DEF Waiting, Finished
<1>4. Settled(s)
  BY <1>0, <1>1, <1>2 DEF UrgentSettled, Urgent
<1>5. PairOK(n, s, o)
  BY <1>0, <1>3 DEF PairsOK
<1>6. /\ msg.nodes = {m, n}
      /\ o.nodes = {m, n} \/ (o.nodes = Node /\ m \in o.voted)
      /\ Shrunk(o.nodes) => o.voted = {n}
  BY <1>2, <1>5 DEF PairOK
<1>7. \E st \in {"Initial", "Voted", "Completed"} :
        w = [state |-> st, nodes |-> {m, n}, voted |-> {m, n},
             carries |-> o.carries \cup msg.carries]
  <2>1. o.state \in {"Initial", "Voted", "Completed"}
    BY <1>2 DEF Object
  <2>2. CASE o.nodes = {m, n}
    <3>1. Shrunk(o.nodes)
      BY <1>6, <2>2 DEF Shrunk
    <3>2. o.voted \cup {m, n} = {m, n}
      BY <1>6, <3>1
    <3>3. w = [state |-> o.state, nodes |-> {m, n}, voted |-> {m, n},
               carries |-> o.carries \cup msg.carries]
      BY <1>6, <2>2, <3>2 DEF Merged
    <3> QED
      BY <2>1, <3>3
  <2>3. CASE o.nodes = Node
    <3>1. Node # {} /\ Node # msg.nodes /\ Node \cap msg.nodes = {m, n} /\ {} \cup {m, n} = {m, n}
      BY <1>6
    <3>2. w = [state |-> "Initial", nodes |-> {m, n}, voted |-> {m, n},
               carries |-> o.carries \cup msg.carries]
      BY <2>3, <3>1 DEF Merged
    <3> QED
      BY <3>2
  <2> QED
    BY <1>6, <2>2, <2>3
<1>8. /\ w \in Object /\ w.nodes = w.voted
      /\ w.carries \in Batch /\ w.carries = o.carries \cup msg.carries
  <2> HIDE DEF w
  <2>1. w.carries = o.carries \cup msg.carries /\ w.nodes = w.voted
    BY <1>7
  <2>2. w.carries \in Batch
    BY <1>2, <2>1 DEF Object, Message, Batch
  <2> QED
    BY <1>7, <2>1, <2>2 DEF Object
<1>9. Commit(n, s, w, w.carries, Popped(m, n), timer)
  BY <1>8 DEF Vote
<1> HIDE DEF w
<1>10. Final(s, w.carries)
  <2>1. ~Hopeless(n)
    BY <1>2 DEF Hopeless
  <2>2. \A x \in Proposed(s) : Known(x) => x \in o.carries
    BY <1>3, <1>4, <2>1 DEF Settled
  <2> QED
    BY <1>8, <2>2 DEF Final
<1>11. \A x \in w.carries : Old(x)
  BY <1>2, <1>8, HeldOld
<1>12. Takes(m, n, s)
  BY DEF Takes, Handed
<1> QED
  BY <1>8, <1>9, <1>10, <1>11, <1>12, DecidesThree

(* A vote.                                                                 *)
LEMMA RecvVoteThree ==
  ASSUME Trusted, Cardinality(Node) = 3, TimedInv, TimedInv', ThreeInv,
         NEW m \in Node, NEW n \in Node, RecvVote(m, n)
  PROVE  ThreeInv'
<1>0. TypeOK
  BY DEF TimedInv
<1>1. PICK msg \in Message : msg = Head(chan[m][n])
  BY <1>0, PoppedType DEF RecvVote
<1>2. PICK s \in Step : s = msg.step
  BY DEF Message
<1>3. /\ Receives(m, n) /\ s = Head(chan[m][n]).step /\ Reaches(n, s)
      /\ UNCHANGED <<mode, started>> /\ msg.type = "vote"
      /\ Vote(n, s, msg.carries, m, msg.nodes, Popped(m, n), timer)
  BY <1>1, <1>2 DEF RecvVote
<1>4. CASE voting[n][s].state = "Completed"
  <2>1. chan' = Popped(m, n) /\ UNCHANGED <<mode, started, current, voting, timer, log>>
    BY <1>3, <1>4 DEF Vote
  <2> QED
    BY <1>3, <1>4, <2>1, IgnoredThree DEF Takes
<1>5. CASE voting[n][s].state # "Completed" /\ msg.nodes = Node
  BY <1>1, <1>2, <1>3, <1>5, FullVoteThree DEF Handed
<1>6. CASE voting[n][s].state # "Completed" /\ msg.nodes # Node
  BY <1>1, <1>2, <1>3, <1>6, ShrunkVoteThree DEF Handed
<1> QED
  BY <1>4, <1>5, <1>6

-----------------------------------------------------------------------------
(* Three processes are more than two, and than one.                        *)
LEMMA NotAlone ==
  ASSUME Cardinality(Node) = 3
  PROVE  /\ \A a : Node # {a}
         /\ \A a, b : Node # {a, b}
<1>1. ASSUME NEW a
      PROVE  Cardinality({a}) = 1
  BY FS_Singleton
<1>2. ASSUME NEW a, NEW b, a # b
      PROVE  Cardinality({a, b}) = 2
  <2>1. IsFiniteSet({a}) /\ Cardinality({a}) = 1
    BY FS_Singleton
  <2>2. b \notin {a} /\ {a, b} = {a} \cup {b}
    BY <1>2
  <2> QED
    BY <2>1, <2>2, FS_AddElement
<1>3. ASSUME NEW a, Node = {a}
      PROVE  FALSE
  <2>1. Cardinality({a}) = 1
    BY <1>1
  <2> QED
    BY <1>3, <2>1
<1>4. ASSUME NEW a, NEW b, Node = {a, b}
      PROVE  FALSE
  <2>1. CASE a = b
    BY <1>3, <1>4, <2>1
  <2>2. CASE a # b
    <3>1. Cardinality({a, b}) = 2
      BY <1>2, <2>2
    <3> QED
      BY <1>4, <3>1
  <2> QED
    BY <2>1, <2>2
<1> QED
  BY <1>3, <1>4

(* apply(): the first vote of a new ballot.                                *)
LEMMA ApplyThree ==
  ASSUME Trusted, Cardinality(Node) = 3, TimedInv, TimedInv', ThreeInv,
         NEW n \in Node, Apply(n)
  PROVE  ThreeInv' /\ UNCHANGED log
<1>0. TypeOK /\ TypeOK' /\ ArmedAhead /\ Within /\ StartedInOrder
  BY DEF TimedInv, ThreeInv
<1>1. PICK s \in Step : s = next[n]
  BY <1>0, VotingAssumption DEF Apply, TypeOK, Step
<1>2. PICK k \in Nat : k = Len(started[n]) + 1
  BY <1>0, Numbers
<1> DEFINE x == <<n, k>>
           vm == VoteMsg(s, {x}, Node)
<1>3. /\ Alive(n) /\ UNCHANGED mode
      /\ next' = [next EXCEPT ![n] = s + 1]
      /\ started' = [started EXCEPT ![n] = Append(@, s)]
      /\ Vote(n, s, {x}, n, Node, chan, [timer EXCEPT ![n][s] = "armed"])
  BY <1>1, <1>2 DEF Apply
<1>4. /\ s \in Nat /\ s + 1 \in Nat /\ started[n] \in Seq(Step) /\ current[n] \in Nat
      /\ \A m \in Node : next[m] \in Nat
  BY <1>0, Numbers
<1>5. \A m \in Node : next'[m] = IF m = n THEN s + 1 ELSE next[m]
  BY <1>0, <1>3 DEF TypeOK
<1>6. \A m \in Node : started'[m] = IF m = n THEN Append(started[n], s) ELSE started[m]
  BY <1>0, <1>3 DEF TypeOK
<1>7. /\ DOMAIN Append(started[n], s) = (DOMAIN started[n]) \cup {k}
      /\ k \notin DOMAIN started[n]
      /\ Append(started[n], s)[k] = s
      /\ \A j \in DOMAIN started[n] : Append(started[n], s)[j] = started[n][j]
      /\ \A j \in DOMAIN started[n] : j < k
  BY <1>2, <1>4
<1>70. /\ DOMAIN started'[n] = (DOMAIN started[n]) \cup {k} /\ started'[n][k] = s
       /\ \A j \in DOMAIN started[n] : started'[n][j] = started[n][j]
       /\ \A m \in Node \ {n} : started'[m] = started[m]
  BY <1>6, <1>7
<1>8. Forward
  <2>1. \A m \in Node : next[m] <= next'[m]
    BY <1>1, <1>4, <1>5
  <2>2. \A m \in Node : Alive(m)' => Alive(m)
    BY <1>3 DEF Alive
  <2>3. \A m \in Node : \A j \in DOMAIN started[m] :
          j \in DOMAIN started'[m] /\ started'[m][j] = started[m][j]
    BY <1>6, <1>7
  <2> QED
    BY <2>1, <2>2, <2>3 DEF Forward
<1>9. voting[n][s] = Fresh /\ s >= current[n]
  <2>1. ~(s < next[n]) /\ current[n] <= next[n]
    BY <1>0, <1>1, <1>3, <1>4 DEF Within
  <2> QED
    BY <1>0, <1>1, <1>4, <2>1 DEF Within
<1>10. PICK u : u = [state |-> "Voted", nodes |-> Node, voted |-> {n}, carries |-> {x}]
  OBVIOUS
<1>11. x \in MsgId /\ {x} \in Batch
  BY DEF MsgId, Batch
<1>12. /\ u \in Object /\ u.state = "Voted" /\ u.nodes = Node /\ u.voted = {n}
       /\ u.carries = {x}
  <2> HIDE DEF x
  <2> QED
    BY <1>10, <1>11 DEF Object
<1>13. /\ voting' = [voting EXCEPT ![n][s] = u]
       /\ timer' = [timer EXCEPT ![n][s] = "armed"]
       /\ chan' = Broadcast(chan, n, vm)
       /\ UNCHANGED <<current, log>>
  <2> DEFINE w == Merged(voting[n][s], n, {x}, n, Node)
  <2>1. w = [state |-> "Initial", nodes |-> Node, voted |-> {n}, carries |-> {x}]
    BY <1>9 DEF Merged, Fresh
  <2> HIDE DEF w, x
  <2>2. /\ w.voted = {n} /\ w.nodes = Node /\ w.state = "Initial" /\ w.carries = {x}
        /\ {n} # Node
    BY <2>1, NotAlone
  <2>3. voting[n][s].state # "Completed"
    BY <1>9 DEF Fresh
  <2>4. InState("Voted", w, {x}) = u
    BY <1>10, <2>2 DEF InState
  <2> QED
    BY <1>3, <2>2, <2>3, <2>4 DEF Vote, w
<1>14. vm \in Message /\ chan \in Chans
  BY <1>0, <1>11 DEF VoteMsg, Message, TypeOK, Chans
<1>15. PICK out \in SUBSET Message : out = {vm}
  BY <1>14
<1> HIDE DEF vm
<1>16. /\ \A a, b \in Node :
            Mail(a, b)' \subseteq Mail(a, b) \cup (IF a = n /\ b # n THEN out ELSE {})
       /\ Reads(n, out) /\ Streams(n, out)
  <2>1. PICK c \in Chans : c = chan
    BY <1>14
  <2>2. /\ c = chan /\ UNCHANGED mode /\ TypeOK /\ TypeOK'
        /\ \E l \in Message : chan' = Broadcast(c, n, l) /\ out = {l}
    BY <1>0, <1>3, <1>13, <1>14, <1>15, <2>1
  <2> QED
    BY <2>2, HandledStreams
<1> HIDE DEF x
<1>17. Opens(n, s, u)
  <2>1. Continues(voting[n][s], u) /\ voting[n][s].state # "Completed"
    BY <1>9 DEF Continues, Fresh, Shrunk
  <2>2. \A m \in Node : \A j \in DOMAIN started'[m] :
          \/ j \in DOMAIN started[m]
          \/ m = n /\ started'[m][j] = s /\ next[n] <= s
    BY <1>1, <1>4, <1>70
  <2> QED
    BY <1>3, <1>8, <1>9, <1>12, <1>13, <2>1, <2>2 DEF Opens
<1>18. Moves(n, s, u, out, {})
  <2>1. Carried(n, out)
    BY <1>16 DEF Carried
  <2> QED
    BY <1>0, <1>12, <1>17, <2>1, OpenMoves
<1>19. /\ Acted(n, s)' /\ \A m \in Node : \A t \in Step : Finished(m, t)' <=> Finished(m, t)
  BY <1>0, <1>12, <1>17, OpenTables
<1>20. CountedLater(n, s, {x})
  <2>1. \A j \in DOMAIN started[n] : started[n][j] # s
    BY <1>0, <1>1, <1>4, Numbers DEF StartedInOrder
  <2>2. \A j \in DOMAIN started'[n] : started'[n][j] = s => <<n, j>> \in {x}
    BY <1>6, <1>7, <2>1 DEF x
  <2>3. s < next'[n]
    BY <1>4, <1>5
  <2> QED
    BY <2>2, <2>3 DEF CountedLater
<1>21. x[1] = n
  BY DEF x
<1>22. Votes(n, s, u)
  <2>1. {n} # Node /\ Node # {}
    BY NotAlone
  <2> QED
    BY <1>9, <1>12, <1>20, <1>21, <2>1 DEF Votes, Fresh
<1>23. Sends(n, s, out, {})
  <2>1. ~Settled(s)
    BY <1>1, <1>3, <1>4 DEF Settled, Passed
  <2>2. /\ vm.step = s /\ vm.type # "commit" /\ vm.nodes = Node /\ vm.carries = {x}
    BY DEF vm, VoteMsg
  <2>3. s <= next[n]
    BY <1>1, <1>4
  <2> QED
    BY <1>3, <1>14, <1>15, <1>20, <1>21, <2>1, <2>2, <2>3 DEF Sends
<1>24. HandsOn(n, u, out, {})
  <2>1. x \notin Submitted
    BY <1>7 DEF Submitted, x
  <2>2. vm.carries = {x}
    BY DEF vm, VoteMsg
  <2> QED
    BY <1>12, <1>15, <2>1, <2>2 DEF HandsOn, Old
<1>25. Tells(n, s, out)
  <2>1. ASSUME NEW m \in Node, NEW t \in Step, t < next'[m]
        PROVE  t < next[m] \/ (m = n /\ t = s)
    <3>1. t \in Nat
      BY <1>0, Numbers
    <3>2. CASE m = n
      BY <1>1, <1>4, <1>5, <2>1, <3>1, <3>2
    <3>3. CASE m # n
      BY <1>5, <2>1, <3>3
    <3> QED
      BY <3>2, <3>3
  <2> QED
    BY <1>15, <1>19, <2>1 DEF Tells
<1>26. Clocks(n, s, u)
  <2>1. \A m \in Node : \A t \in Step :
          timer'[m][t] = IF m = n /\ t = s THEN "armed" ELSE timer[m][t]
    <3>1. /\ timer' = [timer EXCEPT ![n][s] = "armed"]
          /\ timer \in [Node -> [Step -> {"off", "armed", "queued"}]]
      BY <1>0, <1>13 DEF TypeOK
    <3> QED
      BY <3>1
  <2>2. ~Shrunk(u.nodes)
    BY <1>12 DEF Shrunk
  <2>3. current[n] <= s
    BY <1>4, <1>9
  <2>4. \A m \in Node : \A t \in Step :
          Alive(m)' /\ timer'[m][t] = "armed" => current'[m] <= t
    BY <1>0, <1>3, <1>13, <2>1, <2>3 DEF ArmedAhead, Alive
  <2>5. \A m \in Node : \A t \in Step :
          \/ timer'[m][t] \in {timer[m][t], "off"}
          \/ m = n /\ t = s /\ timer'[m][t] = "armed" /\ ~Shrunk(u.nodes)
    BY <2>1, <2>2
  <2> QED
    BY <1>3, <2>4, <2>5 DEF Clocks
<1>27. StartedInOrder'
  <2> SUFFICES ASSUME NEW m \in Node
               PROVE  /\ \A j \in DOMAIN started'[m] : started'[m][j] < next'[m]
                      /\ \A i, j \in DOMAIN started'[m] : i < j => started'[m][i] < started'[m][j]
    BY DEF StartedInOrder
  <2>1. CASE m # n
    BY <1>0, <1>5, <1>6, <2>1 DEF StartedInOrder
  <2>2. CASE m = n
    <3>1. \A j \in DOMAIN started[n] :
            started[n][j] \in Nat /\ started[n][j] < s /\ j \in Nat /\ j < k
      BY <1>0, <1>1, <1>4, <1>7, Numbers DEF StartedInOrder
    <3>2. \A j \in DOMAIN started'[n] : started'[n][j] < s + 1
      BY <1>4, <1>70, <3>1
    <3>3. ASSUME NEW i \in DOMAIN started'[n], NEW j \in DOMAIN started'[n], i < j
          PROVE  started'[n][i] < started'[n][j]
      <4>1. i \in DOMAIN started[n]
        BY <1>2, <1>70, <3>1, <3>3
      <4>2. CASE j = k
        BY <1>70, <3>1, <4>1, <4>2
      <4>3. CASE j \in DOMAIN started[n]
        BY <1>0, <1>70, <3>3, <4>1, <4>3 DEF StartedInOrder
      <4> QED
        BY <1>70, <4>2, <4>3
    <3> QED
      BY <1>5, <2>2, <3>2, <3>3
  <2> QED
    BY <2>1, <2>2
<1>28. Keeps(n, s, u, out, {})
  BY <1>16, <1>22, <1>23, <1>24, <1>25, <1>26 DEF Keeps
<1> QED
  BY <1>13, <1>18, <1>27, <1>28, ThreeStays

(* Half of three is more than one: a ballot that may be continued without  *)
(* the third process has counted the second.                               *)
LEMMA TwoOfThree ==
  ASSUME Cardinality(Node) = 3, NEW n \in Node, NEW w \in Object,
         n \in w.voted, w.nodes = Node, w.voted # Node, IsConsistent(w)
  PROVE  \E x \in Node \ {n} : w.voted = {n, x}
<1>1. w.voted \in SUBSET Node
  BY DEF Object
<1>2. Cardinality({n}) = 1
  BY FS_Singleton
<1>3. w.voted # {n}
  <2>1. ASSUME w.voted = {n}
        PROVE  FALSE
    <3>1. Cardinality(w.voted) = 1 /\ Cardinality(w.nodes) = 3
      BY <1>2, <2>1
    <3> QED
      BY <3>1 DEF IsConsistent
  <2> QED
    BY <2>1
<1>4. PICK x \in w.voted : x # n
  BY <1>3
<1>5. w.voted = {n, x}
  <2> DEFINE S == w.voted
  <2>1. S \in SUBSET Node /\ n \in S /\ x \in S /\ S # Node /\ x \in Node /\ n # x
    BY <1>1, <1>4
  <2> HIDE DEF S
  <2>2. S = {n, x}
    BY <2>1, Two
  <2> QED
    BY <2>2 DEF S
<1> QED
  BY <1>1, <1>4, <1>5

(* timeout() of an object that has not decided: it asks whoever it has     *)
(* counted to go on without the third process.                             *)
ShrinkThree(n, s, t) ==
  Vote(n, s, voting[n][s].carries, n, voting[n][s].voted, chan, t)

(* Its ballot shrinks to the two of them, in which it votes again.         *)
LEMMA AskAgainThree ==
  ASSUME Trusted, Cardinality(Node) = 3, TimedInv, TimedInv', ThreeInv,
         NEW n \in Node, NEW s \in Step, Alive(n), timer[n][s] = "queued",
         s >= current[n], UNCHANGED <<next, started, mode>>,
         voting[n][s].state # "Completed", IsConsistent(voting[n][s]),
         ShrinkThree(n, s, Dequeued(n, s))
  PROVE  ThreeInv' /\ UNCHANGED log
<1> DEFINE o == voting[n][s]
<1>0. /\ TypeOK /\ TypeOK' /\ ArmedAhead /\ UrgentSettled /\ PairsOK /\ BallotsOK
      /\ NoneSkipped /\ TimersFit /\ RelaysOK /\ StartedInOrder
  BY DEF TimedInv, ThreeInv
<1>1. Settled(s)
  BY <1>0 DEF UrgentSettled, Urgent
<1>2. Waiting(n, s) /\ ~Finished(n, s) /\ o \in Object /\ mode[n] # "crashed"
  <2>1. ~(s < current[n]) /\ o \in Object
    BY <1>0, Naturals
  <2> QED
    BY <2>1 DEF Waiting, Finished, Alive
<1>3. s < next[n] /\ s <= next[n] /\ o.state = "Voted"
  <2>1. s < next[n] /\ s \in Nat /\ next[n] \in Nat
    BY <1>0, Naturals DEF TimersFit
  <2>2. Acted(n, s)
    BY <1>0, <2>1 DEF NoneSkipped
  <2> QED
    BY <1>2, <2>1, <2>2 DEF Acted
<1>4. n \in o.voted /\ o.voted # o.nodes /\ o.nodes = Node
  <2>1. BallotOK(n, s, o)
    BY <1>0, <1>2 DEF BallotsOK
  <2>2. ~Shrunk(o.nodes)
    BY <1>0, <1>2 DEF PairsOK
  <2> QED
    BY <1>3, <2>1, <2>2 DEF BallotOK, Shrunk
<1>5. PICK x \in Node \ {n} : o.voted = {n, x}
  BY <1>2, <1>4, TwoOfThree
<1>6. /\ {n, x} # Node /\ {n} # {n, x} /\ Node # {} /\ {n, x} # {}
      /\ Node \cap {n, x} = {n, x} /\ {} \cup {n, n} = {n}
  BY <1>5, NotAlone
<1>7. PICK u : u = [state |-> "Voted", nodes |-> {n, x}, voted |-> {n}, carries |-> o.carries]
  OBVIOUS
<1>8. /\ u \in Object /\ u.state = "Voted" /\ u.nodes = {n, x} /\ u.voted = {n}
      /\ u.carries = o.carries
  BY <1>2, <1>5, <1>7 DEF Object
<1> DEFINE vm == VoteMsg(s, o.carries, {n, x})
<1>9. /\ voting' = [voting EXCEPT ![n][s] = u]
      /\ timer' = Dequeued(n, s)
      /\ chan' = Broadcast(chan, n, vm)
      /\ UNCHANGED <<current, log>>
  <2> DEFINE w == Merged(o, n, o.carries, n, {n, x})
  <2>1. w = [state |-> "Initial", nodes |-> {n, x}, voted |-> {n}, carries |-> o.carries]
    BY <1>4, <1>6 DEF Merged
  <2>2. Vote(n, s, o.carries, n, {n, x}, chan, Dequeued(n, s))
    BY <1>5 DEF ShrinkThree
  <2> HIDE DEF w
  <2>3. /\ w.voted = {n} /\ w.nodes = {n, x} /\ w.state = "Initial" /\ w.carries = o.carries
    BY <2>1
  <2>4. InState("Voted", w, o.carries) = u
    BY <1>7, <2>3 DEF InState
  <2> QED
    BY <1>6, <2>2, <2>3, <2>4 DEF Vote, w
<1>10. vm \in Message /\ chan \in Chans
  BY <1>0, <1>2, <1>5 DEF VoteMsg, Message, TypeOK, Chans, Object
<1>11. PICK out \in SUBSET Message : out = {vm}
  BY <1>10
<1>12. vm.step = s /\ vm.type # "commit" /\ vm.nodes = {n, x} /\ vm.carries = o.carries
  BY DEF VoteMsg
<1> HIDE DEF vm, o
<1>13. /\ \A a, b \in Node :
            Mail(a, b)' \subseteq Mail(a, b) \cup (IF a = n /\ b # n THEN out ELSE {})
       /\ Reads(n, out) /\ Streams(n, out)
  <2>1. PICK c \in Chans : c = chan
    BY <1>10
  <2>2. /\ c = chan /\ UNCHANGED mode /\ TypeOK /\ TypeOK'
        /\ \E l \in Message : chan' = Broadcast(c, n, l) /\ out = {l}
    BY <1>0, <1>9, <1>10, <1>11, <2>1
  <2> QED
    BY <2>2, HandledStreams
<1>14. Forward
  BY <1>0, ForwardStill DEF Alive
<1>15. Opens(n, s, u)
  <2>1. Continues(o, u)
    BY <1>4, <1>5, <1>6, <1>8 DEF Continues, Shrunk
  <2> QED
    BY <1>8, <1>9, <1>14, <2>1 DEF Opens, o
<1>16. Moves(n, s, u, out, {})
  <2>1. Carried(n, out)
    BY <1>13 DEF Carried
  <2> QED
    BY <1>0, <1>8, <1>15, <2>1, OpenMoves
<1>17. \A m \in Node : \A t \in Step : Finished(m, t)' <=> Finished(m, t)
  BY <1>0, <1>8, <1>15, OpenTables
<1>18. CountedLater(n, s, o.carries)
  <2>1. Counted(n, s, o.carries)
    BY <1>0, <1>2, <1>4 DEF BallotsOK, BallotOK, o
  <2> QED
    BY <2>1 DEF Counted, CountedLater
<1>19. \A y \in o.carries : y[1] = n \/ Relayed(y, s)'
  <2>1. ASSUME NEW y \in o.carries, y[1] # n
        PROVE  Relayed(y, s)'
    <3>1. Relayed(y, s)
      BY <1>0, <1>2, <2>1 DEF RelaysOK, o
    <3> QED
      BY <1>16, <3>1, RelayedStays
  <2> QED
    BY <2>1
<1>20. timer'[n][s] = "off" /\ \A m \in Node : \A t \in Step : timer'[m][t] \in {timer[m][t], "off"}
  BY <1>0, <1>9 DEF Dequeued, TypeOK
<1>21. Votes(n, s, u)
  BY <1>1, <1>4, <1>5, <1>6, <1>8, <1>18, <1>19, <1>20 DEF Votes, o
<1>22. Sends(n, s, out, {})
  BY <1>1, <1>2, <1>3, <1>4, <1>5, <1>6, <1>10, <1>11, <1>12, <1>18 DEF Sends, o
<1>23. HandsOn(n, u, out, {})
  <2>1. \A y \in o.carries : Old(y)
    BY <1>2, HeldOld DEF o
  <2> QED
    BY <1>8, <1>11, <1>12, <2>1 DEF HandsOn
<1>24. Tells(n, s, out)
  BY <1>17 DEF Tells
<1>25. Clocks(n, s, u)
  BY <1>0, <1>9, <1>20, ClocksStill DEF Alive
<1>26. StartedInOrder'
  BY <1>0, <1>14, StartsStay
<1>27. Keeps(n, s, u, out, {})
  BY <1>13, <1>21, <1>22, <1>23, <1>24, <1>25 DEF Keeps
<1> QED
  BY <1>9, <1>16, <1>26, <1>27, ThreeStays

(* timeout().                                                              *)
LEMMA RunTimeoutThree ==
  ASSUME Trusted, Cardinality(Node) = 3, TimedInv, TimedInv', ThreeInv,
         NEW n \in Node, NEW s \in Step, RunTimeout(n, s)
  PROVE  ThreeInv' /\ UNCHANGED log
<1>1. /\ Alive(n) /\ timer[n][s] = "queued" /\ s >= current[n]
      /\ UNCHANGED <<next, started>> /\ Timeout(n, s, Dequeued(n, s))
  BY DEF RunTimeout, Earliest
<1>2. CASE Fail(n, Dequeued(n, s))
  <2>1. /\ UNCHANGED <<next, started, current, voting, chan, log>>
        /\ timer' = Dequeued(n, s) /\ mode' = [mode EXCEPT ![n] = "closing"]
    BY <1>1, <1>2 DEF Fail
  <2> QED
    BY <1>1, <2>1, DisarmThree
<1>3. CASE IsConsistent(voting[n][s]) /\ ShrinkThree(n, s, Dequeued(n, s)) /\ UNCHANGED mode
  <2>1. CASE voting[n][s].state = "Completed"
    <3>1. /\ UNCHANGED <<next, started, current, voting, chan, log>>
          /\ timer' = Dequeued(n, s) /\ mode' = mode
      BY <1>1, <1>3, <2>1 DEF ShrinkThree, Vote
    <3> QED
      BY <1>1, <3>1, DisarmThree
  <2>2. CASE voting[n][s].state # "Completed"
    BY <1>1, <1>3, <2>2, AskAgainThree
  <2> QED
    BY <2>1, <2>2
<1> QED
  BY <1>1, <1>2, <1>3 DEF Timeout, ShrinkThree

(* The handler of an object that is gone: the memory was not reused.       *)
LEMMA DanglingThree ==
  ASSUME Trusted, Cardinality(Node) = 3, TimedInv, TimedInv', ThreeInv,
         NEW n \in Node, NEW s \in Step, DanglingTimeout(n, s)
  PROVE  ThreeInv'
<1>1. /\ Alive(n) /\ timer[n][s] = "queued"
      /\ UNCHANGED <<next, started, current, voting, chan, log>>
      /\ timer' = Dequeued(n, s)
      /\ mode' = mode \/ mode' = [mode EXCEPT ![n] = "closing"]
  BY DEF DanglingTimeout, Earliest, Trusted, Fail
<1> QED
  BY <1>1, DisarmThree

-----------------------------------------------------------------------------
(* Every step of the protocol keeps the invariant.                         *)
LEMMA ThreeStep ==
  ASSUME Trusted, Cardinality(Node) = 3, TimedInv, TimedInv', ThreeInv, [Next]_vars
  PROVE  ThreeInv'
<1>1. CASE Quiet
  BY <1>1, ApplyThree, CrashThree, StaleThree, RecvVoteThree, RecvCommitThree DEF Quiet
<1>2. CASE Late
  BY <1>2, CleanupThree, ExpireThree, RunTimeoutThree, DanglingThree DEF Late
<1>3. CASE UNCHANGED vars
  <2>1. UNCHANGED <<mode, next, current, voting, timer, chan, started, log>>
    BY <1>3 DEF vars
  <2>2. PICK n \in Node : TRUE
    BY VotingAssumption
  <2>3. TypeOK /\ ArmedAhead
    BY DEF TimedInv, ThreeInv
  <2>4. Forward
    BY <2>1, <2>3, ForwardStill DEF Alive
  <2>5. Clocks(n, MaxStep, Fresh)
    BY <2>1, <2>3, ClocksStill DEF Alive
  <2> QED
    BY <2>1, <2>2, <2>4, <2>5, StreamsStill, IdleStays
<1> QED
  BY <1>1, <1>2, <1>3 DEF Next

(* Nothing is proposed, counted, on its way or decided yet.                *)
LEMMA ThreeInit == Init => ThreeInv
<1> SUFFICES ASSUME Init
             PROVE  ThreeInv
  OBVIOUS
<1>1. /\ \A m, n \in Node : Mail(m, n) = {} /\ chan[m][n] = <<>>
      /\ \A n \in Node : Results(n) = {} /\ Alive(n) /\ started[n] = <<>>
      /\ \A n \in Node : \A s \in Step : voting[n][s] = Fresh /\ timer[n][s] = "off"
      /\ \A n \in Node : next[n] = 0 /\ current[n] = 0 /\ mode[n] = "up"
  BY DEF Init, Mail, MailOf, Results, Alive, Fresh
<1>2. \A s \in Step : s \in Nat /\ ~(s < 0)
  BY VotingAssumption DEF Step
<1>3. \A n \in Node : \A s \in Step :
        /\ ~Finished(n, s) /\ ~Urgent(n, s) /\ ~Shrunk(voting[n][s].nodes)
        /\ BallotOK(n, s, voting[n][s]) /\ PairOK(n, s, voting[n][s])
  BY <1>1, <1>2 DEF Finished, Urgent, Shrunk, Fresh, BallotOK, PairOK
<1>4. StartedInOrder /\ OwnHeld /\ BallotsOK /\ VotesOK /\ RelaysOK
  BY <1>1, <1>3 DEF StartedInOrder, OwnHeld, BallotsOK, VotesOK, RelaysOK, Fresh
<1>5. NoneSkipped /\ AllTold
  BY <1>1, <1>2, <1>3 DEF NoneSkipped, AllTold
<1>6. ResultsFinal /\ OthersGone /\ UrgentSettled /\ PairsOK /\ ArmedAhead
  BY <1>1, <1>3 DEF ResultsFinal, OthersGone, UrgentSettled, PairsOK, ArmedAhead
<1> QED
  BY <1>4, <1>5, <1>6 DEF ThreeInv

(* What one has executed and is still there to tell of, everybody has.     *)
LEMMA LogsAgree ==
  ASSUME TimedInv, ThreeInv, NEW m \in Node, NEW n \in Node,
         mode[m] # "crashed", mode[n] # "crashed",
         NEW i \in (DOMAIN log[m]) \cap (DOMAIN log[n]), NEW x \in log[n][i]
  PROVE  x \in log[m][i]
<1>1. <<i - 1, log[m][i]>> \in Results(m) /\ <<i - 1, log[n][i]>> \in Results(n)
  BY DEF Results
<1>2. Final(i - 1, log[m][i])
  BY <1>1 DEF ThreeInv, ResultsFinal
<1>3. Known(x)
  BY <1>1 DEF Known, Knows
<1>4. x \in Proposed(i - 1)
  BY DEF TimedInv, LogsFit
<1> QED
  BY <1>2, <1>3, <1>4 DEF Final

(* So the invariant says that all have executed the same.                  *)
LEMMA ThreeAgree == TimedInv /\ ThreeInv => Agreement
<1>1. ASSUME TimedInv, ThreeInv, NEW m \in Node, NEW n \in Node,
             mode[m] # "crashed", mode[n] # "crashed",
             NEW i \in (DOMAIN log[m]) \cap (DOMAIN log[n])
      PROVE  log[m][i] = log[n][i]
  <2>1. log[n][i] \subseteq log[m][i]
    BY <1>1, LogsAgree
  <2>2. log[m][i] \subseteq log[n][i]
    BY <1>1, LogsAgree
  <2> QED
    BY <2>1, <2>2
<1> QED
  BY <1>1 DEF Agreement, Agree

(* With three processes on a timely network, in which no timer handler     *)
(* runs on memory that has become another object: whoever dies and         *)
(* whichever ballots shrink to two, the processes that are still there run *)
(* exec() on the same batches, for any number of steps and messages.       *)
THEOREM ThreeAgreement ==
  ASSUME Timely, ~Reuse, Cardinality(Node) = 3
  PROVE  Spec => []Agreement
<1>1. Trusted
  BY DEF Trusted
<1>2. TimedInv /\ ThreeInv /\ [Next]_vars => (TimedInv /\ ThreeInv)'
  BY <1>1, TimedStep, ThreeStep
<1>3. Init => TimedInv /\ ThreeInv
  BY TimedInit, ThreeInit
<1> QED
  BY <1>2, <1>3, ThreeAgree, PTL DEF Spec

-----------------------------------------------------------------------------
(* Completing a step of n leaves what the others have executed.            *)
LEMMA OthersLogs ==
  ASSUME TypeOK, NEW k \in Node, NEW n \in Node, n # k
  PROVE  /\ \A s, v, t : Complete(k, s, v, t) => log'[n] = log[n]
         /\ \A s, w, batch, c, t : Commit(k, s, w, batch, c, t) => log'[n] = log[n]
         /\ \A s, batch, src, nodes, c, t :
              Vote(k, s, batch, src, nodes, c, t) => log'[n] = log[n]
<1>1. \A s, v, t : Complete(k, s, v, t) => log'[n] = log[n]
  BY DEF Complete, TypeOK
<1>2. \A s, w, batch, c, t : Commit(k, s, w, batch, c, t) => log'[n] = log[n]
  BY <1>1 DEF Commit
<1>3. \A s, batch, src, nodes, c, t :
        Vote(k, s, batch, src, nodes, c, t) => log'[n] = log[n]
  BY <1>2 DEF Vote
<1> QED
  BY <1>1, <1>2, <1>3

(* Neither apply() nor timeout() decides, so who has nothing to read       *)
(* executes nothing.                                                       *)
LEMMA ReadToDecide ==
  ASSUME Trusted, Cardinality(Node) = 3, TimedInv, TimedInv', ThreeInv, Next,
         NEW n \in Node, \A m \in Node : chan[m][n] = <<>>
  PROVE  log'[n] = log[n]
<1>0. TypeOK
  BY DEF TimedInv
<1>1. ASSUME NEW m \in Node, NEW k \in Node, RecvVote(m, k) \/ RecvCommit(m, k)
      PROVE  log'[n] = log[n]
  <2>1. k # n
    BY <1>1 DEF RecvVote, RecvCommit, Receives
  <2> QED
    BY <1>0, <1>1, <2>1, OthersLogs DEF RecvVote, RecvCommit
<1>2. CASE Quiet
  BY <1>1, <1>2, ApplyThree DEF Quiet, Crash, RecvStale
<1>3. CASE Late
  BY <1>3, RunTimeoutThree DEF Late, CleanupRun, Expire, DanglingTimeout, Fail, Trusted
<1> QED
  BY <1>2, <1>3 DEF Next

(* Under the same assumptions a process that has lost both others and has  *)
(* read all they sent never runs exec() again: neither its own proposals   *)
(* nor its timeouts decide a ballot.                                       *)
THEOREM ThreeMajority ==
  ASSUME Timely, ~Reuse, Cardinality(Node) = 3
  PROVE  Spec => NoMinorityDecision
<1>1. Trusted
  BY DEF Trusted
<1>2. TimedInv /\ ThreeInv /\ [Next]_vars => (TimedInv /\ ThreeInv)'
  BY <1>1, TimedStep, ThreeStep
<1>3. Init => TimedInv /\ ThreeInv
  BY TimedInit, ThreeInit
<1>4. TimedInv /\ ThreeInv /\ TimedInv' /\ [Next]_vars =>
        [\A n \in Node : CutOff(n) => log'[n] = log[n]]_vars
  BY <1>1, ReadToDecide DEF CutOff
<1> QED
  BY <1>2, <1>3, <1>4, PTL DEF Spec, NoMinorityDecision

-----------------------------------------------------------------------------
(* No split brain between two processes, whenever their timers run out.    *)
(* What a step adds to a ballot, what it sends, and what it decides.       *)
Casts(n, s, w) ==
  s \in Step =>
    \/ Finished(n, s)'
    \/ /\ voting[n][s] = Fresh /\ w.state = "Voted" /\ w.nodes = Node
       /\ w.voted = {n} /\ w.carries # {}

(* It decides on its own vote, if it is the first, or on what it has read. *)
Concludes(n, s, batch) ==
  /\ s \in Step /\ Waiting(n, s)
  /\ \/ n = Least(Node) /\ voting[n][s].state = "Voted" /\ batch = voting[n][s].carries
     \/ \E m \in Node \ {n} : \E msg \in Mail(m, n) :
          /\ msg.step = s /\ msg.carries \subseteq batch
          /\ msg.type = "vote" => voting[n][s].carries \subseteq batch

Utters(n, s, w, out, res) ==
  \A msg \in out :
    /\ msg.step = s /\ msg.carries # {} /\ Waiting(n, s)
    /\ msg.type = "vote" => msg.nodes = Node
    /\ Waiting(n, s)' => msg.type = "vote" /\ msg.carries = w.carries
    /\ \A d \in res : msg.carries \subseteq d[2]

Settles(n, s, res) ==
  /\ \A d \in res : d[1] = s /\ Concludes(n, s, d[2])
  /\ \A d, e \in res : d = e

Rings(n, s) ==
  \A m \in Node : \A t \in Step :
    Alive(m)' /\ timer'[m][t] # "off" => timer[m][t] # "off" \/ (m = n /\ t = s)

Adds(n, s, w, out, res) ==
  /\ Moves(n, s, w, out, res)
  /\ Casts(n, s, w)
  /\ Utters(n, s, w, out, res)
  /\ Settles(n, s, res)
  /\ Rings(n, s)

(* There is no third process.                                              *)
LEMMA TwoOnly ==
  ASSUME Cardinality(Node) = 2, NEW m \in Node, NEW n \in Node, m # n
  PROVE  Node = {m, n}
<1>1. IsFiniteSet(Node \ {m}) /\ Cardinality(Node \ {m}) = 1
  BY VotingAssumption, FS_RemoveElement
<1>2. IsFiniteSet((Node \ {m}) \ {n}) /\ Cardinality((Node \ {m}) \ {n}) = 0
  BY <1>1, FS_RemoveElement
<1>3. (Node \ {m}) \ {n} = {}
  BY <1>2, FS_EmptySet
<1> QED
  BY <1>3

(* Whoever still has to decide had to before.                              *)
LEMMA WaitingBack ==
  ASSUME NEW n, NEW s, NEW w, NEW out, NEW res, Adds(n, s, w, out, res),
         NEW m \in Node, NEW t \in Step, Waiting(m, t)'
  PROVE  /\ Waiting(m, t)
         /\ voting'[m][t] = IF m = n /\ t = s THEN w ELSE voting[m][t]
BY DEF Adds, Moves, Forward, Waiting

(* What has voted stays as it is until it is decided.                      *)
LEMMA VotedStays ==
  ASSUME NEW n, NEW s, NEW w, NEW out, NEW res, Adds(n, s, w, out, res),
         NEW m \in Node, NEW t \in Step, Waiting(m, t)', voting[m][t].state = "Voted"
  PROVE  voting'[m][t] = voting[m][t]
<1>1. voting'[m][t] = IF m = n /\ t = s THEN w ELSE voting[m][t]
  BY WaitingBack
<1>2. m = n /\ t = s => FALSE
  <2> SUFFICES ASSUME m = n, t = s
               PROVE  FALSE
    OBVIOUS
  <2>1. ~Finished(n, s)' /\ voting[n][s] # Fresh
    BY DEF Waiting, Fresh
  <2> QED
    BY <2>1 DEF Adds, Casts
<1> QED
  BY <1>1, <1>2

(* A decision that is new comes from n, which had none in that step.       *)
LEMMA ResultNew ==
  ASSUME TimedInv, NEW n \in Node, NEW s, NEW w, NEW out, NEW res,
         Adds(n, s, w, out, res), NEW m \in Node, NEW d \in Results(m)'
  PROVE  \/ d \in Results(m) /\ (m = n /\ d[1] = s /\ Waiting(n, s) => FALSE)
         \/ m = n /\ d \in res /\ d[1] = s /\ Concludes(n, s, d[2])
<1>1. d \in Results(m) \/ (m = n /\ d \in res)
  BY DEF Adds, Moves
<1>2. d \in Results(m) /\ m = n /\ d[1] = s /\ Waiting(n, s) => FALSE
  BY ResultsFinished DEF Waiting
<1> QED
  BY <1>1, <1>2 DEF Adds, Settles

(* Ballots are new, in the first vote, or closed.                          *)
LEMMA TwoBallotsStay ==
  ASSUME TypeOK', Within', TwoBallots, NEW n \in Node, NEW s, NEW w, NEW out, NEW res,
         Adds(n, s, w, out, res)
  PROVE  TwoBallots'
<1> SUFFICES ASSUME NEW m \in Node, NEW t \in Step
             PROVE  \/ voting'[m][t] = Fresh
                    \/ voting'[m][t].state = "Completed"
                    \/ /\ voting'[m][t].state = "Voted"
                       /\ voting'[m][t].nodes = Node
                       /\ voting'[m][t].voted = {m}
                       /\ voting'[m][t].carries # {}
  BY DEF TwoBallots
<1>1. CASE Finished(m, t)'
  <2>1. t < current'[m] /\ current'[m] <= t => FALSE
    <3>1. current'[m] \in Nat /\ t \in Nat
      BY VotingAssumption DEF TypeOK, Step
    <3> QED
      BY <3>1
  <2> QED
    BY <1>1, <2>1 DEF Finished, Within
<1>2. CASE ~Finished(m, t)'
  <2>1. voting'[m][t] = IF m = n /\ t = s THEN w ELSE voting[m][t]
    BY <1>2 DEF Adds, Moves
  <2>2. CASE m = n /\ t = s
    BY <1>2, <2>1, <2>2 DEF Adds, Casts
  <2>3. CASE ~(m = n /\ t = s)
    BY <2>1, <2>3 DEF TwoBallots
  <2> QED
    BY <2>2, <2>3
<1> QED
  BY <1>1, <1>2

(* A timer is on where a vote was cast.                                    *)
LEMMA TimersVotedStay ==
  ASSUME TypeOK, TypeOK', TimersVoted, NEW n \in Node, NEW s, NEW w, NEW out, NEW res,
         Adds(n, s, w, out, res)
  PROVE  TimersVoted'
<1> SUFFICES ASSUME NEW m \in Node, NEW t \in Step,
                    Alive(m)', timer'[m][t] # "off", current'[m] <= t, voting'[m][t] = Fresh
             PROVE  FALSE
  BY DEF TimersVoted
<1>1. Alive(m) /\ ~Finished(m, t)'
  <2>1. current'[m] \in Nat /\ t \in Nat
    BY VotingAssumption DEF TypeOK, Step
  <2>2. ~(t < current'[m])
    BY <2>1
  <2> QED
    BY <2>2 DEF Adds, Moves, Forward, Finished, Fresh
<1>2. /\ ~Finished(m, t)
      /\ voting'[m][t] = IF m = n /\ t = s THEN w ELSE voting[m][t]
  BY <1>1 DEF Adds, Moves
<1>3. ~(m = n /\ t = s)
  BY <1>1, <1>2 DEF Adds, Casts, Fresh
<1>4. timer[m][t] # "off" /\ voting[m][t] = Fresh
  BY <1>2, <1>3 DEF Adds, Rings
<1>5. current[m] <= t
  <2>1. current[m] \in Nat /\ t \in Nat /\ ~(t < current[m])
    BY <1>2, VotingAssumption DEF TypeOK, Step, Finished
  <2> QED
    BY <2>1
<1> QED
  BY <1>1, <1>4, <1>5 DEF TimersVoted

(* What a decision is made of meets what the other still waits with.       *)
LEMMA ConcludesOn ==
  ASSUME Cardinality(Node) = 2, LettersOK, NEW n \in Node, NEW s, NEW batch,
         Concludes(n, s, batch), NEW m \in Node, m # n, Waiting(m, s), n # Least(Node)
  PROVE  /\ voting[m][s].state = "Voted"
         /\ voting[m][s].carries \subseteq batch
<1>1. PICK k \in Node \ {n} : \E msg \in Mail(k, n) :
        /\ msg.step = s /\ msg.carries \subseteq batch
        /\ msg.type = "vote" => voting[n][s].carries \subseteq batch
  BY DEF Concludes
<1>2. k = m
  BY TwoOnly
<1>3. PICK msg \in Mail(m, n) : msg.step = s /\ msg.carries \subseteq batch
  BY <1>1, <1>2
<1>4. LetterOK(m, n, msg)
  BY <1>3 DEF LettersOK
<1> QED
  BY <1>3, <1>4 DEF LetterOK

(* What n has told before is in what it decides, while the other waits.    *)
LEMMA ConcludesAll ==
  ASSUME Cardinality(Node) = 2, LettersOK, NEW n \in Node, NEW s, NEW batch,
         Concludes(n, s, batch), NEW m \in Node, Waiting(m, s),
         NEW msg \in Mail(n, m), msg.step = s
  PROVE  msg.carries \subseteq batch
<1>1. m # n
  BY DEF LettersOK
<1>2. Waiting(n, s)
  BY DEF Concludes
<1>3. msg.carries = voting[n][s].carries
  BY <1>2 DEF LettersOK, LetterOK
<1>4. CASE batch = voting[n][s].carries
  BY <1>3, <1>4
<1>5. CASE \E k \in Node \ {n} : \E l \in Mail(k, n) :
             /\ l.step = s /\ l.carries \subseteq batch
             /\ l.type = "vote" => voting[n][s].carries \subseteq batch
  <2>1. PICK k \in Node \ {n} : \E l \in Mail(k, n) :
          l.step = s /\ (l.type = "vote" => voting[n][s].carries \subseteq batch)
    BY <1>5
  <2>2. k = m
    BY <1>1, TwoOnly
  <2>3. PICK l \in Mail(m, n) :
          l.step = s /\ (l.type = "vote" => voting[n][s].carries \subseteq batch)
    BY <2>1, <2>2
  <2>4. l.type = "vote"
    BY <2>3 DEF LettersOK, LetterOK
  <2> QED
    BY <1>3, <2>3, <2>4
<1> QED
  BY <1>4, <1>5 DEF Concludes

(* What n decides meets what the other has decided, and is not empty.      *)
LEMMA ConcludesMeet ==
  ASSUME Cardinality(Node) = 2, TwoInv, NEW n \in Node, NEW s, NEW batch,
         Concludes(n, s, batch)
  PROVE  /\ batch # {}
         /\ \A m \in Node \ {n} : \A e \in Results(m) :
              e[1] = s => batch \cap e[2] # {}
<1>0. s \in Step /\ Waiting(n, s)
  BY DEF Concludes
<1>1. voting[n][s].state = "Voted" => voting[n][s].carries # {}
  BY <1>0 DEF TwoInv, TwoBallots, Fresh
<1>2. CASE n = Least(Node) /\ voting[n][s].state = "Voted" /\ batch = voting[n][s].carries
  <2>1. ASSUME NEW m \in Node \ {n}, NEW e \in Results(m), e[1] = s
        PROVE  voting[n][s].carries \subseteq e[2]
    BY <1>0, <1>2, <2>1 DEF TwoInv, FirstFollows
  <2> QED
    BY <1>1, <1>2, <2>1
<1>3. ASSUME NEW k \in Node \ {n}, NEW msg \in Mail(k, n),
             msg.step = s, msg.carries \subseteq batch
      PROVE  /\ batch # {}
             /\ \A m \in Node \ {n} : \A e \in Results(m) :
                  e[1] = s => batch \cap e[2] # {}
  <2>1. LetterOK(k, n, msg)
    BY DEF TwoInv, LettersOK
  <2>2. msg.carries # {}
    BY <2>1 DEF LetterOK
  <2>3. ASSUME NEW m \in Node \ {n}, NEW e \in Results(m), e[1] = s
        PROVE  msg.carries \subseteq e[2]
    <3>1. m = k
      BY TwoOnly
    <3> QED
      BY <1>0, <1>3, <2>1, <2>3, <3>1 DEF LetterOK
  <2> QED
    BY <1>3, <2>2, <2>3
<1> QED
  BY <1>2, <1>3 DEF Concludes

(* What is on its way stays part of what its sender decides.               *)
LEMMA LettersStay ==
  ASSUME Cardinality(Node) = 2, TimedInv, TypeOK', LettersOK, NEW n \in Node, NEW s,
         NEW w, NEW out, NEW res, Adds(n, s, w, out, res),
         \A msg \in out : msg \in Message
  PROVE  LettersOK'
<1>0. TypeOK
  BY DEF TimedInv
<1>1. ASSUME NEW m \in Node
      PROVE  Mail(m, m)' = {}
  <2>1. Mail(m, m)' \subseteq Mail(m, m)
    BY DEF Adds, Moves
  <2> QED
    BY <2>1 DEF LettersOK
<1>2. ASSUME NEW m \in Node, NEW k \in Node, NEW msg \in Mail(m, k)'
      PROVE  LetterOK(m, k, msg)'
  <2>0. msg.step \in Step /\ m # k
    <3>1. chan' \in Chans
      BY DEF TypeOK, Chans
    <3>2. msg \in Message
      BY <3>1, MailBack DEF Mail
    <3> QED
      BY <1>1, <3>2 DEF Message
  <2>1. CASE msg \in Mail(m, k)
    <3>1. LetterOK(m, k, msg)
      BY <2>1 DEF LettersOK
    <3>2. ASSUME Waiting(m, msg.step)'
          PROVE  /\ msg.type = "vote"
                 /\ voting'[m][msg.step].state = "Voted"
                 /\ voting'[m][msg.step].carries = msg.carries
      <4>1. Waiting(m, msg.step)
        BY <2>0, <3>2, WaitingBack
      <4>2. /\ msg.type = "vote" /\ voting[m][msg.step].state = "Voted"
            /\ voting[m][msg.step].carries = msg.carries
        BY <3>1, <4>1 DEF LetterOK
      <4>3. voting'[m][msg.step] = voting[m][msg.step]
        BY <2>0, <3>2, <4>2, VotedStays
      <4> QED
        BY <4>2, <4>3
    <3>3. ASSUME NEW d \in Results(m)', d[1] = msg.step, Waiting(k, d[1])'
          PROVE  msg.carries \subseteq d[2]
      <4>1. Waiting(k, msg.step)
        BY <2>0, <3>3, WaitingBack
      <4>2. CASE d \in Results(m)
        BY <3>1, <3>3, <4>1, <4>2 DEF LetterOK
      <4>3. CASE m = n /\ d[1] = s /\ Concludes(n, s, d[2])
        BY <2>1, <3>3, <4>1, <4>3, ConcludesAll
      <4> QED
        BY <4>2, <4>3, ResultNew
    <3> QED
      BY <3>1, <3>2, <3>3 DEF LetterOK
  <2>2. CASE m = n /\ msg \in out
    <3>1. /\ msg.step = s /\ msg.carries # {} /\ Waiting(n, s)
          /\ msg.type = "vote" => msg.nodes = Node
          /\ Waiting(n, s)' => msg.type = "vote" /\ msg.carries = w.carries
          /\ \A d \in res : msg.carries \subseteq d[2]
      BY <2>2 DEF Adds, Utters
    <3>2. ASSUME Waiting(n, s)'
          PROVE  voting'[n][s] = w /\ w.state = "Voted"
      <4>1. voting'[n][s] = w
        BY <2>0, <3>1, <3>2, WaitingBack
      <4>2. ~Finished(n, s)' /\ s \in Step
        BY <2>0, <3>1, <3>2 DEF Waiting
      <4> QED
        BY <4>1, <4>2 DEF Adds, Casts
    <3>3. ASSUME NEW d \in Results(m)', d[1] = msg.step
          PROVE  msg.carries \subseteq d[2]
      BY <2>2, <3>1, <3>3, ResultNew
    <3> QED
      BY <2>2, <3>1, <3>2, <3>3 DEF LetterOK
  <2> QED
    BY <2>1, <2>2 DEF Adds, Moves
<1> QED
  BY <1>1, <1>2 DEF LettersOK

(* The first process goes on from what the second has decided with.        *)
LEMMA FollowsStay ==
  ASSUME Cardinality(Node) = 2, TimedInv, TypeOK', LettersOK, FirstFollows, NEW n \in Node,
         NEW s, NEW w, NEW out, NEW res, Adds(n, s, w, out, res)
  PROVE  FirstFollows'
<1> SUFFICES ASSUME NEW m \in Node, NEW k \in Node, k = Least(Node), m # k,
                    NEW t \in Step, NEW d \in Results(m)', d[1] = t, Waiting(k, t)'
             PROVE  voting'[k][t].state = "Voted" /\ voting'[k][t].carries \subseteq d[2]
  BY DEF FirstFollows
<1>1. Waiting(k, t)
  BY WaitingBack
<1>2. voting[k][t].state = "Voted" /\ voting[k][t].carries \subseteq d[2]
  <2>1. CASE d \in Results(m)
    BY <1>1, <2>1 DEF FirstFollows
  <2>2. CASE m = n /\ d[1] = s /\ Concludes(n, s, d[2])
    BY <1>1, <2>2, ConcludesOn
  <2> QED
    BY <2>1, <2>2, ResultNew
<1>3. voting'[k][t] = voting[k][t]
  BY <1>2, VotedStays
<1> QED
  BY <1>2, <1>3

(* Decisions meet.                                                         *)
LEMMA MeetStays ==
  ASSUME Cardinality(Node) = 2, TimedInv, TwoInv, NEW n \in Node,
         NEW s, NEW w, NEW out, NEW res, Adds(n, s, w, out, res)
  PROVE  ResultsMeet'
<1> SUFFICES ASSUME NEW m \in Node, NEW k \in Node, NEW d \in Results(m)',
                    NEW e \in Results(k)', d[1] = e[1]
             PROVE  d[2] \cap e[2] # {}
  BY DEF ResultsMeet
<1>1. CASE d \in Results(m) /\ e \in Results(k)
  BY <1>1 DEF TwoInv, ResultsMeet
<1>2. CASE m = n /\ d \in res /\ k = n /\ e \in res /\ d[1] = s /\ Concludes(n, s, d[2])
  <2>1. d = e
    BY <1>2 DEF Adds, Settles
  <2> QED
    BY <1>2, <2>1, ConcludesMeet
<1>3. CASE m = n /\ d[1] = s /\ Concludes(n, s, d[2]) /\ e \in Results(k) /\ k # n
  BY <1>3, ConcludesMeet
<1>4. CASE k = n /\ e[1] = s /\ Concludes(n, s, e[2]) /\ d \in Results(m) /\ m # n
  <2>1. e[2] \cap d[2] # {}
    BY <1>4, ConcludesMeet
  <2> QED
    BY <2>1
<1>5. \/ d \in Results(m) /\ (m = n /\ d[1] = s /\ Waiting(n, s) => FALSE)
      \/ m = n /\ d \in res /\ d[1] = s /\ Concludes(n, s, d[2])
  BY ResultNew
<1>6. \/ e \in Results(k) /\ (k = n /\ e[1] = s /\ Waiting(n, s) => FALSE)
      \/ k = n /\ e \in res /\ e[1] = s /\ Concludes(n, s, e[2])
  BY ResultNew
<1>7. \A batch : Concludes(n, s, batch) => Waiting(n, s)
  BY DEF Concludes
<1> QED
  BY <1>1, <1>2, <1>3, <1>4, <1>5, <1>6, <1>7

(* Any such step keeps the invariant.                                      *)
LEMMA TwoStays ==
  ASSUME Cardinality(Node) = 2, TimedInv, TimedInv', TwoInv, NEW n \in Node,
         NEW s, NEW w, NEW out, NEW res, Adds(n, s, w, out, res),
         \A msg \in out : msg \in Message
  PROVE  TwoInv'
<1>1. TypeOK /\ TypeOK' /\ Within'
  BY DEF TimedInv
<1>2. TwoBallots' /\ TimersVoted'
  BY <1>1, TwoBallotsStay, TimersVotedStay DEF TwoInv
<1>3. LettersOK' /\ FirstFollows' /\ ResultsMeet'
  BY <1>1, LettersStay, FollowsStay, MeetStays DEF TwoInv
<1> QED
  BY <1>2, <1>3 DEF TwoInv

-----------------------------------------------------------------------------
(* A step that makes nothing of any ballot.                                *)
LEMMA RestTwo ==
  ASSUME Cardinality(Node) = 2, TimedInv, TimedInv', TwoInv,
         Forward, UNCHANGED started,
         \A m \in Node : mode[m] = "crashed" => mode'[m] = "crashed",
         \A m, k \in Node : Mail(m, k)' \subseteq Mail(m, k),
         \A m \in Node : \A t \in Step :
           /\ Finished(m, t) => Finished(m, t)'
           /\ Finished(m, t)' \/ voting'[m][t] = voting[m][t]
           /\ Alive(m)' /\ timer'[m][t] # "off" => timer[m][t] # "off",
         \A m \in Node : Results(m)' \subseteq Results(m)
  PROVE  TwoInv'
<1>1. \A t \in Step : t # MaxStep
  BY VotingAssumption DEF Step
<1>2. PICK n \in Node : TRUE
  BY VotingAssumption
<1>3. Moves(n, MaxStep, Fresh, {}, {})
  BY <1>1 DEF Moves
<1>4. Adds(n, MaxStep, Fresh, {}, {})
  BY <1>1, <1>3 DEF Adds, Casts, Utters, Settles, Rings
<1> QED
  BY <1>4, TwoStays

(* Of these, one that leaves the tables alone.                             *)
LEMMA StillTwo ==
  ASSUME Cardinality(Node) = 2, TimedInv, TimedInv', TwoInv,
         Forward, UNCHANGED <<current, voting, log, started>>,
         \A m \in Node : mode[m] = "crashed" => mode'[m] = "crashed",
         \A m, k \in Node : Mail(m, k)' \subseteq Mail(m, k),
         \A m \in Node : \A t \in Step :
           Alive(m)' /\ timer'[m][t] # "off" => timer[m][t] # "off"
  PROVE  TwoInv'
<1>1. \A m \in Node : \A t \in Step : Finished(m, t)' <=> Finished(m, t)
  BY DEF Finished
<1>2. \A m \in Node : Results(m)' = Results(m)
  BY DEF Results
<1> QED
  BY <1>1, <1>2, RestTwo

(* A message of a step that was executed or decided here.                  *)
LEMMA IgnoredTwo ==
  ASSUME Cardinality(Node) = 2, TimedInv, TimedInv', TwoInv,
         NEW m \in Node, NEW n \in Node, Receives(m, n), chan' = Popped(m, n),
         Forward, UNCHANGED <<mode, current, voting, timer, log, started>>
  PROVE  TwoInv'
<1>1. TypeOK
  BY DEF TimedInv
<1>2. \A a, b \in Node : Mail(a, b)' \subseteq Mail(a, b)
  <2>1. \A a, b \in Node : MailOf(Popped(m, n), a, b) \subseteq Mail(a, b)
    BY <1>1, MailPopped
  <2>2. \A a, b \in Node : Mail(a, b)' = MailOf(Popped(m, n), a, b)
    BY DEF Mail, MailOf
  <2> QED
    BY <2>1, <2>2
<1> QED
  BY <1>2, StillTwo

(* commit() on what n may decide.                                          *)
LEMMA DecidesTwo ==
  ASSUME Cardinality(Node) = 2, TimedInv, TimedInv', TwoInv,
         NEW n \in Node, NEW s \in Step, Alive(n), s >= current[n],
         Forward, UNCHANGED <<mode, started>>,
         NEW w \in Object, NEW batch \in Batch, NEW c \in Chans, NEW t \in Timers,
         \A a, b \in Node : MailOf(c, a, b) \subseteq Mail(a, b),
         \A m \in Node : \A r \in Step : t[m][r] \in {timer[m][r], "off"},
         Commit(n, s, w, batch, c, t), Concludes(n, s, batch)
  PROVE  TwoInv'
<1> DEFINE b == InState("Completed", w, batch)
<1>0. TypeOK'
  BY DEF TimedInv
<1>1. /\ b \in Object /\ b.state = "Completed" /\ b.carries = batch
      /\ Complete(n, s, [voting[n] EXCEPT ![s] = b], t)
  BY DEF InState, Object, Commit
<1> HIDE DEF b
<1>2. /\ Finished(n, s)'
      /\ \A k \in Node : \A r \in Step :
           /\ Finished(k, r) => Finished(k, r)'
           /\ Finished(k, r)' \/ voting'[k][r] = voting[k][r]
      /\ \A k \in Node :
           Results(k)' \subseteq Results(k) \cup (IF k = n THEN {<<s, batch>>} ELSE {})
      /\ \A k \in Node : \A r \in Step : timer'[k][r] \in {t[k][r], "off"}
  BY <1>0, <1>1, CompleteMoves
<1>3. PICK msg : msg = CommitMsg(s, batch)
  OBVIOUS
<1>4. /\ msg \in Message /\ msg.step = s /\ msg.carries = batch /\ msg.type # "vote"
      /\ chan' = Broadcast(c, n, msg)
  BY <1>3 DEF CommitMsg, Message, Commit
<1>5. \A k, l \in Node :
        Mail(k, l)' \subseteq Mail(k, l) \cup (IF k = n /\ l # n THEN {msg} ELSE {})
  <2> SUFFICES ASSUME NEW k \in Node, NEW l \in Node
               PROVE  Mail(k, l)' \subseteq
                        Mail(k, l) \cup (IF k = n /\ l # n THEN {msg} ELSE {})
    OBVIOUS
  <2>1. Mail(k, l)' = MailOf(Broadcast(c, n, msg), k, l)
    BY <1>4 DEF Mail, MailOf
  <2>2. MailOf(Broadcast(c, n, msg), k, l) =
          MailOf(c, k, l) \cup
            (IF k = n /\ l # n /\ mode[l] # "crashed" THEN {msg} ELSE {})
    BY <1>4, MailSent
  <2> QED
    BY <2>1, <2>2
<1>6. Moves(n, s, voting[n][s], {msg}, {<<s, batch>>})
  BY <1>2, <1>5 DEF Moves
<1>7. batch # {} /\ Waiting(n, s) /\ ~Waiting(n, s)'
  BY <1>2, ConcludesMeet DEF Concludes, Waiting
<1>8. Utters(n, s, voting[n][s], {msg}, {<<s, batch>>})
  BY <1>4, <1>7 DEF Utters
<1>9. Settles(n, s, {<<s, batch>>}) /\ Casts(n, s, voting[n][s])
  BY <1>2 DEF Settles, Casts
<1>10. Rings(n, s)
  BY <1>2 DEF Rings
<1>11. Adds(n, s, voting[n][s], {msg}, {<<s, batch>>})
  BY <1>6, <1>8, <1>9, <1>10 DEF Adds
<1> QED
  BY <1>4, <1>11, TwoStays

(* The reader of n takes a message of the other.                           *)
LEMMA TakesTwo ==
  ASSUME TimedInv, TwoInv, NEW m \in Node, NEW n \in Node, NEW s \in Step,
         NEW msg, msg = Head(chan[m][n]), Receives(m, n), s = msg.step, Reaches(n, s),
         UNCHANGED <<mode, started>>
  PROVE  /\ Forward /\ Alive(n) /\ s >= current[n] /\ m \in Node \ {n}
         /\ msg \in Mail(m, n) /\ LetterOK(m, n, msg) /\ msg \in Message
         /\ Popped(m, n) \in Chans
         /\ \A a, b \in Node : MailOf(Popped(m, n), a, b) \subseteq Mail(a, b)
         /\ voting[n][s].state # "Completed" => Waiting(n, s)
<1>0. TypeOK
  BY DEF TimedInv
<1>1. mode[n] # "crashed" /\ s >= current[n]
  BY DEF Receives, Reaches
<1>2. Forward /\ Alive(n)
  BY <1>1, ReachesForward
<1>3. /\ msg \in Mail(m, n)
      /\ \A a, b \in Node : MailOf(Popped(m, n), a, b) \subseteq Mail(a, b)
  BY <1>0, MailPopped
<1>4. m # n /\ LetterOK(m, n, msg)
  BY <1>3 DEF TwoInv, LettersOK
<1>5. msg \in Message /\ Popped(m, n) \in Chans
  BY <1>0, PoppedType
<1>6. ~(s < current[n])
  BY <1>0, <1>1, Naturals
<1>7. voting[n][s].state # "Completed" => Waiting(n, s)
  BY <1>2, <1>6 DEF Waiting, Finished
<1> QED
  BY <1>1, <1>2, <1>3, <1>4, <1>5, <1>7

(* A decision.                                                             *)
LEMMA RecvCommitTwo ==
  ASSUME Cardinality(Node) = 2, TimedInv, TimedInv', TwoInv,
         NEW m \in Node, NEW n \in Node, RecvCommit(m, n)
  PROVE  TwoInv'
<1>0. TypeOK
  BY DEF TimedInv
<1>1. PICK msg \in Message : msg = Head(chan[m][n])
  BY <1>0, PoppedType DEF RecvCommit
<1>2. PICK s \in Step : s = msg.step
  BY DEF Message
<1>3. /\ Receives(m, n) /\ Reaches(n, s)
      /\ UNCHANGED <<mode, started>> /\ msg.type = "commit"
      /\ IF voting[n][s].state = "Completed"
           THEN /\ chan' = Popped(m, n)
                /\ UNCHANGED <<current, voting, timer, log>>
           ELSE Commit(n, s, voting[n][s], msg.carries, Popped(m, n), timer)
  BY <1>1, <1>2 DEF RecvCommit
<1>4. /\ Forward /\ Alive(n) /\ s >= current[n] /\ m \in Node \ {n}
      /\ msg \in Mail(m, n) /\ Popped(m, n) \in Chans
      /\ \A a, b \in Node : MailOf(Popped(m, n), a, b) \subseteq Mail(a, b)
      /\ voting[n][s].state # "Completed" => Waiting(n, s)
  BY <1>1, <1>2, <1>3, TakesTwo
<1>5. CASE voting[n][s].state = "Completed"
  BY <1>3, <1>4, <1>5, IgnoredTwo
<1>6. CASE voting[n][s].state # "Completed"
  <2>1. Concludes(n, s, msg.carries)
    BY <1>2, <1>3, <1>4, <1>6 DEF Concludes
  <2>2. voting[n][s] \in Object /\ msg.carries \in Batch /\ timer \in Timers
    BY <1>0, Naturals DEF Message, TypeOK, Timers
  <2>3. Commit(n, s, voting[n][s], msg.carries, Popped(m, n), timer)
    BY <1>3, <1>6
  <2>4. PICK c \in Chans : c = Popped(m, n)
    BY <1>4
  <2> QED
    BY <1>3, <1>4, <2>1, <2>2, <2>3, <2>4, DecidesTwo
<1> QED
  BY <1>5, <1>6

(* A vote: it is the last that was missing.                                *)
LEMMA RecvVoteTwo ==
  ASSUME Cardinality(Node) = 2, TimedInv, TimedInv', TwoInv,
         NEW m \in Node, NEW n \in Node, RecvVote(m, n)
  PROVE  TwoInv'
<1>0. TypeOK
  BY DEF TimedInv
<1>1. PICK msg \in Message : msg = Head(chan[m][n])
  BY <1>0, PoppedType DEF RecvVote
<1>2. PICK s \in Step : s = msg.step
  BY DEF Message
<1>3. /\ Receives(m, n) /\ Reaches(n, s)
      /\ UNCHANGED <<mode, started>> /\ msg.type = "vote"
      /\ Vote(n, s, msg.carries, m, msg.nodes, Popped(m, n), timer)
  BY <1>1, <1>2 DEF RecvVote
<1>4. /\ Forward /\ Alive(n) /\ s >= current[n] /\ m \in Node \ {n}
      /\ msg \in Mail(m, n) /\ LetterOK(m, n, msg) /\ Popped(m, n) \in Chans
      /\ \A a, b \in Node : MailOf(Popped(m, n), a, b) \subseteq Mail(a, b)
      /\ voting[n][s].state # "Completed" => Waiting(n, s)
  BY <1>1, <1>2, <1>3, TakesTwo
<1>5. CASE voting[n][s].state = "Completed"
  <2>1. chan' = Popped(m, n) /\ UNCHANGED <<current, voting, timer, log>>
    BY <1>3, <1>5 DEF Vote
  <2> QED
    BY <1>3, <1>4, <1>5, <2>1, IgnoredTwo
<1>6. CASE voting[n][s].state # "Completed"
  <2> DEFINE o == voting[n][s]
             w == Merged(o, n, msg.carries, m, msg.nodes)
  <2>1. msg.nodes = Node /\ Node = {m, n} /\ Node # {}
    BY <1>3, <1>4, TwoOnly DEF LetterOK
  <2>2. o = Fresh \/ (o.nodes = Node /\ o.voted = {n})
    BY <1>6 DEF TwoInv, TwoBallots
  <2>3. o.nodes \in {{}, Node} /\ o.voted \subseteq Node
    BY <2>2 DEF Fresh
  <2>4. w.nodes = Node /\ w.voted = Node /\ w.carries = o.carries \cup msg.carries
    BY <2>1, <2>3 DEF Merged
  <2>5. o \in Object /\ msg.carries \in Batch /\ timer \in Timers /\ w \in Object
    <3>1. o \in Object /\ msg.carries \in Batch /\ msg.nodes \in SUBSET Node
      BY <1>0, Naturals DEF Message
    <3> QED
      BY <1>0, <3>1, MergedType DEF TypeOK, Timers
  <2>6. w.carries \in Batch
    BY <2>5 DEF Object
  <2>7. Commit(n, s, w, w.carries, Popped(m, n), timer)
    BY <1>3, <1>6, <2>4 DEF Vote
  <2>8. Concludes(n, s, w.carries)
    BY <1>2, <1>4, <1>6, <2>4 DEF Concludes
  <2>9. PICK c \in Chans : c = Popped(m, n)
    BY <1>4
  <2> HIDE DEF w, o
  <2> QED
    BY <1>3, <1>4, <2>5, <2>6, <2>7, <2>8, <2>9, DecidesTwo
<1> QED
  BY <1>5, <1>6

(* One of two is half of them, and counts if it has the smallest id.       *)
LEMMA HalfOfTwo ==
  ASSUME Cardinality(Node) = 2, NEW n \in Node, NEW w, w.nodes = Node, w.voted = {n},
         IsConsistent(w)
  PROVE  n = Least(Node) /\ Node # {n}
<1>1. Cardinality({n}) = 1
  BY FS_Singleton
<1>2. Least({n}) = n
  <2>1. n \in Nat
    BY VotingAssumption
  <2>2. \A k \in {n} : n <= k
    BY <2>1
  <2>3. \E k \in {n} : \A l \in {n} : k <= l
    BY <2>2
  <2>4. (CHOOSE k \in {n} : \A l \in {n} : k <= l) \in {n}
    BY <2>3
  <2> QED
    BY <2>4 DEF Least
<1> QED
  BY <1>1, <1>2 DEF IsConsistent

(* timeout() on a ballot of n: alone it decides only if it is the first.   *)
LEMMA TimeoutTwo ==
  ASSUME Cardinality(Node) = 2, TimedInv, TimedInv', TwoInv,
         NEW n \in Node, NEW s \in Step, NEW r \in Step, Alive(n), timer[n][s] = "queued",
         UNCHANGED <<next, started>>, r >= current[n], voting[n][r] # Fresh,
         Timeout(n, r, Dequeued(n, s))
  PROVE  TwoInv'
<1> DEFINE o == voting[n][r]
<1>0. TypeOK /\ TypeOK'
  BY DEF TimedInv
<1>1. /\ \A m \in Node : \A i \in Step : Dequeued(n, s)[m][i] \in {timer[m][i], "off"}
      /\ Dequeued(n, s) \in Timers
  BY <1>0 DEF Dequeued, TypeOK, Timers
<1>2. CASE Fail(n, Dequeued(n, s))
  <2>1. /\ UNCHANGED <<current, voting, chan, log>> /\ timer' = Dequeued(n, s)
        /\ \A m \in Node : mode'[m] = IF m = n THEN "closing" ELSE mode[m]
    BY <1>0, <1>2 DEF Fail, TypeOK
  <2>2. \A m \in Node : mode[m] = "crashed" => mode'[m] = "crashed"
    BY <2>1 DEF Alive
  <2>3. Forward
    <3>1. \A m \in Node : Alive(m)' => Alive(m)
      BY <2>1 DEF Alive
    <3> QED
      BY <1>0, <3>1, ForwardStill
  <2>4. \A m, k \in Node : Mail(m, k)' = Mail(m, k)
    BY <2>1, StreamsStill
  <2> QED
    BY <1>1, <2>1, <2>2, <2>3, <2>4, StillTwo
<1>3. CASE /\ IsConsistent(o) /\ UNCHANGED mode
           /\ Vote(n, r, o.carries, n, o.voted, chan, Dequeued(n, s))
  <2>0. Forward
    BY <1>0, <1>3, ForwardStill DEF Alive
  <2>1. CASE o.state = "Completed"
    <3>1. UNCHANGED <<current, voting, chan, log, mode>> /\ timer' = Dequeued(n, s)
      BY <1>3, <2>1 DEF Vote
    <3>2. \A m, k \in Node : Mail(m, k)' = Mail(m, k)
      BY <3>1, StreamsStill
    <3> QED
      BY <1>1, <2>0, <3>1, <3>2, StillTwo
  <2>2. CASE o.state # "Completed"
    <3> DEFINE w == Merged(o, n, o.carries, n, {n})
    <3>1. o.state = "Voted" /\ o.nodes = Node /\ o.voted = {n}
      BY <2>2 DEF TwoInv, TwoBallots
    <3>2. n = Least(Node) /\ Node # {n} /\ Node # {} /\ Node \cap {n} = {n}
      BY <1>3, <3>1, HalfOfTwo
    <3>3. w.nodes = {n} /\ w.voted = {n} /\ w.carries = o.carries
      BY <3>1, <3>2 DEF Merged
    <3>4. o \in Object /\ o.carries \in Batch
      BY <1>0, Naturals DEF Object
    <3>5. w \in Object
      BY <1>0, <3>4, MergedType
    <3>6. Vote(n, r, o.carries, n, {n}, chan, Dequeued(n, s))
      BY <1>3, <3>1
    <3>7. Commit(n, r, w, o.carries, chan, Dequeued(n, s))
      BY <2>2, <3>3, <3>6 DEF Vote
    <3>8. Waiting(n, r)
      <4>1. ~(r < current[n])
        BY <1>0, Naturals
      <4> QED
        BY <2>2, <4>1 DEF Waiting, Finished
    <3>9. Concludes(n, r, o.carries)
      BY <3>1, <3>2, <3>8 DEF Concludes
    <3>10. \A a, b \in Node : MailOf(chan, a, b) \subseteq Mail(a, b)
      BY DEF Mail
    <3>11. chan \in Chans
      BY <1>0 DEF TypeOK, Chans
    <3> HIDE DEF w, o
    <3>12. PICK t \in Timers : t = Dequeued(n, s)
      BY <1>1
    <3> QED
      BY <1>1, <1>3, <2>0, <3>4, <3>5, <3>7, <3>9, <3>10, <3>11, <3>12, DecidesTwo
  <2> QED
    BY <2>1, <2>2
<1> QED
  BY <1>2, <1>3 DEF Timeout

(* timeout(), on its own object.                                           *)
LEMMA RunTimeoutTwo ==
  ASSUME Cardinality(Node) = 2, TimedInv, TimedInv', TwoInv,
         NEW n \in Node, NEW s \in Step, RunTimeout(n, s)
  PROVE  TwoInv'
<1>1. /\ Alive(n) /\ timer[n][s] = "queued" /\ s >= current[n]
      /\ UNCHANGED <<next, started>> /\ Timeout(n, s, Dequeued(n, s))
  BY DEF RunTimeout, Earliest
<1>2. voting[n][s] # Fresh
  <2>1. current[n] <= s
    BY <1>1
  <2> QED
    BY <1>1, <2>1 DEF TwoInv, TimersVoted
<1> QED
  BY <1>1, <1>2, TimeoutTwo

(* timeout(), on whatever the memory of its object holds now.              *)
LEMMA DanglingTwo ==
  ASSUME Cardinality(Node) = 2, TimedInv, TimedInv', TwoInv,
         NEW n \in Node, NEW s \in Step, DanglingTimeout(n, s)
  PROVE  TwoInv'
<1>0. TypeOK /\ TypeOK' /\ Within
  BY DEF TimedInv
<1>1. /\ Alive(n) /\ timer[n][s] = "queued" /\ UNCHANGED <<next, started>>
      /\ \/ /\ UNCHANGED <<current, voting, chan, log>> /\ timer' = Dequeued(n, s)
            /\ mode' = mode \/ mode' = [mode EXCEPT ![n] = "closing"]
         \/ \E r \in Step : voting[n][r] # Fresh /\ Timeout(n, r, Dequeued(n, s))
  BY DEF DanglingTimeout, Earliest, Fail
<1>2. CASE /\ UNCHANGED <<current, voting, chan, log>> /\ timer' = Dequeued(n, s)
           /\ mode' = mode \/ mode' = [mode EXCEPT ![n] = "closing"]
  <2>1. \A m \in Node : \A i \in Step : timer'[m][i] \in {timer[m][i], "off"}
    BY <1>0, <1>2 DEF Dequeued, TypeOK
  <2>2. /\ \A m \in Node : Alive(m)' => Alive(m)
        /\ \A m \in Node : mode[m] = "crashed" => mode'[m] = "crashed"
    BY <1>0, <1>1, <1>2 DEF TypeOK, Alive
  <2>3. Forward
    BY <1>0, <1>1, <2>2, ForwardStill
  <2>4. \A m, k \in Node : Mail(m, k)' = Mail(m, k)
    BY <1>2, StreamsStill
  <2> QED
    BY <1>1, <1>2, <2>1, <2>2, <2>3, <2>4, StillTwo
<1>3. ASSUME NEW r \in Step, voting[n][r] # Fresh, Timeout(n, r, Dequeued(n, s))
      PROVE  TwoInv'
  <2>1. current[n] <= r /\ current[n] \in Nat /\ r \in Nat
    BY <1>0, <1>3, Naturals DEF Within
  <2>2. r >= current[n]
    BY <2>1
  <2> QED
    BY <1>1, <1>3, <2>2, TimeoutTwo
<1> QED
  BY <1>1, <1>2, <1>3

(* apply(): n votes in a new ballot, and has to wait for the other.        *)
LEMMA ApplyTwo ==
  ASSUME Cardinality(Node) = 2, TimedInv, TimedInv', TwoInv,
         NEW n \in Node, Apply(n)
  PROVE  TwoInv'
<1>0. TypeOK /\ TypeOK' /\ Within
  BY DEF TimedInv
<1>1. PICK s \in Step : s = next[n]
  BY <1>0, VotingAssumption DEF Apply, TypeOK, Step
<1>2. PICK k \in Nat : k = Len(started[n]) + 1
  BY <1>0, Numbers
<1> DEFINE x == <<n, k>>
           vm == VoteMsg(s, {x}, Node)
           w == Merged(Fresh, n, {x}, n, Node)
<1>3. /\ Alive(n) /\ UNCHANGED mode
      /\ next' = [next EXCEPT ![n] = s + 1]
      /\ started' = [started EXCEPT ![n] = Append(@, s)]
      /\ Vote(n, s, {x}, n, Node, chan, [timer EXCEPT ![n][s] = "armed"])
  BY <1>1, <1>2 DEF Apply
<1>4. /\ s \in Nat /\ s + 1 \in Nat /\ started[n] \in Seq(Step) /\ current[n] \in Nat
      /\ \A m \in Node : next[m] \in Nat
  BY <1>0, Numbers
<1>5. \A m \in Node : next'[m] = IF m = n THEN s + 1 ELSE next[m]
  BY <1>0, <1>3 DEF TypeOK
<1>6. \A m \in Node : started'[m] = IF m = n THEN Append(started[n], s) ELSE started[m]
  BY <1>0, <1>3 DEF TypeOK
<1>7. /\ DOMAIN Append(started[n], s) = (DOMAIN started[n]) \cup {k}
      /\ Append(started[n], s)[k] = s
      /\ \A j \in DOMAIN started[n] : Append(started[n], s)[j] = started[n][j]
  BY <1>2, <1>4
<1>8. Forward
  <2>1. \A m \in Node : next[m] <= next'[m]
    BY <1>1, <1>4, <1>5
  <2>2. \A m \in Node : Alive(m)' => Alive(m)
    BY <1>3 DEF Alive
  <2>3. \A m \in Node : \A j \in DOMAIN started[m] :
          j \in DOMAIN started'[m] /\ started'[m][j] = started[m][j]
    BY <1>6, <1>7
  <2> QED
    BY <2>1, <2>2, <2>3 DEF Forward
<1>9. voting[n][s] = Fresh /\ s >= current[n] /\ next[n] <= s
  <2>1. ~(s < next[n]) /\ next[n] <= s
    BY <1>1, <1>4
  <2>2. current[n] <= s
    BY <1>0, <1>1, <1>3 DEF Within
  <2> QED
    BY <1>0, <2>1, <2>2 DEF Within
<1>10. Node # {n} /\ n \in Node
  <2>1. Cardinality({n}) = 1
    BY FS_Singleton
  <2> QED
    BY <2>1
<1>11. w = [state |-> "Initial", nodes |-> Node, voted |-> {n}, carries |-> {x}]
  BY DEF Merged, Fresh
<1>12. PICK u : u = [state |-> "Voted", nodes |-> Node, voted |-> {n}, carries |-> {x}]
  OBVIOUS
<1>13. /\ voting' = [voting EXCEPT ![n][s] = u]
       /\ timer' = [timer EXCEPT ![n][s] = "armed"]
       /\ chan' = Broadcast(chan, n, vm)
       /\ UNCHANGED <<current, log>>
  <2> HIDE DEF w
  <2>1. /\ w.state = "Initial" /\ w.nodes = Node /\ w.voted = {n} /\ w.carries = {x}
        /\ InState("Voted", w, w.carries) = u
    BY <1>11, <1>12 DEF InState
  <2>2. Vote(n, s, {x}, n, Node, chan, [timer EXCEPT ![n][s] = "armed"])
        /\ w = Merged(voting[n][s], n, {x}, n, Node)
        /\ voting[n][s].state # "Completed"
    BY <1>3, <1>9 DEF w, Fresh
  <2> QED
    BY <1>10, <2>1, <2>2 DEF Vote
<1>14. /\ u \in Object /\ u.state = "Voted" /\ u.nodes = Node /\ u.voted = {n}
       /\ u.carries = {x}
  BY <1>2, <1>12 DEF Object, Batch, MsgId
<1>15. {x} \in Batch /\ vm \in Message
  <2>1. {x} \in Batch
    BY <1>2 DEF Batch, MsgId
  <2> QED
    BY <2>1 DEF VoteMsg, Message
<1>16. PICK msg \in Message : msg = vm
  BY <1>15
<1>17. /\ msg.step = s /\ msg.type = "vote" /\ msg.nodes = Node /\ msg.carries = {x}
       /\ chan' = Broadcast(chan, n, msg) /\ chan \in Chans
  BY <1>0, <1>13, <1>16 DEF VoteMsg, TypeOK, Chans
<1> HIDE DEF w, vm, x
<1>18. Carried(n, {msg})
  <2> SUFFICES ASSUME NEW a \in Node, NEW b \in Node
               PROVE  Mail(a, b)' \subseteq
                        Mail(a, b) \cup (IF a = n /\ b # n THEN {msg} ELSE {})
    BY DEF Carried
  <2>1. Mail(a, b)' = MailOf(Broadcast(chan, n, msg), a, b)
    BY <1>17 DEF Mail, MailOf
  <2>2. MailOf(Broadcast(chan, n, msg), a, b) =
          MailOf(chan, a, b) \cup
            (IF a = n /\ b # n /\ mode[b] # "crashed" THEN {msg} ELSE {})
    BY <1>17, MailSent
  <2> QED
    BY <2>1, <2>2 DEF Mail
<1>19. Opens(n, s, u)
  <2>1. \A m \in Node : \A j \in DOMAIN started'[m] :
          \/ j \in DOMAIN started[m]
          \/ m = n /\ started'[m][j] = s /\ next[n] <= s
    BY <1>6, <1>7, <1>9
  <2>2. Continues(voting[n][s], u) /\ voting[n][s].state # "Completed"
    BY <1>9, <1>14 DEF Continues, Fresh, Shrunk
  <2> QED
    BY <1>3, <1>8, <1>9, <1>13, <1>14, <2>1, <2>2 DEF Opens
<1>20. Moves(n, s, u, {msg}, {})
  BY <1>0, <1>14, <1>18, <1>19, OpenMoves
<1>21. Waiting(n, s)
  BY <1>0, <1>14, <1>19, OpenTables
<1>22. {x} # {} /\ Casts(n, s, u)
  BY <1>9, <1>14 DEF Casts
<1>23. Utters(n, s, u, {msg}, {})
  BY <1>14, <1>17, <1>21, <1>22 DEF Utters
<1>24. Rings(n, s)
  <2>1. \A m \in Node : \A t \in Step :
          timer'[m][t] = IF m = n /\ t = s THEN "armed" ELSE timer[m][t]
    BY <1>0, <1>13, SMTT(30) DEF TypeOK
  <2> QED
    BY <2>1 DEF Rings
<1>25. Adds(n, s, u, {msg}, {})
  BY <1>20, <1>22, <1>23, <1>24 DEF Adds, Settles
<1> QED
  BY <1>17, <1>25, TwoStays

(* A process dies.                                                         *)
LEMMA CrashTwo ==
  ASSUME Cardinality(Node) = 2, TimedInv, TimedInv', TwoInv,
         NEW n \in Node, Crash(n)
  PROVE  TwoInv'
<1>0. TypeOK /\ TypeOK'
  BY DEF TimedInv
<1>1. PICK out \in CutStreams(n) :
        chan' = [m \in Node |-> IF m = n THEN out
                                         ELSE [chan[m] EXCEPT ![n] = <<>>]]
  BY DEF Crash
<1>2. /\ UNCHANGED <<next, current, voting, timer, started, log>>
      /\ \A m \in Node : mode'[m] = IF m = n THEN "crashed" ELSE mode[m]
  BY <1>0 DEF Crash, TypeOK
<1>3. /\ chan'[n] = out
      /\ \A m \in Node \ {n} : \A k \in Node \ {n} : chan'[m][k] = chan[m][k]
      /\ \A m \in Node \ {n} : chan'[m][n] \in {chan[m][n], <<>>}
  BY <1>0, <1>1 DEF TypeOK
<1>4. ~Alive(n)' /\ \A m \in Node : Alive(m)' => Alive(m)
  BY <1>2 DEF Alive
<1>5. \A m, k \in Node : Mail(m, k)' \subseteq Mail(m, k)
  BY <1>0, <1>3, <1>4, CutStill
<1>6. Forward
  BY <1>0, <1>2, <1>4, ForwardStill
<1> QED
  BY <1>2, <1>5, <1>6, StillTwo

(* The clean-up coroutine clears the table and closes the sockets.         *)
LEMMA CleanupTwo ==
  ASSUME Cardinality(Node) = 2, TimedInv, TimedInv', TwoInv,
         NEW n \in Node, CleanupRun(n)
  PROVE  TwoInv'
<1>0. TypeOK /\ TypeOK'
  BY DEF TimedInv
<1>1. PICK out \in CutStreams(n) : chan' = [chan EXCEPT ![n] = out]
  BY DEF CleanupRun
<1>2. /\ UNCHANGED <<next, started, log>> /\ mode[n] = "closing"
      /\ \A m \in Node : mode'[m] = IF m = n THEN "closed" ELSE mode[m]
      /\ \A m \in Node : current'[m] = IF m = n THEN MaxStep ELSE current[m]
      /\ \A m \in Node : \A s \in Step :
           /\ voting'[m][s] = IF m = n THEN Fresh ELSE voting[m][s]
           /\ timer'[m][s] = IF m = n THEN "off" ELSE timer[m][s]
  BY <1>0 DEF CleanupRun, TypeOK
<1>3. /\ chan'[n] = out
      /\ \A m \in Node \ {n} : \A k \in Node \ {n} : chan'[m][k] = chan[m][k]
      /\ \A m \in Node \ {n} : chan'[m][n] \in {chan[m][n], <<>>}
  BY <1>0, <1>1 DEF TypeOK
<1>4. ~Alive(n)' /\ \A m \in Node : Alive(m)' => Alive(m)
  BY <1>2 DEF Alive
<1>5. \A m, k \in Node : Mail(m, k)' \subseteq Mail(m, k)
  BY <1>0, <1>3, <1>4, CutStill
<1>6. Forward
  BY <1>0, <1>2, <1>4, ForwardStill
<1>7. /\ \A t \in Step : Finished(n, t)'
      /\ \A m \in Node \ {n} : \A t \in Step : Finished(m, t)' <=> Finished(m, t)
  BY <1>2, VotingAssumption DEF Finished, Step
<1>8. \A m \in Node : Results(m)' \subseteq Results(m)
  BY <1>2 DEF Results, Fresh
<1> QED
  BY <1>2, <1>5, <1>6, <1>7, <1>8, RestTwo

(* A timer runs out.                                                       *)
LEMMA ExpireTwo ==
  ASSUME Cardinality(Node) = 2, TimedInv, TimedInv', TwoInv,
         NEW n \in Node, NEW s \in Step, Expire(n, s)
  PROVE  TwoInv'
<1>0. TypeOK /\ TypeOK'
  BY DEF TimedInv
<1>1. /\ UNCHANGED <<mode, next, current, voting, chan, started, log>>
      /\ timer[n][s] = "armed"
      /\ \A m \in Node : \A t \in Step :
           timer'[m][t] = IF m = n /\ t = s THEN "queued" ELSE timer[m][t]
  BY <1>0 DEF Expire, Earliest, TypeOK
<1>2. Forward
  BY <1>0, <1>1, ForwardStill DEF Alive
<1>3. \A m, k \in Node : Mail(m, k)' = Mail(m, k)
  BY <1>1, StreamsStill
<1> QED
  BY <1>1, <1>2, <1>3, StillTwo

(* Every step of the protocol keeps the invariant.                         *)
LEMMA TwoStep ==
  ASSUME Cardinality(Node) = 2, TimedInv, TimedInv', TwoInv, [Next]_vars
  PROVE  TwoInv'
<1>0. TypeOK
  BY DEF TimedInv
<1>1. ASSUME NEW m \in Node, NEW n \in Node, RecvStale(m, n)
      PROVE  TwoInv'
  <2>1. /\ Receives(m, n) /\ chan' = Popped(m, n)
        /\ UNCHANGED <<mode, next, current, voting, timer, started, log>>
    BY <1>1 DEF RecvStale
  <2>2. Forward
    BY <1>0, <2>1, ForwardStill DEF Alive
  <2> QED
    BY <2>1, <2>2, IgnoredTwo
<1>2. CASE Quiet
  BY <1>1, <1>2, ApplyTwo, CrashTwo, RecvVoteTwo, RecvCommitTwo DEF Quiet
<1>3. CASE Late
  BY <1>3, CleanupTwo, ExpireTwo, RunTimeoutTwo, DanglingTwo DEF Late
<1>4. CASE UNCHANGED vars
  <2>1. UNCHANGED <<mode, next, current, voting, timer, chan, started, log>>
    BY <1>4 DEF vars
  <2>2. Forward
    BY <1>0, <2>1, ForwardStill DEF Alive
  <2>3. \A m, k \in Node : Mail(m, k)' = Mail(m, k)
    BY <2>1 DEF Mail, MailOf
  <2> QED
    BY <2>1, <2>2, <2>3, StillTwo
<1> QED
  BY <1>2, <1>3, <1>4 DEF Next

(* No ballot has been opened yet.                                          *)
LEMMA TwoInit == Init => TwoInv
<1> SUFFICES ASSUME Init
             PROVE  TwoInv
  OBVIOUS
<1>1. /\ \A m, n \in Node : Mail(m, n) = {}
      /\ \A n \in Node : Results(n) = {}
      /\ \A n \in Node : \A s \in Step : voting[n][s] = Fresh /\ timer[n][s] = "off"
  BY DEF Init, Mail, MailOf, Results, Fresh
<1>2. TwoBallots /\ TimersVoted
  BY <1>1 DEF TwoBallots, TimersVoted
<1>3. LettersOK /\ FirstFollows /\ ResultsMeet
  BY <1>1 DEF LettersOK, FirstFollows, ResultsMeet
<1> QED
  BY <1>2, <1>3 DEF TwoInv

(* With two processes, whatever the network does and even if every timeout *)
(* is a false one or its handler runs on another ballot: of any step that  *)
(* both have executed, also before they died, they have executed something *)
(* in common.  isConsistent() lets only one of them go on alone, and that  *)
(* one decides with what it had told the other.                            *)
THEOREM TwoNeverSplit ==
  ASSUME Cardinality(Node) = 2
  PROVE  Spec => []NoSplitBrain
<1>1. TimedInv /\ TwoInv /\ [Next]_vars => (TimedInv /\ TwoInv)'
  BY TimedStep, TwoStep
<1>2. Init => TimedInv /\ TwoInv
  BY TimedInit, TwoInit
<1>3. TwoInv => NoSplitBrain
  <2> SUFFICES ASSUME TwoInv, NEW m \in Node, NEW n \in Node,
                      NEW i \in (DOMAIN log[m]) \cap (DOMAIN log[n])
               PROVE  log[m][i] \cap log[n][i] # {}
    BY DEF NoSplitBrain
  <2>1. <<i - 1, log[m][i]>> \in Results(m) /\ <<i - 1, log[n][i]>> \in Results(n)
    BY DEF Results
  <2> QED
    BY <2>1 DEF TwoInv, ResultsMeet
<1> QED
  BY <1>1, <1>2, <1>3, PTL DEF Spec
=============================================================================
