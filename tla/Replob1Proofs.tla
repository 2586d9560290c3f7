---------------------------- MODULE Replob1Proofs ----------------------------
(***************************************************************************)
(* Proofs about Replob1 in a timely network, for every set of nodes and    *)
(* all bounds, processes that stop and timers that expire included: the    *)
(* inductive invariant, and that the protocol is an atomic broadcast.      *)
(***************************************************************************)
EXTENDS Replob1Properties, FiniteSetTheorems, FunctionTheorems, SequenceTheorems, TLAPS

-----------------------------------------------------------------------------
(* Streams.  What is left when the first message is read, ...              *)
LEMMA TailFacts ==
  ASSUME NEW q \in Seq(Message), q # <<>>
  PROVE  /\ Tail(q) \in Seq(Message) /\ Head(q) \in Message
         /\ Len(q) \in Nat /\ Head(q) = q[1] /\ 1 \in DOMAIN q
         /\ DOMAIN q = 1 .. Len(q)
         /\ DOMAIN Tail(q) = 1 .. Len(q) - 1
         /\ \A i \in DOMAIN Tail(q) : i + 1 \in DOMAIN q /\ Tail(q)[i] = q[i + 1]
         /\ \A i \in DOMAIN q : i = 1 \/ i - 1 \in DOMAIN Tail(q)
<1>1. /\ Tail(q) \in Seq(Message) /\ Head(q) \in Message
      /\ Len(Tail(q)) = Len(q) - 1
      /\ \A i \in 1 .. Len(Tail(q)) : Tail(q)[i] = q[i + 1]
  BY HeadTailProperties
<1>2. Len(q) \in Nat /\ Len(q) # 0 /\ DOMAIN q = 1 .. Len(q)
  BY LenProperties, EmptySeq
<1>3. DOMAIN Tail(q) = 1 .. Len(Tail(q))
  BY <1>1, LenProperties
<1>4. Head(q) = q[1]
  BY <1>2
<1> QED
  BY <1>1, <1>2, <1>3, <1>4

(* ... when one is written, ...                                            *)
LEMMA AppendFacts ==
  ASSUME NEW S, NEW q \in Seq(S), NEW msg \in S
  PROVE  /\ Append(q, msg) \in Seq(S)
         /\ Len(q) \in Nat /\ Len(q) + 1 \in Nat
         /\ DOMAIN q = 1 .. Len(q)
         /\ DOMAIN Append(q, msg) = 1 .. Len(q) + 1
         /\ Append(q, msg)[Len(q) + 1] = msg
         /\ \A i \in DOMAIN q : Append(q, msg)[i] = q[i]
<1>1. Len(q) \in Nat /\ DOMAIN q = 1 .. Len(q)
  BY LenProperties
<1>2. /\ Append(q, msg) \in Seq(S) /\ Len(Append(q, msg)) = Len(q) + 1
      /\ \A i \in 1 .. Len(q) : Append(q, msg)[i] = q[i]
      /\ Append(q, msg)[Len(q) + 1] = msg
  BY AppendProperties
<1>3. DOMAIN Append(q, msg) = 1 .. Len(Append(q, msg))
  BY <1>2, LenProperties
<1> QED
  BY <1>1, <1>2, <1>3

(* ... and when the rest is lost.                                          *)
LEMMA PrefixFacts ==
  ASSUME NEW q \in Seq(Message), NEW k \in 0 .. Len(q)
  PROVE  /\ SubSeq(q, 1, k) \in Seq(Message)
         /\ Len(q) \in Nat
         /\ DOMAIN q = 1 .. Len(q)
         /\ DOMAIN SubSeq(q, 1, k) = 1 .. k
         /\ \A i \in 1 .. k : i \in DOMAIN q /\ SubSeq(q, 1, k)[i] = q[i]
<1>1. Len(q) \in Nat /\ DOMAIN q = 1 .. Len(q) /\ k \in Int
  BY LenProperties
<1>2. \A i \in 1 .. k : q[i] \in Message
  BY <1>1, ElementOfSeq
<1>3. /\ SubSeq(q, 1, k) \in Seq(Message)
      /\ Len(SubSeq(q, 1, k)) = k
      /\ \A i \in 1 .. k : SubSeq(q, 1, k)[i] = q[i]
  BY <1>1, <1>2, SubSeqProperties
<1>4. DOMAIN SubSeq(q, 1, k) = 1 .. k
  BY <1>3, LenProperties
<1> QED
  BY <1>1, <1>3, <1>4

(* A message that is read was in sequence, and so are those behind it.     *)
LEMMA StreamTail ==
  ASSUME NEW q \in Seq(Message), q # <<>>, NEW kinds, NEW H, NEW H2
  PROVE  /\ \A t : Sent(q, kinds, t) => Sent(Tail(q), kinds, t) \/ About(Head(q), kinds, t)
         /\ InSequence(q, kinds, H) =>
              \A s, t \in Step : About(Head(q), kinds, s) /\ t < s => t \in H
         /\ InSequence(q, kinds, H) /\ H \subseteq H2
              /\ (\A t \in Step : About(Head(q), kinds, t) => t \in H2)
              => InSequence(Tail(q), kinds, H2)
<1> DEFINE r == Tail(q)
<1>1. /\ Len(q) \in Nat /\ Head(q) = q[1] /\ 1 \in DOMAIN q
      /\ DOMAIN q = 1 .. Len(q)
      /\ DOMAIN r = 1 .. Len(q) - 1
      /\ \A i \in DOMAIN r : i + 1 \in DOMAIN q /\ r[i] = q[i + 1]
      /\ \A i \in DOMAIN q : i = 1 \/ i - 1 \in DOMAIN r
  BY TailFacts
<1> HIDE DEF r
<1>2. ASSUME NEW t, Sent(q, kinds, t)
      PROVE  Sent(r, kinds, t) \/ About(Head(q), kinds, t)
  <2>1. PICK i \in DOMAIN q : About(q[i], kinds, t)
    BY <1>2 DEF Sent
  <2>2. CASE i # 1
    <3>1. i - 1 \in DOMAIN r /\ r[i - 1] = q[i]
      <4>1. i - 1 \in DOMAIN r
        BY <1>1, <2>2
      <4>2. r[i - 1] = q[(i - 1) + 1]
        BY <1>1, <4>1
      <4> QED
        BY <1>1, <4>1, <4>2
    <3> QED
      BY <2>1, <3>1 DEF Sent
  <2> QED
    BY <1>1, <2>1, <2>2
<1>3. ASSUME InSequence(q, kinds, H), NEW s \in Step, NEW t \in Step,
             About(Head(q), kinds, s), t < s
      PROVE  t \in H
  <2>1. t \in H \/ \E j \in 1 .. 1 - 1 : About(q[j], kinds, t)
    BY <1>1, <1>3 DEF InSequence
  <2> QED
    BY <2>1
<1>4. ASSUME InSequence(q, kinds, H), H \subseteq H2,
             \A t \in Step : About(Head(q), kinds, t) => t \in H2,
             NEW i \in DOMAIN r, NEW s \in Step, NEW t \in Step,
             About(r[i], kinds, s), t < s
      PROVE  t \in H2 \/ \E j \in 1 .. i - 1 : About(r[j], kinds, t)
  <2>1. i + 1 \in DOMAIN q /\ About(q[i + 1], kinds, s) /\ i \in Nat
    BY <1>1, <1>4
  <2>2. t \in H \/ \E j \in 1 .. (i + 1) - 1 : About(q[j], kinds, t)
    BY <1>4, <2>1 DEF InSequence
  <2>3. ASSUME NEW j \in 1 .. (i + 1) - 1, About(q[j], kinds, t), j # 1
        PROVE  \E l \in 1 .. i - 1 : About(r[l], kinds, t)
    <3>1. j - 1 \in 1 .. i - 1 /\ j - 1 \in DOMAIN r
      BY <1>1, <2>1, <2>3
    <3>2. r[j - 1] = q[(j - 1) + 1]
      BY <1>1, <3>1
    <3>3. (j - 1) + 1 = j
      BY <2>1
    <3> QED
      BY <2>3, <3>1, <3>2, <3>3
  <2> QED
    BY <1>1, <1>4, <2>2, <2>3
<1>5. InSequence(q, kinds, H) /\ H \subseteq H2
        /\ (\A t \in Step : About(Head(q), kinds, t) => t \in H2)
        => InSequence(r, kinds, H2)
  BY <1>4 DEF InSequence
<1> QED
  BY <1>2, <1>3, <1>5 DEF r

(* A message that comes in its turn may be written.                        *)
LEMMA StreamAppend ==
  ASSUME NEW q \in Seq(Message), NEW msg \in Message, NEW kinds, NEW H
  PROVE  /\ \A t : Sent(q, kinds, t) => Sent(Append(q, msg), kinds, t)
         /\ \A t : About(msg, kinds, t) => Sent(Append(q, msg), kinds, t)
         /\ InSequence(q, kinds, H)
              /\ (\A s, t \in Step : About(msg, kinds, s) /\ t < s =>
                    t \in H \/ Sent(q, kinds, t))
              => InSequence(Append(q, msg), kinds, H)
<1> DEFINE r == Append(q, msg)
<1>1. /\ Len(q) \in Nat
      /\ DOMAIN q = 1 .. Len(q)
      /\ DOMAIN r = 1 .. Len(q) + 1
      /\ r[Len(q) + 1] = msg
      /\ \A i \in DOMAIN q : r[i] = q[i]
  BY AppendFacts
<1> HIDE DEF r
<1>2. DOMAIN q \subseteq DOMAIN r /\ Len(q) + 1 \in DOMAIN r
  BY <1>1
<1>3. \A t : Sent(q, kinds, t) => Sent(r, kinds, t)
  BY <1>1, <1>2 DEF Sent
<1>4. \A t : About(msg, kinds, t) => Sent(r, kinds, t)
  BY <1>1, <1>2 DEF Sent
<1>5. ASSUME InSequence(q, kinds, H),
             \A s, t \in Step : About(msg, kinds, s) /\ t < s => t \in H \/ Sent(q, kinds, t),
             NEW i \in DOMAIN r, NEW s \in Step, NEW t \in Step,
             About(r[i], kinds, s), t < s
      PROVE  t \in H \/ \E j \in 1 .. i - 1 : About(r[j], kinds, t)
  <2>1. CASE i = Len(q) + 1
    <3>1. t \in H \/ Sent(q, kinds, t)
      BY <1>1, <1>5, <2>1
    <3>2. ASSUME NEW j \in DOMAIN q, About(q[j], kinds, t)
          PROVE  j \in 1 .. i - 1 /\ About(r[j], kinds, t)
      BY <1>1, <2>1, <3>2
    <3> QED
      BY <3>1, <3>2 DEF Sent
  <2>2. CASE i # Len(q) + 1
    <3>1. i \in DOMAIN q /\ r[i] = q[i]
      BY <1>1, <2>2
    <3>2. t \in H \/ \E j \in 1 .. i - 1 : About(q[j], kinds, t)
      BY <1>5, <3>1 DEF InSequence
    <3>3. \A j \in 1 .. i - 1 : r[j] = q[j]
      BY <1>1, <3>1
    <3> QED
      BY <3>2, <3>3
  <2> QED
    BY <2>1, <2>2
<1>6. InSequence(q, kinds, H)
        /\ (\A s, t \in Step : About(msg, kinds, s) /\ t < s => t \in H \/ Sent(q, kinds, t))
        => InSequence(r, kinds, H)
  BY <1>5 DEF InSequence
<1> QED
  BY <1>3, <1>4, <1>6 DEF r

(* What is left of a stream in sequence is.                                *)
LEMMA StreamPrefix ==
  ASSUME NEW q \in Seq(Message), NEW k \in 0 .. Len(q), NEW kinds, NEW H,
         InSequence(q, kinds, H)
  PROVE  InSequence(SubSeq(q, 1, k), kinds, H)
<1> DEFINE r == SubSeq(q, 1, k)
<1>1. /\ DOMAIN r = 1 .. k
      /\ \A i \in 1 .. k : i \in DOMAIN q /\ r[i] = q[i]
  BY PrefixFacts
<1>2. k \in Nat
  BY LenProperties
<1> HIDE DEF r
<1>3. ASSUME NEW i \in DOMAIN r, NEW s \in Step, NEW t \in Step,
             About(r[i], kinds, s), t < s
      PROVE  t \in H \/ \E j \in 1 .. i - 1 : About(r[j], kinds, t)
  <2>1. t \in H \/ \E j \in 1 .. i - 1 : About(q[j], kinds, t)
    BY <1>1, <1>3 DEF InSequence
  <2>2. \A j \in 1 .. i - 1 : j \in 1 .. k
    BY <1>1, <1>2
  <2> QED
    BY <1>1, <2>1, <2>2
<1> QED
  BY <1>3 DEF InSequence, r

-----------------------------------------------------------------------------
(* Types.                                                                  *)
Chans == [Node -> [Node -> Seq(Message)]]
Table == [Step -> StepData]
Done(batch) == [state |-> "Completed", votes |-> {}, msgs |-> batch]

LEMMA FreshType == Fresh \in StepData
BY DEF Fresh, StepData, Batch

LEMMA DoneType ==
  ASSUME NEW batch \in Batch
  PROVE  Done(batch) \in StepData
BY DEF Done, StepData

LEMMA StepFacts ==
  /\ MaxStep \in Nat
  /\ \A s \in Step : s \in Nat /\ s < MaxStep /\ s + 1 \in 0 .. MaxStep
  /\ \A s \in 0 .. MaxStep : s < MaxStep => s \in Step
BY Replob1Assumption DEF Step

(* The fields of a message.                                                *)
LEMMA MessageFields ==
  ASSUME NEW msg \in Message
  PROVE  /\ msg.type \in {"vote", "commit", "leave"}
         /\ msg.type # "leave" => msg.step \in Step /\ msg.msgs \in Batch
         /\ msg.type = "leave" => msg.nodes \subseteq Node
BY DEF Message

LEMMA MessageTypes ==
  /\ \A s \in Step : \A x \in MsgId : VoteMsg(s, x) \in Message
  /\ \A s \in Step : \A batch \in Batch : CommitMsg(s, batch) \in Message
  /\ \A nodes \in SUBSET Node : LeaveMsg(nodes) \in Message
BY DEF Message, VoteMsg, CommitMsg, LeaveMsg, Batch

LEMMA NodesDef ==
  ASSUME NEW d \in StepData
  PROVE  \A m : m \in VotedNodesSet(d) <=> m \in Node /\ \E x \in MsgId : <<x, m>> \in d.votes
<1>1. \A v \in d.votes : v[1] \in MsgId /\ v[2] \in Node /\ v = <<v[1], v[2]>>
  BY DEF StepData
<1>2. \A x, m : <<x, m>>[2] = m
  OBVIOUS
<1> QED
  BY <1>1, <1>2, ZenonT(60) DEF VotedNodesSet

LEMMA MsgsDef ==
  ASSUME NEW d \in StepData
  PROVE  /\ Msgs(d) \in Batch
         /\ \A x : x \in Msgs(d) <=> \E m \in Node : <<x, m>> \in d.votes
<1>1. \A v \in d.votes : v[1] \in MsgId /\ v[2] \in Node /\ v = <<v[1], v[2]>>
  BY DEF StepData
<1>2. \A x, m : <<x, m>>[1] = x
  OBVIOUS
<1>3. \A x : x \in Msgs(d) <=> \E m \in Node : <<x, m>> \in d.votes
  BY <1>1, <1>2, ZenonT(60) DEF Msgs
<1> QED
  BY <1>1, <1>2, ZenonT(60) DEF Msgs, Batch

LEMMA VotedType ==
  ASSUME TypeOK, NEW n \in Node, NEW s \in Step, NEW x \in MsgId, NEW voted \in Node
  PROVE  /\ Voted(n, s, x, voted) \in StepData
         /\ Voted(n, s, x, voted).state = "Voted"
         /\ Voted(n, s, x, voted).msgs = steps[n][s].msgs
         /\ Voted(n, s, x, voted).votes =
              steps[n][s].votes \cup {<<x, voted>>}
                \cup (IF steps[n][s].state = "Initial" THEN {<<x, n>>} ELSE {})
<1>1. steps[n][s] \in StepData
  BY DEF TypeOK
<1> DEFINE new == {<<x, voted>>} \cup (IF steps[n][s].state = "Initial" THEN {<<x, n>>} ELSE {})
           v == steps[n][s].votes \cup new
<1>2. v \in SUBSET (MsgId \X Node)
  BY <1>1 DEF StepData
<1>3. Voted(n, s, x, voted) = [steps[n][s] EXCEPT !.state = "Voted", !.votes = v]
  BY DEF Voted
<1> HIDE DEF v
<1>4. /\ [steps[n][s] EXCEPT !.state = "Voted", !.votes = v] \in StepData
      /\ [steps[n][s] EXCEPT !.state = "Voted", !.votes = v].state = "Voted"
      /\ [steps[n][s] EXCEPT !.state = "Voted", !.votes = v].votes = v
      /\ [steps[n][s] EXCEPT !.state = "Voted", !.votes = v].msgs = steps[n][s].msgs
  BY <1>1, <1>2 DEF StepData
<1> QED
  BY <1>3, <1>4 DEF v

LEMMA BroadcastType ==
  ASSUME NEW c \in Chans, NEW n \in Node, NEW msg \in Message
  PROVE  Broadcast(c, n, msg) \in Chans
<1>1. \A m \in Node : Append(c[n][m], msg) \in Seq(Message)
  BY DEF Chans
<1> QED
  BY <1>1 DEF Broadcast, Chans

LEMMA PoppedType ==
  ASSUME TypeOK, NEW m \in Node, NEW n \in Node, Receives(m, n)
  PROVE  /\ Popped(m, n) \in Chans
         /\ Head(chan[m][n]) \in Message
         /\ chan[m][n] \in Seq(Message) /\ chan[m][n] # <<>>
         /\ \A p, q \in Node : Popped(m, n)[p][q] =
              IF p = m /\ q = n THEN Tail(chan[p][q]) ELSE chan[p][q]
<1>1. chan[m][n] \in Seq(Message) /\ chan[m][n] # <<>>
  BY DEF TypeOK, Receives
<1>2. Tail(chan[m][n]) \in Seq(Message) /\ Head(chan[m][n]) \in Message
  BY <1>1, TailFacts
<1> QED
  BY <1>1, <1>2 DEF Popped, Chans, TypeOK

(* Closed() loses the end of some streams.                                 *)
LEMMA ClosedFacts ==
  ASSUME NEW c \in Chans, NEW n \in Node, NEW S, NEW out \in Closed(c, n, S)
  PROVE  /\ out \in [Node -> Seq(Message)]
         /\ \A m \in Node : \E k \in 0 .. Len(c[n][m]) : out[m] = SubSeq(c[n][m], 1, k)
         /\ \A m \in Node : m \notin S => out[m] = c[n][m]
         /\ \A m \in Node : c[n][m] = <<>> => out[m] = <<>>
<1> DEFINE Prefixes(q) == {SubSeq(q, 1, k) : k \in 0 .. Len(q)}
<1>1. /\ DOMAIN out = Node
      /\ out \in [Node -> UNION {Prefixes(c[n][m]) : m \in Node}]
      /\ \A m \in Node : out[m] \in IF m \in S THEN Prefixes(c[n][m]) ELSE {c[n][m]}
  BY DEF Closed
<1>2. ASSUME NEW m \in Node
      PROVE  /\ \E k \in 0 .. Len(c[n][m]) : out[m] = SubSeq(c[n][m], 1, k)
             /\ out[m] \in Seq(Message)
             /\ c[n][m] = <<>> => out[m] = <<>>
  <2>1. c[n][m] \in Seq(Message) /\ Len(c[n][m]) \in Nat
    BY LenProperties DEF Chans
  <2>2. SubSeq(c[n][m], 1, Len(c[n][m])) = c[n][m] /\ Len(c[n][m]) \in 0 .. Len(c[n][m])
    BY <2>1, SubSeqFull
  <2>3. PICK k \in 0 .. Len(c[n][m]) : out[m] = SubSeq(c[n][m], 1, k)
    <3>1. CASE m \in S
      BY <1>1, <3>1
    <3>2. CASE m \notin S
      BY <1>1, <2>2, <3>2
    <3> QED
      BY <3>1, <3>2
  <2>4. out[m] \in Seq(Message)
    BY <2>1, <2>3, PrefixFacts
  <2>5. ASSUME c[n][m] = <<>>
        PROVE  out[m] = <<>>
    <3>1. Len(c[n][m]) = 0
      BY <2>1, <2>5, EmptySeq
    <3>2. k = 0 /\ 0 \in Int /\ 1 \in Int
      BY <2>3, <3>1
    <3>3. SubSeq(c[n][m], 1, 0) = <<>>
      BY <3>2, SubSeqEmpty
    <3> QED
      BY <2>3, <3>2, <3>3
  <2> QED
    BY <2>3, <2>4, <2>5
<1> QED
  BY <1>1, <1>2

(* A process proposes no more messages than there are.                     *)
LEMMA ProposalType ==
  ASSUME TypeOK, NEW n \in Node, NEW s \in Step, Cardinality(Submitted) < MaxMsg
  PROVE  /\ <<n, Len(started[n]) + 1>> \in MsgId
         /\ Len(started[n]) \in Nat
         /\ [started EXCEPT ![n] = Append(@, s)] \in [Node -> Seq(Step)]
<1>1. \A m \in Node : started[m] \in Seq(Step) /\ DOMAIN started[m] = 1 .. Len(started[m])
                      /\ Len(started[m]) \in Nat
  BY LenProperties DEF TypeOK
<1>2. Append(started[n], s) \in Seq(Step)
  BY <1>1
<1> DEFINE Own(m) == {m} \X DOMAIN started[m]
           F == [i \in 1 .. Len(started[n]) |-> <<n, i>>]
<1>3. ASSUME NEW m \in Node
      PROVE  IsFiniteSet(Own(m))
  <2>1. IsFiniteSet(1 .. Len(started[m])) /\ IsFiniteSet({m})
    <3>1. 1 \in Int /\ Len(started[m]) \in Int
      BY <1>1
    <3> QED
      BY <3>1, FS_Interval, FS_Singleton
  <2> QED
    BY <1>1, <2>1, FS_Product
<1>4. IsFiniteSet({Own(m) : m \in Node})
  <2> DEFINE S == {Own(m) : m \in Node}
             f == [m \in Node |-> Own(m)]
  <2>1. f \in Surjection(Node, S)
    <3>1. f \in [Node -> S] /\ \A t \in S : \E m \in Node : f[m] = t
      OBVIOUS
    <3> QED
      BY <3>1, Fun_IsSurj
  <2> QED
    BY <2>1, Replob1Assumption, FS_Surjection
<1>5. IsFiniteSet(Submitted)
  <2>1. IsFiniteSet(UNION {Own(m) : m \in Node})
    BY <1>3, <1>4, FS_UNION
  <2> QED
    BY <2>1 DEF Submitted
<1>6. Own(n) \subseteq Submitted
  BY DEF Submitted
<1>7. Cardinality(Own(n)) <= Cardinality(Submitted) /\ Cardinality(Submitted) \in Nat
      /\ Cardinality(Own(n)) \in Nat
  BY <1>3, <1>5, <1>6, FS_Subset, FS_CardinalityType
<1>8. Cardinality(Own(n)) = Len(started[n])
  <2>1. Cardinality({n}) = 1 /\ Cardinality(1 .. Len(started[n])) = Len(started[n])
    <3>1. Cardinality(1 .. Len(started[n])) = Len(started[n])
      <4>1. 1 \in Int /\ Len(started[n]) \in Int
        BY <1>1
      <4>2. Cardinality(1 .. Len(started[n])) =
              IF 1 > Len(started[n]) THEN 0 ELSE Len(started[n]) - 1 + 1
        BY <4>1, FS_Interval
      <4> QED
        BY <1>1, <4>2
    <3>2. Cardinality({n}) = 1
      BY FS_Singleton
    <3> QED
      BY <3>1, <3>2
  <2>2. IsFiniteSet({n}) /\ IsFiniteSet(DOMAIN started[n])
    <3>1. 1 \in Int /\ Len(started[n]) \in Int
      BY <1>1
    <3>2. IsFiniteSet(1 .. Len(started[n]))
      BY <3>1, FS_Interval
    <3> QED
      BY <1>1, <3>2, FS_Singleton
  <2>3. Cardinality({n} \X DOMAIN started[n]) = Cardinality({n}) * Cardinality(DOMAIN started[n])
    BY <2>2, FS_Product
  <2> QED
    BY <1>1, <2>1, <2>3
<1>9. Len(started[n]) + 1 \in 1 .. MaxMsg
  BY <1>1, <1>7, <1>8, Replob1Assumption
<1> QED
  BY <1>1, <1>2, <1>9 DEF TypeOK, MsgId

-----------------------------------------------------------------------------
(* tryProcess() of n leads to the step k: the table d goes into steps, but *)
(* for the steps that were executed.                                       *)
Ran(n, d, k) ==
  /\ k \in commiting[n] .. MaxStep
  /\ \A i \in Step : commiting[n] <= i /\ i < k => d[i].state = "Completed"
  /\ commiting' = [commiting EXCEPT ![n] = k]
  /\ steps' = [steps EXCEPT ![n] = [i \in Step |-> IF i < k THEN Fresh ELSE d[i]]]
  /\ timer' \in [Node -> [Step -> BOOLEAN]]
  /\ \A m \in Node \ {n} : timer'[m] = timer[m]
  /\ \A i \in Step : timer'[n][i] => d[i].state = "Voted"
  /\ log' \in [Node -> Seq(Batch)]
  /\ \A m \in Node \ {n} : log'[m] = log[m]
  /\ Len(log'[n]) = k
  /\ SubSeq(log'[n], 1, Len(log[n])) = log[n]
  /\ \A i \in 1 .. commiting[n] : log'[n][i] = log[n][i]
  /\ \A i \in commiting[n] + 1 .. k : log'[n][i] = d[i - 1].msgs

(* Nothing is executed.                                                    *)
LEMMA NoneRan ==
  ASSUME TypeOK, Within, NEW n \in Node, Up(n), NEW d \in Table, NEW t,
         \A i \in Step : i < commiting[n] => d[i] = Fresh,
         t \in [Step -> BOOLEAN], \A i \in Step : t[i] => d[i].state = "Voted",
         steps' = [steps EXCEPT ![n] = d], timer' = [timer EXCEPT ![n] = t],
         UNCHANGED <<commiting, log>>
  PROVE  Ran(n, d, commiting[n])
<1>1. /\ commiting[n] \in 0 .. MaxStep /\ MaxStep \in Nat
      /\ log \in [Node -> Seq(Batch)] /\ log[n] \in Seq(Batch)
      /\ Len(log[n]) = commiting[n]
  BY Replob1Assumption DEF TypeOK, Within
<1>2. SubSeq(log[n], 1, Len(log[n])) = log[n]
  BY <1>1, SubSeqFull
<1>3. d = [i \in Step |-> IF i < commiting[n] THEN Fresh ELSE d[i]]
  BY DEF Table
<1>4. steps' = [steps EXCEPT ![n] = [i \in Step |-> IF i < commiting[n] THEN Fresh ELSE d[i]]]
  BY <1>3
<1>5. commiting' = [commiting EXCEPT ![n] = commiting[n]]
  BY DEF TypeOK
<1>6. /\ timer' \in [Node -> [Step -> BOOLEAN]]
      /\ \A m \in Node \ {n} : timer'[m] = timer[m]
      /\ timer'[n] = t
  BY DEF TypeOK
<1>7. /\ commiting[n] \in commiting[n] .. MaxStep
      /\ \A i \in Step : ~(commiting[n] <= i /\ i < commiting[n])
      /\ commiting[n] + 1 .. commiting[n] = {}
  BY <1>1, StepFacts
<1>8. log' = log
  OBVIOUS
<1> QED
  BY <1>1, <1>2, <1>4, <1>5, <1>6, <1>7, <1>8 DEF Ran

(* tryProcess() as a whole.                                                *)
LEMMA TryRuns ==
  ASSUME TypeOK, Within, NEW n \in Node, Up(n), NEW s \in Step, NEW d \in Table, NEW t,
         \A i \in Step : i < commiting[n] => d[i] = Fresh,
         t \in [Step -> BOOLEAN], \A i \in Step : t[i] => d[i].state = "Voted",
         TryProcess(n, s, d, t)
  PROVE  \E k \in commiting[n] .. MaxStep :
           /\ Ran(n, d, k)
           /\ s = commiting[n] => k > s /\ (k < MaxStep => d[k].state # "Completed")
           /\ s # commiting[n] => k = commiting[n]
<1>1. /\ commiting[n] \in 0 .. MaxStep /\ MaxStep \in Nat /\ s \in Nat
      /\ log \in [Node -> Seq(Batch)] /\ log[n] \in Seq(Batch)
      /\ Len(log[n]) = commiting[n]
  BY StepFacts DEF TypeOK, Within
<1>2. CASE s # commiting[n]
  <2>1. /\ steps' = [steps EXCEPT ![n] = d] /\ timer' = [timer EXCEPT ![n] = t]
        /\ UNCHANGED <<commiting, log>>
    BY <1>2 DEF TryProcess, Due
  <2>2. Ran(n, d, commiting[n])
    BY <2>1, NoneRan
  <2> QED
    BY <1>1, <1>2, <2>2
<1>3. CASE s = commiting[n]
  <2>1. PICK k \in s + 1 .. MaxStep :
          /\ ProcessesUpTo(k, s, d)
          /\ commiting' = [commiting EXCEPT ![n] = k]
          /\ log' = [log EXCEPT ![n] =
                       @ \o [i \in 1 .. k - s |-> d[s + i - 1].msgs]]
          /\ steps' = [steps EXCEPT ![n] =
                         [i \in Step |-> IF i < k THEN Fresh ELSE d[i]]]
          /\ timer' = [timer EXCEPT ![n] = [i \in Step |-> i >= k /\ t[i]]]
    BY <1>3 DEF TryProcess, Due
  <2> DEFINE b == [i \in 1 .. k - s |-> d[s + i - 1].msgs]
  <2>2. k \in Nat /\ k > s /\ k - s \in Nat /\ k <= MaxStep
    BY <1>1, <2>1
  <2>3. \A i \in 1 .. k - s : s + i - 1 \in Step
    BY <1>1, <2>2 DEF Step
  <2>4. \A i \in 1 .. k - s : d[s + i - 1].msgs \in Batch
    BY <2>3 DEF Table, StepData
  <2>5. b \in Seq(Batch) /\ Len(b) = k - s /\ \A i \in 1 .. k - s : b[i] = d[s + i - 1].msgs
    BY <2>2, <2>4
  <2>6. log'[n] = log[n] \o b /\ \A m \in Node \ {n} : log'[m] = log[m]
    BY <1>1, <2>1
  <2> HIDE DEF b
  <2>7. /\ log[n] \o b \in Seq(Batch) /\ Len(log[n] \o b) = Len(log[n]) + Len(b)
        /\ \A i \in 1 .. Len(log[n]) + Len(b) :
             (log[n] \o b)[i] = IF i <= Len(log[n]) THEN log[n][i] ELSE b[i - Len(log[n])]
    BY <1>1, <2>5, ConcatProperties
  <2>8. Len(log'[n]) = k
    BY <1>1, <1>3, <2>2, <2>5, <2>6, <2>7
  <2>9. \A i \in 1 .. commiting[n] : log'[n][i] = log[n][i]
    <3> TAKE i \in 1 .. commiting[n]
    <3>1. i \in 1 .. Len(log[n]) + Len(b) /\ i <= Len(log[n])
      BY <1>1, <1>3, <2>2, <2>5
    <3> QED
      BY <2>6, <2>7, <3>1
  <2>10. \A i \in commiting[n] + 1 .. k : log'[n][i] = d[i - 1].msgs
    <3> TAKE i \in commiting[n] + 1 .. k
    <3>1. i \in 1 .. Len(log[n]) + Len(b) /\ ~(i <= Len(log[n]))
      BY <1>1, <1>3, <2>2, <2>5
    <3>2. log'[n][i] = b[i - Len(log[n])]
      BY <2>6, <2>7, <3>1
    <3>3. i - Len(log[n]) \in 1 .. k - s /\ s + (i - Len(log[n])) - 1 = i - 1
      BY <1>1, <1>3, <2>2
    <3> QED
      BY <2>5, <3>2, <3>3
  <2>11. SubSeq(log'[n], 1, Len(log[n])) = log[n]
    BY <1>1, <2>5, <2>6
  <2>12. log' \in [Node -> Seq(Batch)]
    BY <1>1, <2>1, <2>6, <2>7 DEF b
  <2>13. \A i \in Step : commiting[n] <= i /\ i < k => d[i].state = "Completed"
    <3> SUFFICES ASSUME NEW i \in Step, commiting[n] <= i, i < k
                 PROVE  d[i].state = "Completed"
      OBVIOUS
    <3>1. i \in s .. k - 1
      BY <1>1, <1>3, <2>2, StepFacts
    <3> QED
      BY <2>1, <3>1 DEF ProcessesUpTo
  <2>14. /\ timer' \in [Node -> [Step -> BOOLEAN]]
         /\ \A m \in Node \ {n} : timer'[m] = timer[m]
         /\ \A i \in Step : timer'[n][i] => d[i].state = "Voted"
    BY <2>1 DEF TypeOK
  <2>15. k \in commiting[n] .. MaxStep
    BY <1>1, <1>3, <2>2
  <2>16. Ran(n, d, k)
    BY <2>1, <2>8, <2>9, <2>10, <2>11, <2>12, <2>13, <2>14, <2>15, <2>6 DEF Ran
  <2>17. k < MaxStep => d[k].state # "Completed"
    BY <2>1 DEF ProcessesUpTo
  <2> QED
    BY <1>3, <2>2, <2>15, <2>16, <2>17
<1> QED
  BY <1>2, <1>3

-----------------------------------------------------------------------------
(* What is known of a process that is up: it has passed the steps it has   *)
(* heard of.                                                               *)
LEMMA Numbers ==
  ASSUME TypeOK
  PROVE  /\ \A n \in Node : next[n] \in Nat /\ commiting[n] \in Nat
         /\ \A n \in Node : next[n] \in 0 .. MaxStep /\ commiting[n] \in 0 .. MaxStep
         /\ \A n \in Node : \A s \in Step : steps[n][s] \in StepData
         /\ \A m, n \in Node : chan[m][n] \in Seq(Message)
         /\ \A m, n \in Node : \A i \in DOMAIN chan[m][n] : chan[m][n][i] \in Message
<1>1. \A n \in Node : next[n] \in 0 .. MaxStep /\ commiting[n] \in 0 .. MaxStep
  BY DEF TypeOK
<1>2. \A m, n \in Node : chan[m][n] \in Seq(Message)
  BY DEF TypeOK
<1>3. ASSUME NEW m \in Node, NEW n \in Node, NEW i \in DOMAIN chan[m][n]
      PROVE  chan[m][n][i] \in Message
  <2>1. i \in 1 .. Len(chan[m][n])
    BY <1>2, <1>3, LenProperties
  <2> QED
    BY <1>2, <2>1, ElementOfSeq
<1> QED
  BY <1>1, <1>2, <1>3, StepFacts DEF TypeOK

LEMMA FreshFields ==
  /\ Fresh.state = "Initial" /\ Fresh.votes = {} /\ Fresh.msgs = {}
  /\ VotedNodesSet(Fresh) = {}
BY DEF Fresh, VotedNodesSet

LEMMA HeardPassed ==
  ASSUME TypeOK, Within, NEW m \in Node, NEW n \in Node, Up(n),
         NEW t \in Step, Heard(n, m, t)
  PROVE  t < next[n]
<1>1. /\ next[n] \in Nat /\ commiting[n] \in Nat /\ t \in Nat
      /\ commiting[n] <= next[n]
      /\ t < next[n] <=> t < commiting[n] \/ steps[n][t].state # "Initial"
      /\ steps[n][t].state = "Initial" => steps[n][t] = Fresh
  BY Numbers, StepFacts DEF Within
<1> QED
  BY <1>1, FreshFields DEF Heard, Voters

LEMMA UnpassedFresh ==
  ASSUME TypeOK, Within, NEW n \in Node, Up(n), NEW s \in Step, s >= next[n]
  PROVE  steps[n][s] = Fresh /\ s >= commiting[n]
<1>1. /\ next[n] \in Nat /\ commiting[n] \in Nat /\ s \in Nat
      /\ commiting[n] <= next[n]
      /\ s < next[n] <=> s < commiting[n] \/ steps[n][s].state # "Initial"
      /\ steps[n][s].state = "Initial" => steps[n][s] = Fresh
  BY Numbers, StepFacts DEF Within
<1> QED
  BY <1>1

LEMMA RemovedDef ==
  /\ \A p : p \in Removed <=> p \in Node /\ \E n \in Node : p \notin config[n]
BY DEF Removed

LEMMA UpConfigured ==
  ASSUME LeftBehind, NEW n \in Node, NEW p \in Node, Up(p)
  PROVE  p \in config[n]
BY RemovedDef DEF LeftBehind

(* A process that is handling something writes msg to everybody else alive.*)
Writes(n, c, msg) ==
  /\ msg \in Message
  /\ chan' \in Chans
  /\ \A p, q \in Node : chan'[p][q] =
       IF p = n /\ q # n /\ Up(q) THEN Append(c[p][q], msg) ELSE c[p][q]

LEMMA BroadcastWrites ==
  ASSUME NEW n \in Node, NEW c \in Chans, NEW msg \in Message,
         \A q \in Node : Up(q) => q \in config'[n],
         chan' = Broadcast(c, n, msg)
  PROVE  Writes(n, c, msg)
<1>1. chan' \in Chans
  BY BroadcastType
<1>2. \A p, q \in Node : chan'[p][q] =
        IF p = n /\ q # n /\ Up(q) THEN Append(c[p][q], msg) ELSE c[p][q]
  BY DEF Broadcast, Chans, Up
<1> QED
  BY <1>1, <1>2 DEF Writes

(* The record d of step s of n after a vote of m for x.                    *)
Tally(m, n, s, x, d) ==
  /\ d \in StepData /\ d.state = "Voted" /\ d.msgs = {}
  /\ d.votes = steps[n][s].votes \cup {<<x, m>>}
                 \cup (IF steps[n][s].state = "Initial" THEN {<<x, n>>} ELSE {})

(* n comes to handle step s: it proposes in it or reads of it from m, and  *)
(* c is what there is still to read then.                                  *)
Begins(m, n, s, c) ==
  \/ m = n /\ s = next[n] /\ c = chan
  \/ /\ m # n /\ Receives(m, n) /\ c = Popped(m, n)
     /\ About(Head(chan[m][n]), Ballots, s)

Answers(n, s, w, c) ==
  \/ /\ w.state = "Voted" /\ steps[n][s].state = "Initial"
     /\ \E x \in MsgId : <<x, n>> \in w.votes /\ Writes(n, c, VoteMsg(s, x))
  \/ w.state = "Voted" /\ steps[n][s].state # "Initial" /\ chan' = c
  \/ w.state = "Completed" /\ Writes(n, c, CommitMsg(s, w.msgs))

(* The handler: w is the new record of step s, k the next step to run.     *)
Handles(m, n, s, w, k, c) ==
  /\ Up(n) /\ s >= commiting[n] /\ s <= next[n] /\ steps[n][s].state # "Completed"
  /\ UNCHANGED <<mode, config>>
  /\ next' = [next EXCEPT ![n] = IF @ <= s THEN s + 1 ELSE @]
  /\ Begins(m, n, s, c)
  /\ w.state = "Voted" => /\ w.msgs = {} /\ {m, n} \subseteq VotedNodesSet(w)
                          /\ steps[n][s].votes \subseteq w.votes
  /\ w.state = "Completed" => w.votes = {}
  /\ VotedNodesSet(w) \subseteq Voters(n, s) \cup {m, n}
  /\ Answers(n, s, w, c)
  /\ Ran(n, [steps[n] EXCEPT ![s] = w], k)
  /\ w.state = "Completed" /\ s = commiting[n] =>
       k > s /\ (k \in Step => [steps[n] EXCEPT ![s] = w][k].state # "Completed")

(* The message x it votes for.                                             *)
Brings(m, n, s, x) ==
  \/ /\ m = n /\ x = <<n, Len(started[n]) + 1>>
     /\ started' = [started EXCEPT ![n] = Append(@, s)]
  \/ /\ m # n /\ x \in Head(chan[m][n]).msgs /\ Head(chan[m][n]).type = "vote"
     /\ started' = started

(* What commit() does.                                                     *)
LEMMA CommitHandles ==
  ASSUME TypeOK, Within, LeftBehind, NEW m \in Node, NEW n \in Node, NEW s \in Step,
         NEW batch \in Batch, NEW c \in Chans, Commit(n, s, batch, c),
         Begins(m, n, s, c), Up(n), HasStep(n, s), s <= next[n],
         next' = [next EXCEPT ![n] = IF @ <= s THEN s + 1 ELSE @],
         UNCHANGED <<mode, config>>
  PROVE  \E k \in 0 .. MaxStep : Handles(m, n, s, Done(batch), k, c)
<1> DEFINE w == Done(batch)
           d == [steps[n] EXCEPT ![s] = w]
           t == [timer[n] EXCEPT ![s] = FALSE]
<1>0. /\ commiting[n] \in Nat /\ commiting[n] \in 0 .. MaxStep /\ s \in Nat
      /\ s >= commiting[n] /\ steps[n][s].state # "Completed"
      /\ MaxStep \in Nat
  BY Numbers, StepFacts DEF HasStep
<1>1. /\ w \in StepData /\ w.state = "Completed" /\ w.votes = {} /\ w.msgs = batch
  BY DoneType DEF Done
<1>2. steps[n] \in Table /\ timer[n] \in [Step -> BOOLEAN]
  BY DEF TypeOK, Table
<1>3. d \in Table /\ t \in [Step -> BOOLEAN]
  BY <1>1, <1>2 DEF Table
<1>4. \A i \in Step : i < commiting[n] => d[i] = Fresh
  <2> SUFFICES ASSUME NEW i \in Step, i < commiting[n]
               PROVE  d[i] = Fresh
    OBVIOUS
  <2>1. i # s
    BY <1>0
  <2>2. steps[n][i] = Fresh
    BY DEF Within
  <2> QED
    BY <1>2, <2>1, <2>2 DEF Table
<1>5. \A i \in Step : t[i] => d[i].state = "Voted"
  BY <1>2 DEF Table, Within
<1>6. TryProcess(n, s, d, t) /\ chan' = Broadcast(c, n, CommitMsg(s, batch))
  BY DEF Commit, Done
<1>7. PICK k \in commiting[n] .. MaxStep :
        /\ Ran(n, d, k)
        /\ s = commiting[n] => k > s /\ (k < MaxStep => d[k].state # "Completed")
  <2> HIDE DEF d, t
  <2> QED
    BY <1>3, <1>4, <1>5, <1>6, TryRuns
<1>8. Writes(n, c, CommitMsg(s, w.msgs))
  <2>1. \A q \in Node : Up(q) => q \in config'[n]
    BY UpConfigured
  <2>2. CommitMsg(s, batch) \in Message
    BY MessageTypes
  <2> QED
    BY <1>1, <1>6, <2>1, <2>2, BroadcastWrites
<1>9. k \in 0 .. MaxStep /\ (k \in Step => k < MaxStep)
  BY <1>0, <1>7, StepFacts
<1>10. Answers(n, s, w, c)
  BY <1>1, <1>8 DEF Answers
<1>11. w.state = "Completed" /\ s = commiting[n] =>
         k > s /\ (k \in Step => d[k].state # "Completed")
  BY <1>7, <1>9
<1>12. VotedNodesSet(w) = {}
  BY <1>1 DEF VotedNodesSet
<1> HIDE DEF w
<1>13. Handles(m, n, s, w, k, c)
  BY <1>0, <1>1, <1>7, <1>10, <1>11, <1>12 DEF Handles
<1> QED
  BY <1>9, <1>13 DEF w

(* What vote() does.                                                       *)
LEMMA VoteHandles ==
  ASSUME TypeOK, Within, LeftBehind, NEW m \in Node, NEW n \in Node, NEW s \in Step,
         NEW x \in MsgId, NEW c \in Chans, Vote(n, s, x, m, c),
         Begins(m, n, s, c), Up(n), HasStep(n, s), s <= next[n],
         next' = [next EXCEPT ![n] = IF @ <= s THEN s + 1 ELSE @],
         UNCHANGED <<mode, config>>
  PROVE  \E d, w \in StepData : \E k \in 0 .. MaxStep :
           /\ Tally(m, n, s, x, d)
           /\ Handles(m, n, s, w, k, c)
           /\ \/ w = d /\ ~MayCommit(d, n)
              \/ w = Done(Msgs(d)) /\ MayCommit(d, n)
<1> DEFINE d == Voted(n, s, x, m)
           first == steps[n][s].state = "Initial"
<1>0. /\ commiting[n] \in Nat /\ commiting[n] \in 0 .. MaxStep /\ s \in Nat
      /\ s >= commiting[n] /\ steps[n][s].state # "Completed"
      /\ steps[n][s] \in StepData
  BY Numbers, StepFacts DEF HasStep
<1>1. /\ d \in StepData /\ d.state = "Voted" /\ d.msgs = steps[n][s].msgs
      /\ d.votes = steps[n][s].votes \cup {<<x, m>>}
                     \cup (IF first THEN {<<x, n>>} ELSE {})
  BY VotedType
<1>2. steps[n][s].msgs = {} /\ (~first => n \in Voters(n, s))
  <2>1. steps[n][s].state \in {"Initial", "Voted"}
    BY <1>0 DEF StepData
  <2> QED
    BY <2>1, FreshFields DEF Within
<1> HIDE DEF d
<1>3. Tally(m, n, s, x, d)
  BY <1>1, <1>2 DEF Tally
<1>4. {m, n} \subseteq VotedNodesSet(d) /\ VotedNodesSet(d) \subseteq Voters(n, s) \cup {m, n}
  <2>1. \A p \in Node : p \in VotedNodesSet(d) <=> \E y \in MsgId : <<y, p>> \in d.votes
    BY <1>1, NodesDef
  <2>2. \A p \in Node : p \in Voters(n, s) <=> \E y \in MsgId : <<y, p>> \in steps[n][s].votes
    BY <1>0, NodesDef DEF Voters
  <2>3. m \in VotedNodesSet(d)
    BY <1>1, <2>1
  <2>4. n \in VotedNodesSet(d)
    <3>1. CASE first
      BY <1>1, <2>1, <3>1
    <3>2. CASE ~first
      BY <1>1, <1>2, <2>1, <2>2, <3>2
    <3> QED
      BY <3>1, <3>2
  <2>5. ASSUME NEW p \in VotedNodesSet(d)
        PROVE  p \in Voters(n, s) \cup {m, n}
    <3>1. p \in Node /\ \E y \in MsgId : <<y, p>> \in d.votes
      BY <1>1, NodesDef
    <3> QED
      BY <1>1, <2>2, <3>1
  <2> QED
    BY <2>3, <2>4, <2>5
<1>5. CASE MayCommit(d, n) /\ Commit(n, s, Msgs(d), c)
  <2>1. Msgs(d) \in Batch
    BY <1>1, MsgsDef
  <2>2. PICK k \in 0 .. MaxStep : Handles(m, n, s, Done(Msgs(d)), k, c)
    BY <1>5, <2>1, CommitHandles
  <2>3. Done(Msgs(d)) \in StepData
    BY <2>1, DoneType
  <2> QED
    BY <1>1, <1>3, <1>5, <2>2, <2>3
<1>6. CASE /\ ~MayCommit(d, n)
           /\ steps' = [steps EXCEPT ![n][s] = d]
           /\ timer' = [timer EXCEPT ![n][s] = @ \/ first]
           /\ chan' = IF first THEN Broadcast(c, n, VoteMsg(s, x)) ELSE c
           /\ UNCHANGED <<commiting, log>>
  <2> DEFINE tbl == [steps[n] EXCEPT ![s] = d]
             t == [timer[n] EXCEPT ![s] = timer[n][s] \/ first]
  <2>1. steps[n] \in Table /\ timer[n] \in [Step -> BOOLEAN] /\ first \in BOOLEAN
        /\ timer[n][s] \in BOOLEAN
    BY DEF TypeOK, Table
  <2>2. tbl \in Table /\ t \in [Step -> BOOLEAN]
    BY <1>1, <2>1 DEF Table
  <2>3. steps' = [steps EXCEPT ![n] = tbl] /\ timer' = [timer EXCEPT ![n] = t]
    BY <1>6 DEF TypeOK
  <2>4. \A i \in Step : i < commiting[n] => tbl[i] = Fresh
    <3> SUFFICES ASSUME NEW i \in Step, i < commiting[n]
                 PROVE  tbl[i] = Fresh
      OBVIOUS
    <3>1. i # s
      BY <1>0
    <3>2. steps[n][i] = Fresh
      BY DEF Within
    <3> QED
      BY <2>1, <3>1, <3>2 DEF Table
  <2>5. \A i \in Step : t[i] => tbl[i].state = "Voted"
    BY <1>1, <2>1 DEF Table, Within
  <2>6. Ran(n, tbl, commiting[n])
    <3> HIDE DEF tbl, t
    <3> QED
      BY <1>6, <2>2, <2>3, <2>4, <2>5, NoneRan
  <2>7. Answers(n, s, d, c)
    <3>1. CASE first
      <4>1. \A q \in Node : Up(q) => q \in config'[n]
        BY UpConfigured
      <4>2. VoteMsg(s, x) \in Message
        BY MessageTypes
      <4>3. Writes(n, c, VoteMsg(s, x))
        BY <1>6, <3>1, <4>1, <4>2, BroadcastWrites
      <4>4. <<x, n>> \in d.votes
        BY <1>1, <3>1
      <4> QED
        BY <1>1, <3>1, <4>3, <4>4 DEF Answers
    <3>2. CASE ~first
      BY <1>1, <1>6, <3>2 DEF Answers
    <3> QED
      BY <3>1, <3>2
  <2>8. steps[n][s].votes \subseteq d.votes /\ d.msgs = {} /\ d.state # "Completed"
    BY <1>1, <1>2
  <2>9. Handles(m, n, s, d, commiting[n], c)
    BY <1>0, <1>1, <1>4, <2>6, <2>7, <2>8 DEF Handles
  <2> QED
    BY <1>0, <1>1, <1>3, <1>6, <2>9
<1> QED
  BY <1>5, <1>6 DEF Vote, d

(* The record is decided when there are votes enough, or as m decided it.  *)
Chooses(m, n, s, x, d, w) ==
  /\ Brings(m, n, s, x) /\ Tally(m, n, s, x, d)
  /\ \/ w = d /\ ~MayCommit(d, n)
     \/ w = Done(Msgs(d)) /\ MayCommit(d, n)

Follows(m, n, w) ==
  /\ m # n /\ started' = started
  /\ Head(chan[m][n]).type = "commit" /\ w = Done(Head(chan[m][n]).msgs)

Handling(m, n, s, w, k, c) ==
  /\ Handles(m, n, s, w, k, c)
  /\ \/ \E x \in MsgId : \E d \in StepData : Chooses(m, n, s, x, d, w)
     \/ Follows(m, n, w)

(* What apply() does.                                                      *)
LEMMA ApplyHandles ==
  ASSUME TypeOK, Within, LeftBehind, NEW n \in Node, Apply(n)
  PROVE  \E s \in Step : \E w \in StepData : \E k \in 0 .. MaxStep : \E c \in Chans :
           Handling(n, n, s, w, k, c)
<1> DEFINE s == next[n]
           x == <<n, Len(started[n]) + 1>>
<1>1. /\ Up(n) /\ s < MaxStep
      /\ Cardinality(Submitted) < MaxMsg
      /\ next' = [next EXCEPT ![n] = s + 1]
      /\ started' = [started EXCEPT ![n] = Append(@, s)]
      /\ UNCHANGED <<mode, config>>
      /\ Vote(n, s, x, n, chan)
  BY DEF Apply, NextStepId, Up
<1>2. s \in Step /\ s \in Nat
  BY <1>1, Numbers, StepFacts
<1>3. x \in MsgId
  BY <1>1, <1>2, ProposalType
<1>4. chan \in Chans
  BY DEF TypeOK, Chans
<1>5. next' = [next EXCEPT ![n] = IF @ <= s THEN s + 1 ELSE @]
  <2>1. (IF next[n] <= s THEN s + 1 ELSE next[n]) = s + 1
    BY <1>2
  <2> QED
    BY <1>1, <2>1
<1>6. HasStep(n, s) /\ s <= next[n]
  <2>1. steps[n][s] = Fresh /\ s >= commiting[n]
    BY <1>1, <1>2, UnpassedFresh
  <2> QED
    BY <1>2, <2>1, FreshFields DEF HasStep
<1>7. Begins(n, n, s, chan) /\ Brings(n, n, s, x)
  BY <1>1 DEF Begins, Brings
<1> HIDE DEF s, x
<1>8. PICK d \in StepData, w \in StepData, k \in 0 .. MaxStep :
           /\ Tally(n, n, s, x, d)
           /\ Handles(n, n, s, w, k, chan)
           /\ \/ w = d /\ ~MayCommit(d, n)
              \/ w = Done(Msgs(d)) /\ MayCommit(d, n)
  BY <1>1, <1>2, <1>3, <1>4, <1>5, <1>6, <1>7, VoteHandles
<1>9. Chooses(n, n, s, x, d, w)
  BY <1>7, <1>8 DEF Chooses
<1>10. Handling(n, n, s, w, k, chan)
  BY <1>3, <1>8, <1>9 DEF Handling
<1> QED
  BY <1>2, <1>4, <1>8, <1>10

(* Nobody is ahead of the one that reads its message.                      *)
LEMMA ReadsInTurn ==
  ASSUME TypeOK, Within, Stopped, Told, NEW m \in Node, NEW n \in Node, Receives(m, n),
         NEW s \in Step, About(Head(chan[m][n]), Ballots, s)
  PROVE  /\ m # n /\ Up(n) /\ s <= next[n]
         /\ \A t \in Step : t < s => Heard(n, m, t)
<1>1. Up(n) /\ chan[m][n] # <<>>
  BY DEF Receives, Up
<1>2. m # n
  BY <1>1 DEF Stopped
<1>3. \A t \in Step : t < s => Heard(n, m, t)
  <2>1. InSequence(chan[m][n], Ballots, {t \in Step : Heard(n, m, t)})
    BY <1>1, <1>2 DEF Told
  <2>2. chan[m][n] \in Seq(Message)
    BY Numbers
  <2> DEFINE H == {t \in Step : Heard(n, m, t)}
  <2>3. \A t \in Step : t < s => t \in H
    <3> HIDE DEF H
    <3>1. InSequence(chan[m][n], Ballots, H)
      BY <2>1 DEF H
    <3> QED
      BY <1>1, <2>2, <3>1, StreamTail
  <2> QED
    BY <2>3
<1>4. s <= next[n]
  <2> SUFFICES ASSUME ~(s <= next[n])
               PROVE  FALSE
    OBVIOUS
  <2>1. next[n] \in Nat /\ next[n] \in 0 .. MaxStep /\ s \in Nat /\ s < MaxStep
    BY Numbers, StepFacts
  <2>2. next[n] \in Step /\ next[n] < s
    BY <2>1, StepFacts
  <2>3. next[n] < next[n]
    BY <1>1, <1>3, <2>2, HeardPassed
  <2> QED
    BY <2>1, <2>3
<1> QED
  BY <1>1, <1>2, <1>3, <1>4

(* What onMessage() does with votes and commits.                           *)
LEMMA RecvHandles ==
  ASSUME TypeOK, Within, Stopped, Told, LeftBehind,
         NEW m \in Node, NEW n \in Node, Recv(m, n)
  PROVE  \E s \in Step : \E w \in StepData : \E k \in 0 .. MaxStep : \E c \in Chans :
           Handling(m, n, s, w, k, c)
<1> DEFINE msg == Head(chan[m][n])
           s == msg.step
           c == Popped(m, n)
<1>1. /\ Receives(m, n)
      /\ msg.type \in {"vote", "commit"}
      /\ HasStep(n, s)
      /\ next' = [next EXCEPT ![n] = IF @ <= s THEN s + 1 ELSE @]
      /\ UNCHANGED <<mode, config, started>>
      /\ IF msg.type = "vote"
           THEN \E x \in msg.msgs : Vote(n, s, x, m, c)
           ELSE Commit(n, s, msg.msgs, c)
  BY DEF Recv, UpdateCurrentStepId
<1>2. msg \in Message /\ c \in Chans
  BY <1>1, PoppedType
<1>3. s \in Step /\ msg.msgs \in Batch
  BY <1>1, <1>2, MessageFields
<1>4. About(msg, Ballots, s)
  BY <1>1 DEF About, Ballots
<1>5. m # n /\ Up(n) /\ s <= next[n]
  BY <1>1, <1>3, <1>4, ReadsInTurn
<1>6. Begins(m, n, s, c)
  BY <1>1, <1>4, <1>5 DEF Begins
<1>7. CASE msg.type = "vote"
  <2>1. PICK x \in msg.msgs : Vote(n, s, x, m, c)
    BY <1>1, <1>7
  <2>2. x \in MsgId
    BY <1>3 DEF Batch
  <2>3. Brings(m, n, s, x)
    BY <1>1, <1>5, <1>7 DEF Brings
  <2> HIDE DEF msg, s, c
  <2>4. PICK d \in StepData, w \in StepData, k \in 0 .. MaxStep :
           /\ Tally(m, n, s, x, d)
           /\ Handles(m, n, s, w, k, c)
           /\ \/ w = d /\ ~MayCommit(d, n)
              \/ w = Done(Msgs(d)) /\ MayCommit(d, n)
    BY <1>1, <1>2, <1>3, <1>5, <1>6, <2>1, <2>2, VoteHandles
  <2>5. Chooses(m, n, s, x, d, w)
    BY <2>3, <2>4 DEF Chooses
  <2>6. Handling(m, n, s, w, k, c)
    BY <2>2, <2>4, <2>5 DEF Handling
  <2> QED
    BY <1>2, <1>3, <2>4, <2>6
<1>8. CASE msg.type = "commit"
  <2>1. Commit(n, s, msg.msgs, c)
    BY <1>1, <1>8
  <2>2. Follows(m, n, Done(msg.msgs))
    BY <1>1, <1>5, <1>8 DEF Follows
  <2>3. Done(msg.msgs) \in StepData
    BY <1>3, DoneType
  <2> DEFINE batch == msg.msgs
  <2>4. batch \in Batch /\ Commit(n, s, batch, c) /\ Follows(m, n, Done(batch))
        /\ Done(batch) \in StepData
    BY <1>3, <2>1, <2>2, <2>3
  <2> HIDE DEF batch, msg, s, c
  <2>5. PICK k \in 0 .. MaxStep : Handles(m, n, s, Done(batch), k, c)
    BY <1>1, <1>2, <1>3, <1>5, <1>6, <2>4, CommitHandles
  <2>6. Handling(m, n, s, Done(batch), k, c)
    BY <2>4, <2>5 DEF Handling
  <2> QED
    BY <1>2, <1>3, <2>4, <2>5, <2>6
<1> QED
  BY <1>1, <1>7, <1>8

-----------------------------------------------------------------------------
(* What a handler leaves behind, part by part.                             *)
LEMMA HandledFacts ==
  ASSUME TypeOK, Within, NEW m \in Node, NEW n \in Node, NEW s \in Step,
         NEW w \in StepData, NEW k \in 0 .. MaxStep, NEW c \in Chans,
         Handles(m, n, s, w, k, c)
  PROVE  /\ \A p \in Node : p # n => /\ steps'[p] = steps[p] /\ commiting'[p] = commiting[p]
                                     /\ next'[p] = next[p] /\ log'[p] = log[p]
                                     /\ timer'[p] = timer[p]
         /\ \A p \in Node : Up(p)' <=> Up(p)
         /\ commiting'[n] = k /\ commiting[n] <= k /\ k \in Nat /\ commiting[n] \in Nat
         /\ s \in Nat /\ next[n] \in Nat /\ next'[n] \in Nat
         /\ s < next'[n] /\ next[n] <= next'[n] /\ next'[n] \in 0 .. MaxStep
         /\ \A t \in Step : t < next'[n] <=> t < next[n] \/ t = s
         /\ \A t \in Step : t < k => steps'[n][t] = Fresh
         /\ \A t \in Step : t >= k /\ t # s => steps'[n][t] = steps[n][t]
         /\ s >= k => steps'[n][s] = w
         /\ w.state \in {"Voted", "Completed"}
         /\ \A t \in Step : commiting[n] <= t /\ t < k =>
              IF t = s THEN w.state = "Completed" ELSE steps[n][t].state = "Completed"
<1>1. /\ Up(n) /\ s >= commiting[n] /\ s <= next[n]
      /\ UNCHANGED mode
      /\ next' = [next EXCEPT ![n] = IF @ <= s THEN s + 1 ELSE @]
      /\ Ran(n, [steps[n] EXCEPT ![s] = w], k)
      /\ w.state \in {"Voted", "Completed"}
  BY DEF Handles, Answers
<1> DEFINE d == [steps[n] EXCEPT ![s] = w]
<1>2. /\ k \in commiting[n] .. MaxStep
      /\ \A i \in Step : commiting[n] <= i /\ i < k => d[i].state = "Completed"
      /\ commiting' = [commiting EXCEPT ![n] = k]
      /\ steps' = [steps EXCEPT ![n] = [i \in Step |-> IF i < k THEN Fresh ELSE d[i]]]
      /\ \A p \in Node \ {n} : timer'[p] = timer[p]
      /\ \A p \in Node \ {n} : log'[p] = log[p]
  BY <1>1 DEF Ran
<1>3. /\ d[s] = w /\ \A t \in Step : t # s => d[t] = steps[n][t]
  BY DEF TypeOK
<1>4. /\ commiting[n] \in Nat /\ next[n] \in Nat /\ s \in Nat /\ k \in Nat
      /\ next[n] \in 0 .. MaxStep /\ s + 1 \in 0 .. MaxStep
      /\ \A t \in Step : t \in Nat
  BY Numbers, StepFacts
<1> HIDE DEF d
<1>5. /\ next'[n] = IF next[n] <= s THEN s + 1 ELSE next[n]
      /\ \A p \in Node : p # n => next'[p] = next[p]
  BY <1>1 DEF TypeOK
<1>6. /\ next'[n] \in Nat /\ next'[n] \in 0 .. MaxStep /\ s < next'[n] /\ next[n] <= next'[n]
      /\ \A t \in Step : t < next'[n] <=> t < next[n] \/ t = s
  BY <1>1, <1>4, <1>5
<1>7. /\ commiting'[n] = k /\ commiting[n] <= k
      /\ \A p \in Node : p # n => commiting'[p] = commiting[p] /\ steps'[p] = steps[p]
      /\ \A t \in Step : steps'[n][t] = IF t < k THEN Fresh ELSE d[t]
  BY <1>2, <1>4 DEF TypeOK
<1>8. \A p \in Node : Up(p)' <=> Up(p)
  BY <1>1 DEF Up
<1>9. /\ \A t \in Step : t < k => steps'[n][t] = Fresh
      /\ \A t \in Step : t >= k /\ t # s => steps'[n][t] = steps[n][t]
      /\ s >= k => steps'[n][s] = w
  BY <1>3, <1>4, <1>7
<1>10. \A t \in Step : commiting[n] <= t /\ t < k =>
         IF t = s THEN w.state = "Completed" ELSE steps[n][t].state = "Completed"
  BY <1>2, <1>3
<1> QED
  BY <1>1, <1>2, <1>4, <1>5, <1>6, <1>7, <1>8, <1>9, <1>10

(* What it has executed.                                                   *)
LEMMA HandledLog ==
  ASSUME TypeOK, Within, NEW m \in Node, NEW n \in Node, NEW s \in Step,
         NEW w \in StepData, NEW k \in 0 .. MaxStep, NEW c \in Chans,
         Handles(m, n, s, w, k, c)
  PROVE  /\ Len(log'[n]) = k /\ Len(log[n]) = commiting[n]
         /\ DOMAIN log'[n] = 1 .. k /\ DOMAIN log[n] = 1 .. commiting[n]
         /\ log' \in [Node -> Seq(Batch)]
         /\ SubSeq(log'[n], 1, Len(log[n])) = log[n]
         /\ \A i \in 1 .. commiting[n] : log'[n][i] = log[n][i]
         /\ \A i \in commiting[n] + 1 .. k :
              /\ i - 1 \in Step /\ commiting[n] <= i - 1 /\ i - 1 < k
              /\ IF i - 1 = s THEN w.state = "Completed" /\ log'[n][i] = w.msgs
                 ELSE steps[n][i - 1].state = "Completed" /\ log'[n][i] = steps[n][i - 1].msgs
<1>1. Ran(n, [steps[n] EXCEPT ![s] = w], k) /\ Up(n)
  BY DEF Handles
<1> DEFINE d == [steps[n] EXCEPT ![s] = w]
<1>2. /\ k \in commiting[n] .. MaxStep
      /\ \A i \in Step : commiting[n] <= i /\ i < k => d[i].state = "Completed"
      /\ log' \in [Node -> Seq(Batch)]
      /\ Len(log'[n]) = k
      /\ SubSeq(log'[n], 1, Len(log[n])) = log[n]
      /\ \A i \in 1 .. commiting[n] : log'[n][i] = log[n][i]
      /\ \A i \in commiting[n] + 1 .. k : log'[n][i] = d[i - 1].msgs
  BY <1>1 DEF Ran
<1>3. /\ d[s] = w /\ \A t \in Step : t # s => d[t] = steps[n][t]
  BY DEF TypeOK
<1>4. /\ commiting[n] \in Nat /\ k \in Nat /\ MaxStep \in Nat
      /\ Len(log[n]) = commiting[n]
      /\ log[n] \in Seq(Batch) /\ log'[n] \in Seq(Batch)
  BY <1>1, <1>2, Numbers, StepFacts DEF Within, TypeOK
<1>5. DOMAIN log'[n] = 1 .. k /\ DOMAIN log[n] = 1 .. commiting[n]
  BY <1>2, <1>4, LenProperties
<1> HIDE DEF d
<1>6. ASSUME NEW i \in commiting[n] + 1 .. k
      PROVE  /\ i - 1 \in Step /\ commiting[n] <= i - 1 /\ i - 1 < k
             /\ IF i - 1 = s THEN w.state = "Completed" /\ log'[n][i] = w.msgs
                ELSE steps[n][i - 1].state = "Completed" /\ log'[n][i] = steps[n][i - 1].msgs
  <2>1. i - 1 \in Step /\ commiting[n] <= i - 1 /\ i - 1 < k
    BY <1>2, <1>4 DEF Step
  <2>2. d[i - 1].state = "Completed" /\ log'[n][i] = d[i - 1].msgs
    BY <1>2, <2>1
  <2> QED
    BY <1>3, <2>1, <2>2
<1> QED
  BY <1>2, <1>4, <1>5, <1>6

(* A process that is up has one record per step, in its right state.       *)
LEMMA HandledWithin ==
  ASSUME TypeOK, Within, NEW m \in Node, NEW n \in Node, NEW s \in Step,
         NEW w \in StepData, NEW k \in 0 .. MaxStep, NEW c \in Chans,
         Handles(m, n, s, w, k, c)
  PROVE  Within'
<1> SUFFICES ASSUME NEW p \in Node, Up(p)'
             PROVE  /\ Len(log'[p]) = commiting'[p] /\ commiting'[p] <= next'[p]
                    /\ \A t \in Step :
                         /\ t < commiting'[p] => steps'[p][t] = Fresh
                         /\ t < next'[p] <=> t < commiting'[p] \/ steps'[p][t].state # "Initial"
                         /\ steps'[p][t].state = "Initial" => steps'[p][t] = Fresh
                         /\ steps'[p][t].state = "Voted" <=> p \in VotedNodesSet(steps'[p][t])
                         /\ steps'[p][t].state = "Voted" => steps'[p][t].msgs = {}
                         /\ steps'[p][t].state = "Completed" => steps'[p][t].votes = {}
                         /\ timer'[p][t] => steps'[p][t].state = "Voted"
  BY DEF Within, Voters
<1>0. /\ \A q \in Node : q # n => /\ steps'[q] = steps[q] /\ commiting'[q] = commiting[q]
                                  /\ next'[q] = next[q] /\ log'[q] = log[q]
                                  /\ timer'[q] = timer[q]
      /\ \A q \in Node : Up(q)' <=> Up(q)
      /\ commiting'[n] = k /\ commiting[n] <= k /\ k \in Nat /\ commiting[n] \in Nat
      /\ s \in Nat /\ next[n] \in Nat /\ next'[n] \in Nat
      /\ s < next'[n] /\ next[n] <= next'[n]
      /\ \A t \in Step : t < next'[n] <=> t < next[n] \/ t = s
      /\ \A t \in Step : t < k => steps'[n][t] = Fresh
      /\ \A t \in Step : t >= k /\ t # s => steps'[n][t] = steps[n][t]
      /\ s >= k => steps'[n][s] = w
      /\ w.state \in {"Voted", "Completed"}
      /\ \A t \in Step : commiting[n] <= t /\ t < k =>
           IF t = s THEN w.state = "Completed" ELSE steps[n][t].state = "Completed"
  BY HandledFacts
<1>1. CASE p # n
  BY <1>0, <1>1 DEF Within, Voters
<1>2. CASE p = n
  <2>1. /\ Up(n) /\ s >= commiting[n]
        /\ w.state = "Voted" => w.msgs = {} /\ {m, n} \subseteq VotedNodesSet(w)
        /\ w.state = "Completed" => w.votes = {}
        /\ \A i \in Step : timer'[n][i] => [steps[n] EXCEPT ![s] = w][i].state = "Voted"
    BY DEF Handles, Ran
  <2>2. /\ commiting[n] <= next[n]
        /\ \A t \in Step :
             /\ t < commiting[n] => steps[n][t] = Fresh
             /\ t < next[n] <=> t < commiting[n] \/ steps[n][t].state # "Initial"
             /\ steps[n][t].state = "Initial" => steps[n][t] = Fresh
             /\ steps[n][t].state = "Voted" <=> n \in VotedNodesSet(steps[n][t])
             /\ steps[n][t].state = "Voted" => steps[n][t].msgs = {}
             /\ steps[n][t].state = "Completed" => steps[n][t].votes = {}
    BY <2>1 DEF Within, Voters
  <2>3. Len(log'[n]) = k
    BY HandledLog
  <2>4. k <= next'[n]
    <3>1. CASE k = commiting[n]
      BY <1>0, <2>2, <3>1
    <3>2. CASE k # commiting[n]
      <4>1. k - 1 \in Step /\ commiting[n] <= k - 1 /\ k - 1 < k /\ k - 1 \in Nat
        BY <1>0, <3>2, StepFacts DEF Step
      <4>2. k - 1 = s \/ steps[n][k - 1].state = "Completed"
        BY <1>0, <4>1
      <4>3. k - 1 < next'[n]
        BY <1>0, <2>2, <4>1, <4>2
      <4> QED
        BY <1>0, <4>1, <4>3
    <3> QED
      BY <3>1, <3>2
  <2>5. ASSUME NEW t \in Step
        PROVE  /\ t < k => steps'[n][t] = Fresh
               /\ t < next'[n] <=> t < k \/ steps'[n][t].state # "Initial"
               /\ steps'[n][t].state = "Initial" => steps'[n][t] = Fresh
               /\ steps'[n][t].state = "Voted" <=> n \in VotedNodesSet(steps'[n][t])
               /\ steps'[n][t].state = "Voted" => steps'[n][t].msgs = {}
               /\ steps'[n][t].state = "Completed" => steps'[n][t].votes = {}
    <3>0. t \in Nat
      BY StepFacts
    <3>1. CASE t < k
      BY <1>0, <2>4, <3>0, <3>1, FreshFields
    <3>2. CASE ~(t < k) /\ t # s
      BY <1>0, <2>2, <3>0, <3>2
    <3>3. CASE ~(t < k) /\ t = s
      <4>1. steps'[n][t] = w
        BY <1>0, <3>0, <3>3
      <4>2. w.state = "Completed" => VotedNodesSet(w) = {}
        BY <2>1 DEF VotedNodesSet
      <4> QED
        BY <1>0, <2>1, <3>0, <3>3, <4>1, <4>2
    <3> QED
      BY <3>1, <3>2, <3>3
  <2>6. ASSUME NEW t \in Step, timer'[n][t]
        PROVE  steps'[n][t].state = "Voted"
    <3>0. t \in Nat
      BY StepFacts
    <3>1. IF t = s THEN w.state = "Voted" ELSE steps[n][t].state = "Voted"
      BY <2>1, <2>6 DEF TypeOK
    <3>2. t >= commiting[n]
      BY <1>0, <2>1, <2>2, <3>0, <3>1, FreshFields
    <3>3. t >= k
      BY <1>0, <3>0, <3>1, <3>2
    <3> QED
      BY <1>0, <3>0, <3>1, <3>3
  <2> QED
    BY <1>0, <1>2, <2>3, <2>4, <2>5, <2>6
<1> QED
  BY <1>1, <1>2

(* The message that a handler sends, if any.                               *)
Answer(n, s, w, msg) ==
  /\ msg \in Message /\ About(msg, Ballots, s)
  /\ \/ /\ w.state = "Voted" /\ steps[n][s].state = "Initial"
        /\ \E x \in MsgId : <<x, n>> \in w.votes /\ msg = VoteMsg(s, x)
     \/ w.state = "Completed" /\ msg = CommitMsg(s, w.msgs)

(* The streams: one message is read, none or one is written.               *)
LEMMA HandledStreams ==
  ASSUME TypeOK, Stopped, NEW m \in Node, NEW n \in Node, NEW s \in Step,
         NEW w \in StepData, NEW k \in 0 .. MaxStep, NEW c \in Chans,
         Handles(m, n, s, w, k, c)
  PROVE  /\ chan' \in Chans
         /\ m # n => /\ chan[m][n] # <<>> /\ chan'[m][n] = Tail(chan[m][n])
                     /\ About(Head(chan[m][n]), Ballots, s)
         /\ m = n => s = next[n]
         /\ \A p, q \in Node : (p # n \/ q = n \/ ~Up(q)) /\ (m = n \/ p # m \/ q # n)
              => chan'[p][q] = chan[p][q]
         /\ \/ /\ w.state = "Voted" /\ steps[n][s].state # "Initial"
               /\ \A q \in Node : q # n => chan'[n][q] = chan[n][q]
            \/ \E msg : /\ Answer(n, s, w, msg)
                        /\ \A q \in Node : q # n /\ Up(q) =>
                             chan'[n][q] = Append(chan[n][q], msg)
<1>1. Up(n) /\ Begins(m, n, s, c) /\ Answers(n, s, w, c)
  BY DEF Handles
<1>2. /\ \A p, q \in Node : m = n \/ p # m \/ q # n => c[p][q] = chan[p][q]
      /\ m # n => /\ c[m][n] = Tail(chan[m][n]) /\ chan[m][n] # <<>>
                  /\ About(Head(chan[m][n]), Ballots, s)
      /\ m = n => s = next[n]
  <2>1. CASE m = n
    BY <1>1, <2>1 DEF Begins
  <2>2. CASE m # n
    <3>1. Receives(m, n) /\ c = Popped(m, n) /\ About(Head(chan[m][n]), Ballots, s)
      BY <1>1, <2>2 DEF Begins
    <3>2. /\ chan[m][n] # <<>>
          /\ \A p, q \in Node : Popped(m, n)[p][q] =
               IF p = m /\ q = n THEN Tail(chan[p][q]) ELSE chan[p][q]
      BY <3>1, PoppedType
    <3> QED
      BY <2>2, <3>1, <3>2
  <2> QED
    BY <2>1, <2>2
<1>3. CASE w.state = "Voted" /\ steps[n][s].state # "Initial" /\ chan' = c
  BY <1>2, <1>3
<1>4. ASSUME NEW msg, Writes(n, c, msg), Answer(n, s, w, msg)
      PROVE  /\ chan' \in Chans
             /\ m # n => chan'[m][n] = Tail(chan[m][n])
             /\ \A p, q \in Node : (p # n \/ q = n \/ ~Up(q)) /\ (m = n \/ p # m \/ q # n)
                  => chan'[p][q] = chan[p][q]
             /\ \A q \in Node : q # n /\ Up(q) => chan'[n][q] = Append(chan[n][q], msg)
  <2>1. /\ chan' \in Chans
        /\ \A p, q \in Node : chan'[p][q] =
             IF p = n /\ q # n /\ Up(q) THEN Append(c[p][q], msg) ELSE c[p][q]
    BY <1>4 DEF Writes
  <2>2. m # n => chan'[m][n] = Tail(chan[m][n])
    BY <1>2, <2>1
  <2>3. \A p, q \in Node : (p # n \/ q = n \/ ~Up(q)) /\ (m = n \/ p # m \/ q # n)
                  => chan'[p][q] = chan[p][q]
    BY <1>2, <2>1
  <2>4. \A q \in Node : q # n /\ Up(q) => chan'[n][q] = Append(chan[n][q], msg)
    BY <1>2, <2>1
  <2> QED
    BY <2>1, <2>2, <2>3, <2>4
<1>5. CASE /\ w.state = "Voted" /\ steps[n][s].state = "Initial"
           /\ \E x \in MsgId : <<x, n>> \in w.votes /\ Writes(n, c, VoteMsg(s, x))
  <2>1. PICK x \in MsgId : <<x, n>> \in w.votes /\ Writes(n, c, VoteMsg(s, x))
    BY <1>5
  <2>2. VoteMsg(s, x) \in Message /\ About(VoteMsg(s, x), Ballots, s)
    BY MessageTypes DEF About, Ballots, VoteMsg
  <2>3. Answer(n, s, w, VoteMsg(s, x))
    BY <1>5, <2>1, <2>2 DEF Answer
  <2> DEFINE msg == VoteMsg(s, x)
  <2>4. Answer(n, s, w, msg) /\ Writes(n, c, msg)
    BY <2>1, <2>3
  <2> HIDE DEF msg
  <2> QED
    BY <1>2, <1>4, <2>4
<1>6. CASE w.state = "Completed" /\ Writes(n, c, CommitMsg(s, w.msgs))
  <2>1. w.msgs \in Batch
    BY DEF StepData
  <2>2. CommitMsg(s, w.msgs) \in Message /\ About(CommitMsg(s, w.msgs), Ballots, s)
    BY <2>1, MessageTypes DEF About, Ballots, CommitMsg
  <2>3. Answer(n, s, w, CommitMsg(s, w.msgs))
    BY <1>6, <2>2 DEF Answer
  <2> DEFINE msg == CommitMsg(s, w.msgs)
  <2>4. Answer(n, s, w, msg) /\ Writes(n, c, msg)
    BY <1>6, <2>3
  <2> HIDE DEF msg
  <2> QED
    BY <1>2, <1>4, <2>4
<1> QED
  BY <1>1, <1>3, <1>5, <1>6 DEF Answers

LEMMA HandledStopped ==
  ASSUME TypeOK, Within, Stopped, NEW m \in Node, NEW n \in Node, NEW s \in Step,
         NEW w \in StepData, NEW k \in 0 .. MaxStep, NEW c \in Chans,
         Handles(m, n, s, w, k, c)
  PROVE  Stopped'
<1>1. Up(n) /\ (\A p \in Node : Up(p)' <=> Up(p))
      /\ (\A p \in Node : p # n => steps'[p] = steps[p])
  <2>1. Up(n)
    BY DEF Handles
  <2> QED
    BY <2>1, HandledFacts
<1>2. \A p, q \in Node : (p # n \/ q = n \/ ~Up(q)) /\ (m = n \/ p # m \/ q # n)
        => chan'[p][q] = chan[p][q]
  BY HandledStreams
<1>3. \A p \in Node : ~Up(p)' => steps'[p] = [t \in Step |-> Fresh]
  BY <1>1 DEF Stopped
<1>4. \A p, q \in Node : ~Up(q)' \/ p = q => chan'[p][q] = <<>>
  BY <1>1, <1>2 DEF Stopped
<1> QED
  BY <1>3, <1>4 DEF Stopped

(* Nobody forgets a vote; the handler's own and that of the sender are     *)
(* counted.                                                                *)
LEMMA HeardStays ==
  ASSUME TypeOK, Within, NEW m \in Node, NEW n \in Node, NEW s \in Step,
         NEW w \in StepData, NEW k \in 0 .. MaxStep, NEW c \in Chans,
         Handles(m, n, s, w, k, c)
  PROVE  /\ \A p, q \in Node : \A t \in Step : Heard(q, p, t) => Heard(q, p, t)'
         /\ Heard(n, m, s)' /\ Heard(n, n, s)'
<1>0. /\ \A q \in Node : q # n => steps'[q] = steps[q] /\ commiting'[q] = commiting[q]
      /\ commiting'[n] = k /\ commiting[n] <= k /\ k \in Nat /\ commiting[n] \in Nat
      /\ s \in Nat
      /\ \A t \in Step : t >= k /\ t # s => steps'[n][t] = steps[n][t]
      /\ s >= k => steps'[n][s] = w
      /\ w.state \in {"Voted", "Completed"}
  BY HandledFacts
<1>1. /\ w.state = "Voted" => /\ {m, n} \subseteq VotedNodesSet(w)
                              /\ steps[n][s].votes \subseteq w.votes
      /\ s >= commiting[n] /\ steps[n][s].state # "Completed"
  BY DEF Handles
<1>2. ASSUME NEW p \in Node, p \in {m, n} \/ p \in Voters(n, s)
      PROVE  Heard(n, p, s)'
  <2>1. CASE s < k
    BY <1>0, <2>1 DEF Heard
  <2>2. CASE ~(s < k) /\ w.state = "Completed"
    BY <1>0, <2>2 DEF Heard
  <2>3. CASE ~(s < k) /\ w.state = "Voted"
    <3>1. steps'[n][s] = w
      BY <1>0, <2>3
    <3>2. p \in VotedNodesSet(w)
      BY <1>1, <1>2, <2>3 DEF Voters, VotedNodesSet
    <3> QED
      BY <3>1, <3>2 DEF Heard, Voters
  <2> QED
    BY <1>0, <2>1, <2>2, <2>3
<1>3. ASSUME NEW p \in Node, NEW q \in Node, NEW t \in Step, Heard(q, p, t)
      PROVE  Heard(q, p, t)'
  <2>1. CASE q # n
    BY <1>0, <1>3, <2>1 DEF Heard, Voters
  <2>2. CASE q = n /\ t = s
    BY <1>0, <1>1, <1>2, <1>3, <2>2 DEF Heard
  <2>3. CASE q = n /\ t # s
    <3>1. t \in Nat
      BY StepFacts
    <3>2. CASE t < k
      BY <1>0, <2>3, <3>2 DEF Heard
    <3>3. CASE ~(t < k)
      <4>1. steps'[n][t] = steps[n][t] /\ ~(t < commiting[n])
        BY <1>0, <2>3, <3>1, <3>3
      <4> QED
        BY <1>3, <2>3, <4>1 DEF Heard, Voters
    <3> QED
      BY <3>2, <3>3
  <2> QED
    BY <2>1, <2>2, <2>3
<1> QED
  BY <1>2, <1>3

(* Who knows more finds the same stream in sequence.                       *)
LEMMA StreamMore ==
  ASSUME NEW q, NEW kinds, NEW H, NEW H2, InSequence(q, kinds, H), H \subseteq H2
  PROVE  InSequence(q, kinds, H2)
BY DEF InSequence

(* Whoever passes a step tells it, in its turn.                            *)
LEMMA HandledTold ==
  ASSUME TypeOK, Within, Stopped, Told, NEW m \in Node, NEW n \in Node, NEW s \in Step,
         NEW w \in StepData, NEW k \in 0 .. MaxStep, NEW c \in Chans,
         Handles(m, n, s, w, k, c)
  PROVE  Told'
<1>0. /\ \A q \in Node : q # n => next'[q] = next[q]
      /\ \A q \in Node : Up(q)' <=> Up(q)
      /\ \A t \in Step : t < next'[n] <=> t < next[n] \/ t = s
      /\ s \in Nat /\ next[n] \in Nat
  BY HandledFacts
<1>1. Up(n) /\ s <= next[n]
  BY DEF Handles
<1>2. /\ \A p, q \in Node : \A t \in Step : Heard(q, p, t) => Heard(q, p, t)'
      /\ Heard(n, m, s)'
  BY HeardStays
<1>3. /\ m # n => /\ chan[m][n] # <<>> /\ chan'[m][n] = Tail(chan[m][n])
                  /\ About(Head(chan[m][n]), Ballots, s)
      /\ \A p, q \in Node : (p # n \/ q = n \/ ~Up(q)) /\ (m = n \/ p # m \/ q # n)
              => chan'[p][q] = chan[p][q]
      /\ \/ /\ w.state = "Voted" /\ steps[n][s].state # "Initial"
            /\ \A q \in Node : q # n => chan'[n][q] = chan[n][q]
         \/ \E msg : /\ Answer(n, s, w, msg)
                     /\ \A q \in Node : q # n /\ Up(q) =>
                          chan'[n][q] = Append(chan[n][q], msg)
  BY HandledStreams
<1>4. \A p, q \in Node : chan[p][q] \in Seq(Message)
  BY Numbers
<1>5. SUFFICES ASSUME NEW p \in Node, NEW q \in Node, Up(q)', p # q
               PROVE  /\ Up(p)' => \A t \in Step : t < next'[p] =>
                           Heard(q, p, t)' \/ Sent(chan'[p][q], Ballots, t)
                      /\ InSequence(chan'[p][q], Ballots, {t \in Step : Heard(q, p, t)'})
  BY DEF Told
<1> DEFINE H == {t \in Step : Heard(q, p, t)}
           H2 == {t \in Step : Heard(q, p, t)'}
<1>6. /\ Up(p)' => \A t \in Step : t < next[p] => t \in H \/ Sent(chan[p][q], Ballots, t)
      /\ InSequence(chan[p][q], Ballots, H)
      /\ H \subseteq H2
      /\ \A t \in Step : t \in H2 <=> Heard(q, p, t)'
  BY <1>0, <1>2, <1>5 DEF Told
<1>7. SUFFICES /\ Up(p)' => \A t \in Step : t < next'[p] =>
                    t \in H2 \/ Sent(chan'[p][q], Ballots, t)
               /\ InSequence(chan'[p][q], Ballots, H2)
  BY <1>6
<1> HIDE DEF H, H2
<1>8. CASE p # n /\ (m = n \/ p # m \/ q # n)
  <2>1. chan'[p][q] = chan[p][q] /\ next'[p] = next[p]
    BY <1>0, <1>3, <1>8
  <2>2. InSequence(chan[p][q], Ballots, H2)
    BY <1>6, StreamMore
  <2> QED
    BY <1>6, <2>1, <2>2
<1>9. CASE p # n /\ m # n /\ p = m /\ q = n
  <2>1. chan'[p][q] = Tail(chan[p][q]) /\ next'[p] = next[p] /\ chan[p][q] # <<>>
        /\ About(Head(chan[p][q]), Ballots, s)
    BY <1>0, <1>3, <1>9
  <2>2. \A t \in Step : About(Head(chan[p][q]), Ballots, t) => t \in H2
    BY <1>2, <1>6, <1>9, <2>1 DEF About
  <2>3. \A t : Sent(chan[p][q], Ballots, t) =>
          Sent(Tail(chan[p][q]), Ballots, t) \/ About(Head(chan[p][q]), Ballots, t)
    BY <1>4, <2>1, StreamTail
  <2>4. InSequence(Tail(chan[p][q]), Ballots, H2)
    BY <1>4, <1>6, <2>1, <2>2, StreamTail
  <2> QED
    BY <1>6, <2>1, <2>2, <2>3, <2>4
<1>10. CASE p = n
  <2>0. q # n /\ Up(q) /\ Up(p)
    BY <1>0, <1>1, <1>5, <1>10
  <2>1. CASE /\ w.state = "Voted" /\ steps[n][s].state # "Initial"
             /\ \A r \in Node : r # n => chan'[n][r] = chan[n][r]
    <3>1. s < next[n]
      <4>1. steps[n][s] # Fresh
        BY <2>1, FreshFields
      <4> QED
        BY <1>0, <1>1, <4>1, UnpassedFresh
    <3>2. \A t \in Step : t < next'[p] => t < next[p]
      BY <1>0, <1>10, <3>1
    <3>3. chan'[p][q] = chan[p][q]
      BY <1>10, <2>0, <2>1
    <3>4. InSequence(chan[p][q], Ballots, H2)
      BY <1>6, StreamMore
    <3> QED
      BY <1>6, <3>2, <3>3, <3>4
  <2>2. ASSUME NEW msg, Answer(n, s, w, msg),
               \A r \in Node : r # n /\ Up(r) => chan'[n][r] = Append(chan[n][r], msg)
        PROVE  /\ Up(p)' => \A t \in Step : t < next'[p] =>
                    t \in H2 \/ Sent(chan'[p][q], Ballots, t)
               /\ InSequence(chan'[p][q], Ballots, H2)
    <3>1. chan'[p][q] = Append(chan[p][q], msg)
      BY <1>10, <2>0, <2>2
    <3>2. msg \in Message /\ About(msg, Ballots, s)
      BY <2>2 DEF Answer
    <3>3. /\ \A t : Sent(chan[p][q], Ballots, t) => Sent(Append(chan[p][q], msg), Ballots, t)
          /\ \A t : About(msg, Ballots, t) => Sent(Append(chan[p][q], msg), Ballots, t)
      BY <1>4, <3>2, StreamAppend
    <3>4. \A t \in Step : t < next'[p] => t \in H2 \/ Sent(chan'[p][q], Ballots, t)
      <4> SUFFICES ASSUME NEW t \in Step, t < next'[p]
                   PROVE  t \in H2 \/ Sent(chan'[p][q], Ballots, t)
        OBVIOUS
      <4>1. CASE t = s
        BY <3>1, <3>2, <3>3, <4>1
      <4>2. CASE t # s
        <5>1. t < next[p]
          BY <1>0, <1>10, <4>2
        <5> QED
          BY <1>0, <1>6, <2>0, <3>1, <3>3, <5>1
      <4> QED
        BY <4>1, <4>2
    <3>5. \A r, t \in Step : About(msg, Ballots, r) /\ t < r => t \in H2 \/ Sent(chan[p][q], Ballots, t)
      <4> SUFFICES ASSUME NEW r \in Step, NEW t \in Step, About(msg, Ballots, r), t < r
                   PROVE  t \in H2 \/ Sent(chan[p][q], Ballots, t)
        OBVIOUS
      <4>1. r = s
        BY <3>2 DEF About
      <4>2. t \in Nat /\ t < next[p]
        BY <1>0, <1>1, <1>10, <4>1, StepFacts
      <4> QED
        BY <1>0, <1>6, <2>0, <4>2
    <3>6. InSequence(chan[p][q], Ballots, H2)
      BY <1>6, StreamMore
    <3>7. InSequence(Append(chan[p][q], msg), Ballots, H2)
      BY <1>4, <3>2, <3>5, <3>6, StreamAppend
    <3> QED
      BY <3>1, <3>4, <3>7
  <2> QED
    BY <1>3, <2>1, <2>2
<1> QED
  BY <1>5, <1>8, <1>9, <1>10

(* Votes are counted in the order of the steps.                            *)
LEMMA HandledInTurn ==
  ASSUME TypeOK, Within, Stopped, Told, InTurn, NEW m \in Node, NEW n \in Node,
         NEW s \in Step, NEW w \in StepData, NEW k \in 0 .. MaxStep, NEW c \in Chans,
         Handles(m, n, s, w, k, c)
  PROVE  /\ InTurn'
         /\ \A p \in Voters(n, s) \cup {m, n} : \A t \in Step : t < s => Heard(n, p, t)
<1>0. /\ \A q \in Node : q # n => steps'[q] = steps[q]
      /\ k \in Nat
      /\ s \in Nat /\ next[n] \in Nat
      /\ \A t \in Step : t < k => steps'[n][t] = Fresh
      /\ \A t \in Step : t >= k /\ t # s => steps'[n][t] = steps[n][t]
      /\ s >= k => steps'[n][s] = w
  BY HandledFacts
<1>1. /\ Up(n) /\ s <= next[n] /\ Begins(m, n, s, c)
      /\ VotedNodesSet(w) \subseteq Voters(n, s) \cup {m, n}
  BY DEF Handles
<1>2. \A p, q \in Node : \A t \in Step : Heard(q, p, t) => Heard(q, p, t)'
  BY HeardStays
<1>3. ASSUME NEW t \in Step, t < s
      PROVE  Heard(n, n, t)
  <2>1. t \in Nat /\ t < next[n] /\ steps[n][t] \in StepData
    BY <1>0, <1>1, <1>3, StepFacts, Numbers
  <2>2. t < commiting[n] \/ steps[n][t].state # "Initial"
    BY <1>1, <2>1 DEF Within
  <2>3. steps[n][t].state = "Voted" => n \in Voters(n, t)
    BY <1>1 DEF Within
  <2> QED
    BY <2>1, <2>2, <2>3 DEF Heard, StepData
<1>4. ASSUME NEW t \in Step, t < s, m # n
      PROVE  Heard(n, m, t)
  BY <1>1, <1>4, ReadsInTurn DEF Begins
<1>5. ASSUME NEW p \in Voters(n, s) \cup {m, n}, NEW t \in Step, t < s
      PROVE  Heard(n, p, t)
  <2>1. p \in Node
    BY NodesDef, Numbers DEF Voters
  <2>2. CASE p \in Voters(n, s)
    BY <1>5, <2>1, <2>2 DEF InTurn
  <2> QED
    BY <1>1, <1>3, <1>4, <1>5, <2>2
<1>6. ASSUME NEW p \in Node, NEW q \in Node, NEW r \in Step, NEW t \in Step,
             p \in VotedNodesSet(steps'[q][r]), t < r
      PROVE  Heard(q, p, t)
  <2>1. CASE p \in Voters(q, r)
    BY <1>6, <2>1 DEF InTurn
  <2>2. CASE p \notin Voters(q, r)
    <3>1. q = n
      BY <1>0, <1>6, <2>2 DEF Voters
    <3>2. ~(r < k)
      BY <1>0, <1>6, <3>1, FreshFields
    <3>3. r = s
      BY <1>0, <1>6, <2>2, <3>1, <3>2, StepFacts DEF Voters
    <3>4. steps'[n][s] = w
      BY <1>0, <3>2, <3>3
    <3> QED
      BY <1>1, <1>5, <1>6, <3>1, <3>3, <3>4
  <2> QED
    BY <2>1, <2>2
<1>7. InTurn'
  BY <1>2, <1>6 DEF InTurn, Voters
<1> QED
  BY <1>5, <1>7

(* What is proposed stays so, and one message may come on top.             *)
LEMMA HandledStarted ==
  ASSUME TypeOK, Within, NEW m \in Node, NEW n \in Node, NEW s \in Step,
         NEW w \in StepData, NEW k \in 0 .. MaxStep, NEW c \in Chans,
         Handling(m, n, s, w, k, c)
  PROVE  /\ started' \in [Node -> Seq(Step)]
         /\ \A p \in Node : \A i \in DOMAIN started[p] :
              i \in DOMAIN started'[p] /\ started'[p][i] = started[p][i]
         /\ \A p \in Node : \A i \in DOMAIN started'[p] : i \notin DOMAIN started[p] =>
              /\ p = n /\ m = n /\ s = next[n] /\ started'[p][i] = s
              /\ i = Len(started[n]) + 1
              /\ \A j \in DOMAIN started[p] : j < i
         /\ m # n => started' = started
         /\ \A p \in Node : \A i \in DOMAIN started'[p] : started'[p][i] \in Nat /\ i \in Nat
<1>0. \A p \in Node : started[p] \in Seq(Step)
  BY DEF TypeOK
<1>1. CASE started' = started
  <2>1. \A p \in Node : \A i \in DOMAIN started'[p] : started'[p][i] \in Nat /\ i \in Nat
    <3> TAKE p \in Node
    <3> TAKE i \in DOMAIN started'[p]
    <3>1. i \in 1 .. Len(started[p])
      BY <1>0, <1>1, LenProperties
    <3>2. started[p][i] \in Step
      BY <1>0, <3>1, ElementOfSeq
    <3> QED
      BY <1>0, <1>1, <3>1, <3>2, StepFacts, LenProperties
  <2> QED
    BY <1>1, <2>1 DEF TypeOK
<1>2. CASE m = n /\ s = next[n] /\ started' = [started EXCEPT ![n] = Append(@, s)]
  <2>1. /\ started'[n] = Append(started[n], s)
        /\ \A p \in Node : p # n => started'[p] = started[p]
    BY <1>2 DEF TypeOK
  <2>2. /\ Append(started[n], s) \in Seq(Step)
        /\ Len(started[n]) \in Nat
        /\ DOMAIN started[n] = 1 .. Len(started[n])
        /\ DOMAIN Append(started[n], s) = 1 .. Len(started[n]) + 1
        /\ Append(started[n], s)[Len(started[n]) + 1] = s
        /\ \A i \in DOMAIN started[n] : Append(started[n], s)[i] = started[n][i]
    BY <1>0, AppendFacts
  <2>3. started' \in [Node -> Seq(Step)]
    BY <1>2, <2>2 DEF TypeOK
  <2>4. \A p \in Node : \A i \in DOMAIN started[p] :
          i \in DOMAIN started'[p] /\ started'[p][i] = started[p][i]
    BY <2>1, <2>2
  <2>5. \A p \in Node : \A i \in DOMAIN started'[p] : i \notin DOMAIN started[p] =>
              /\ p = n /\ m = n /\ s = next[n] /\ started'[p][i] = s
              /\ i = Len(started[n]) + 1
              /\ \A j \in DOMAIN started[p] : j < i
    BY <1>2, <2>1, <2>2
  <2>6. \A p \in Node : \A i \in DOMAIN started'[p] : started'[p][i] \in Nat /\ i \in Nat
    <3> TAKE p \in Node
    <3> TAKE i \in DOMAIN started'[p]
    <3>0. started'[p] \in Seq(Step)
      BY <2>3
    <3>1. i \in 1 .. Len(started'[p]) /\ Len(started'[p]) \in Nat
      BY <3>0, LenProperties
    <3>2. started'[p][i] \in Step
      BY <3>0, <3>1, ElementOfSeq
    <3> QED
      BY <3>1, <3>2, StepFacts
  <2> QED
    BY <1>2, <2>3, <2>4, <2>5, <2>6
<1> QED
  <2>1. Handles(m, n, s, w, k, c)
    BY DEF Handling
  <2>2. m = n => s = next[n]
    BY <2>1 DEF Handles, Begins
  <2> QED
    BY <1>1, <1>2, <2>2 DEF Handling, Chooses, Follows, Brings

LEMMA HandledInSteps ==
  ASSUME TypeOK, Within, InSteps, NEW m \in Node, NEW n \in Node, NEW s \in Step,
         NEW w \in StepData, NEW k \in 0 .. MaxStep, NEW c \in Chans,
         Handling(m, n, s, w, k, c)
  PROVE  InSteps'
<1>0. Handles(m, n, s, w, k, c)
  BY DEF Handling
<1>1. /\ \A p \in Node : p # n => next'[p] = next[p]
      /\ next[n] <= next'[n] /\ s < next'[n] /\ next[n] \in Nat /\ next'[n] \in Nat /\ s \in Nat
  BY <1>0, HandledFacts
<1>2. /\ \A p \in Node : \A i \in DOMAIN started[p] :
           i \in DOMAIN started'[p] /\ started'[p][i] = started[p][i]
      /\ \A p \in Node : \A i \in DOMAIN started'[p] : i \notin DOMAIN started[p] =>
              /\ p = n /\ m = n /\ s = next[n] /\ started'[p][i] = s
              /\ i = Len(started[n]) + 1
              /\ \A j \in DOMAIN started[p] : j < i
      /\ \A p \in Node : \A i \in DOMAIN started'[p] : started'[p][i] \in Nat /\ i \in Nat
  BY HandledStarted
<1>3. \A p \in Node : next[p] \in Nat
  BY Numbers
<1>4. ASSUME NEW p \in Node, NEW i \in DOMAIN started'[p]
      PROVE  started'[p][i] < next'[p]
  <2>1. CASE i \in DOMAIN started[p]
    <3>1. started'[p][i] < next[p]
      BY <1>2, <2>1 DEF InSteps
    <3> QED
      BY <1>1, <1>2, <1>3, <3>1
  <2>2. CASE i \notin DOMAIN started[p]
    BY <1>1, <1>2, <2>2
  <2> QED
    BY <2>1, <2>2
<1>5. ASSUME NEW p \in Node, NEW i \in DOMAIN started'[p], NEW j \in DOMAIN started'[p], i < j
      PROVE  started'[p][i] < started'[p][j]
  <2>1. CASE i \in DOMAIN started[p] /\ j \in DOMAIN started[p]
    BY <1>2, <1>5, <2>1 DEF InSteps
  <2>2. CASE i \in DOMAIN started[p] /\ j \notin DOMAIN started[p]
    BY <1>2, <2>2 DEF InSteps
  <2>3. CASE i \notin DOMAIN started[p]
    <3>1. \A l \in DOMAIN started'[p] : l <= i
      BY <1>2, <2>3
    <3> QED
      BY <1>2, <1>5, <3>1
  <2> QED
    BY <2>1, <2>2, <2>3
<1> QED
  BY <1>4, <1>5 DEF InSteps

(* Every message in a stream was there before or is the one just sent.     *)
LEMMA HandledMessages ==
  ASSUME TypeOK, Stopped, NEW m \in Node, NEW n \in Node, NEW s \in Step,
         NEW w \in StepData, NEW k \in 0 .. MaxStep, NEW c \in Chans,
         Handles(m, n, s, w, k, c), NEW p \in Node, NEW q \in Node,
         NEW i \in DOMAIN chan'[p][q]
  PROVE  \/ \E j \in DOMAIN chan[p][q] : chan'[p][q][i] = chan[p][q][j]
         \/ p = n /\ q # n /\ Up(q) /\ Answer(n, s, w, chan'[p][q][i])
<1>1. /\ m # n => chan[m][n] # <<>> /\ chan'[m][n] = Tail(chan[m][n])
      /\ \A u, v \in Node : (u # n \/ v = n \/ ~Up(v)) /\ (m = n \/ u # m \/ v # n)
              => chan'[u][v] = chan[u][v]
      /\ \/ \A v \in Node : v # n => chan'[n][v] = chan[n][v]
         \/ \E msg : /\ Answer(n, s, w, msg)
                     /\ \A v \in Node : v # n /\ Up(v) =>
                          chan'[n][v] = Append(chan[n][v], msg)
  BY HandledStreams
<1>2. chan[p][q] \in Seq(Message)
  BY Numbers
<1>3. CASE chan'[p][q] = chan[p][q]
  BY <1>3
<1>4. CASE chan[p][q] # <<>> /\ chan'[p][q] = Tail(chan[p][q])
  <2>1. i + 1 \in DOMAIN chan[p][q] /\ chan'[p][q][i] = chan[p][q][i + 1]
    BY <1>2, <1>4, TailFacts
  <2> QED
    BY <2>1
<1>5. ASSUME NEW msg, Answer(n, s, w, msg), chan'[p][q] = Append(chan[p][q], msg),
             p = n, q # n, Up(q)
      PROVE  \/ \E j \in DOMAIN chan[p][q] : chan'[p][q][i] = chan[p][q][j]
             \/ p = n /\ q # n /\ Up(q) /\ Answer(n, s, w, chan'[p][q][i])
  <2>1. msg \in Message
    BY <1>5 DEF Answer
  <2>2. /\ Len(chan[p][q]) \in Nat
        /\ DOMAIN chan[p][q] = 1 .. Len(chan[p][q])
        /\ DOMAIN chan'[p][q] = 1 .. Len(chan[p][q]) + 1
        /\ chan'[p][q][Len(chan[p][q]) + 1] = msg
        /\ \A j \in DOMAIN chan[p][q] : chan'[p][q][j] = chan[p][q][j]
    BY <1>2, <1>5, <2>1, AppendFacts
  <2>3. i \in DOMAIN chan[p][q] \/ i = Len(chan[p][q]) + 1
    BY <2>2
  <2> QED
    BY <1>5, <2>2, <2>3
<1>6. CASE p = n /\ q # n /\ Up(q)
  <2>1. CASE \A v \in Node : v # n => chan'[n][v] = chan[n][v]
    BY <1>3, <1>6, <2>1
  <2>2. ASSUME NEW msg, Answer(n, s, w, msg),
               \A v \in Node : v # n /\ Up(v) => chan'[n][v] = Append(chan[n][v], msg)
        PROVE  \/ \E j \in DOMAIN chan[p][q] : chan'[p][q][i] = chan[p][q][j]
               \/ p = n /\ q # n /\ Up(q) /\ Answer(n, s, w, chan'[p][q][i])
    <3>1. chan'[p][q] = Append(chan[p][q], msg)
      BY <1>6, <2>2
    <3> QED
      BY <1>5, <1>6, <2>2, <3>1
  <2> QED
    BY <1>1, <2>1, <2>2
<1>7. CASE ~(p = n /\ q # n /\ Up(q))
  BY <1>1, <1>3, <1>4, <1>7
<1> QED
  BY <1>6, <1>7

(* A vote that is counted now was on its way or is the handler's own first *)
(* one in this step.                                                       *)
LEMMA HeadVote ==
  ASSUME TypeOK, NEW m \in Node, NEW n \in Node, chan[m][n] # <<>>,
         Head(chan[m][n]).type = "vote", NEW s \in Step,
         About(Head(chan[m][n]), Ballots, s), NEW x \in Head(chan[m][n]).msgs
  PROVE  HasVote(m, s, x)
<1>1. 1 \in DOMAIN chan[m][n] /\ chan[m][n][1] = Head(chan[m][n])
  BY Numbers, TailFacts
<1>2. About(chan[m][n][1], {"vote"}, s)
  BY <1>1 DEF About
<1> QED
  BY <1>1, <1>2 DEF HasVote

OwnFirst(n, s, x, p, t, y) ==
  p = n /\ t = s /\ y = x /\ steps[n][s].state = "Initial"

LEMMA ChosenVotes ==
  ASSUME TypeOK, Within, Stopped, NEW m \in Node, NEW n \in Node, NEW s \in Step,
         NEW w \in StepData, NEW k \in 0 .. MaxStep, NEW c \in Chans,
         Handles(m, n, s, w, k, c),
         NEW x \in MsgId, NEW d \in StepData, Chooses(m, n, s, x, d, w)
  PROVE  /\ \A p \in Node : \A y : <<y, p>> \in d.votes =>
              HasVote(p, s, y) \/ OwnFirst(n, s, x, p, s, y)
         /\ \A p \in Node : \A t \in Step : \A y :
              HasVote(p, t, y)' => HasVote(p, t, y) \/ OwnFirst(n, s, x, p, t, y)
<1>0. /\ \A q \in Node : q # n => steps'[q] = steps[q]
      /\ k \in Nat /\ s \in Nat
      /\ \A t \in Step : t < k => steps'[n][t] = Fresh
      /\ \A t \in Step : t >= k /\ t # s => steps'[n][t] = steps[n][t]
      /\ s >= k => steps'[n][s] = w
  BY HandledFacts
<1>1. /\ Brings(m, n, s, x)
      /\ d.state = "Voted"
      /\ d.votes = steps[n][s].votes \cup {<<x, m>>}
                     \cup (IF steps[n][s].state = "Initial" THEN {<<x, n>>} ELSE {})
      /\ w = d \/ w = Done(Msgs(d))
  BY DEF Chooses, Tally
<1>2. /\ m # n => /\ chan[m][n] # <<>>
                  /\ About(Head(chan[m][n]), Ballots, s)
      /\ m = n => s = next[n]
  BY HandledStreams
<1>3. Up(n)
  BY DEF Handles
<1>4. m = n => steps[n][s].state = "Initial"
  <2>1. m = n => s >= next[n]
    BY <1>0, <1>2
  <2> QED
    BY <1>3, <2>1, UnpassedFresh, FreshFields
<1>5. m # n => HasVote(m, s, x)
  BY <1>1, <1>2, HeadVote DEF Brings
<1>6. ASSUME NEW p \in Node, NEW y, <<y, p>> \in d.votes
      PROVE  HasVote(p, s, y) \/ OwnFirst(n, s, x, p, s, y)
  <2>1. CASE <<y, p>> \in steps[n][s].votes
    BY <2>1 DEF HasVote
  <2>2. CASE <<y, p>> = <<x, m>>
    <3>1. y = x /\ p = m
      BY <2>2
    <3> QED
      BY <1>4, <1>5, <3>1 DEF OwnFirst
  <2>3. CASE <<y, p>> = <<x, n>> /\ steps[n][s].state = "Initial"
    BY <2>3 DEF OwnFirst
  <2> QED
    BY <1>1, <1>6, <2>1, <2>2, <2>3
<1>7. ASSUME NEW p \in Node, NEW t \in Step, NEW y, NEW q \in Node,
             <<y, p>> \in steps'[q][t].votes
      PROVE  HasVote(p, t, y) \/ OwnFirst(n, s, x, p, t, y)
  <2>1. CASE <<y, p>> \in steps[q][t].votes
    BY <2>1 DEF HasVote
  <2>2. CASE <<y, p>> \notin steps[q][t].votes
    <3>1. q = n /\ ~(t < k)
      BY <1>0, <1>7, <2>2, FreshFields
    <3>2. t = s
      BY <1>0, <1>7, <2>2, <3>1, StepFacts
    <3>3. steps'[q][t] = w
      BY <1>0, <3>1, <3>2
    <3>4. w = d
      BY <1>1, <1>7, <3>3 DEF Done
    <3> QED
      BY <1>6, <1>7, <3>2, <3>3, <3>4
  <2> QED
    BY <2>1, <2>2
<1>8. ASSUME NEW p \in Node, NEW t \in Step, NEW y, NEW q \in Node,
             NEW i \in DOMAIN chan'[p][q],
             About(chan'[p][q][i], {"vote"}, t), y \in chan'[p][q][i].msgs
      PROVE  HasVote(p, t, y) \/ OwnFirst(n, s, x, p, t, y)
  <2>1. CASE \E j \in DOMAIN chan[p][q] : chan'[p][q][i] = chan[p][q][j]
    BY <1>8, <2>1 DEF HasVote
  <2>2. CASE p = n /\ Answer(n, s, w, chan'[p][q][i])
    <3>1. chan'[p][q][i].type = "vote" /\ chan'[p][q][i].step = t
      BY <1>8 DEF About
    <3>2. /\ w.state = "Voted" /\ steps[n][s].state = "Initial"
          /\ \E z \in MsgId : <<z, n>> \in w.votes /\ chan'[p][q][i] = VoteMsg(s, z)
      BY <2>2, <3>1, SMTT(30) DEF Answer, CommitMsg
    <3>3. PICK z \in MsgId : <<z, n>> \in w.votes /\ chan'[p][q][i] = VoteMsg(s, z)
      BY <3>2
    <3>4. t = s /\ y = z
      BY <1>8, <3>1, <3>3 DEF VoteMsg
    <3>5. w = d
      BY <1>1, <3>2 DEF Done
    <3>6. steps[n][s] = Fresh
      BY <1>3, <3>2 DEF Within
    <3>7. <<z, n>> = <<x, m>> \/ <<z, n>> = <<x, n>>
      BY <1>1, <3>2, <3>3, <3>5, <3>6, FreshFields
    <3>8. z = x
      BY <3>7
    <3> QED
      BY <2>2, <3>2, <3>4, <3>8 DEF OwnFirst
  <2> QED
    BY <2>1, <2>2, HandledMessages
<1>9. \A p \in Node : \A t \in Step : \A y :
        HasVote(p, t, y)' => HasVote(p, t, y) \/ OwnFirst(n, s, x, p, t, y)
  BY <1>7, <1>8, ZenonT(60) DEF HasVote
<1> QED
  BY <1>6, <1>9

LEMMA FollowedVotes ==
  ASSUME TypeOK, Within, Stopped, NEW m \in Node, NEW n \in Node, NEW s \in Step,
         NEW w \in StepData, NEW k \in 0 .. MaxStep, NEW c \in Chans,
         Handles(m, n, s, w, k, c), w.state = "Completed"
  PROVE  \A p \in Node : \A t \in Step : \A y : HasVote(p, t, y)' => HasVote(p, t, y)
<1>0. /\ \A q \in Node : q # n => steps'[q] = steps[q]
      /\ k \in Nat /\ s \in Nat
      /\ \A t \in Step : t < k => steps'[n][t] = Fresh
      /\ \A t \in Step : t >= k /\ t # s => steps'[n][t] = steps[n][t]
      /\ s >= k => steps'[n][s] = w
  BY HandledFacts
<1>1. w.votes = {}
  BY DEF Handles
<1>2. ASSUME NEW p \in Node, NEW t \in Step, NEW y, NEW q \in Node,
             <<y, p>> \in steps'[q][t].votes
      PROVE  HasVote(p, t, y)
  <2>1. CASE q # n
    BY <1>0, <1>2, <2>1 DEF HasVote
  <2>2. CASE q = n
    <3>1. ~(t < k) /\ t # s
      BY <1>0, <1>1, <1>2, <2>2, FreshFields
    <3>2. steps'[n][t] = steps[n][t]
      BY <1>0, <3>1, StepFacts
    <3> QED
      BY <1>2, <2>2, <3>2 DEF HasVote
  <2> QED
    BY <2>1, <2>2
<1>3. ASSUME NEW p \in Node, NEW t \in Step, NEW y, NEW q \in Node,
             NEW i \in DOMAIN chan'[p][q],
             About(chan'[p][q][i], {"vote"}, t), y \in chan'[p][q][i].msgs
      PROVE  HasVote(p, t, y)
  <2>1. CASE \E j \in DOMAIN chan[p][q] : chan'[p][q][i] = chan[p][q][j]
    BY <1>3, <2>1 DEF HasVote
  <2>2. CASE Answer(n, s, w, chan'[p][q][i])
    <3>1. chan'[p][q][i].type = "vote"
      BY <1>3 DEF About
    <3> QED
      BY <2>2, <3>1 DEF Answer, CommitMsg
  <2> QED
    BY <2>1, <2>2, HandledMessages
<1> QED
  BY <1>2, <1>3, ZenonT(60) DEF HasVote

(* A process has one vote in a step.                                       *)
LEMMA HandledCastOnce ==
  ASSUME TypeOK, Within, Stopped, CastOnce, InSteps,
         NEW m \in Node, NEW n \in Node, NEW s \in Step,
         NEW w \in StepData, NEW k \in 0 .. MaxStep, NEW c \in Chans,
         Handling(m, n, s, w, k, c)
  PROVE  CastOnce'
<1>0. Handles(m, n, s, w, k, c)
  BY DEF Handling
<1>1. /\ \A p \in Node : p # n => next'[p] = next[p]
      /\ next[n] <= next'[n] /\ s < next'[n] /\ next'[n] \in Nat /\ s \in Nat
  BY <1>0, HandledFacts
<1>2. /\ \A p \in Node : \A i \in DOMAIN started[p] :
           i \in DOMAIN started'[p] /\ started'[p][i] = started[p][i]
      /\ \A p \in Node : \A i \in DOMAIN started'[p] : i \notin DOMAIN started[p] =>
              /\ p = n /\ m = n /\ s = next[n] /\ started'[p][i] = s
              /\ i = Len(started[n]) + 1
      /\ m # n => started' = started
      /\ \A p \in Node : \A i \in DOMAIN started'[p] : started'[p][i] \in Nat /\ i \in Nat
  BY HandledStarted
<1>3. /\ \A p \in Node : next[p] \in Nat
      /\ \A t \in Step : t \in Nat
      /\ \A y \in MsgId : y[1] \in Node
  BY Numbers, StepFacts DEF MsgId
<1>4. ASSUME NEW p \in Node, NEW t \in Step, NEW y \in MsgId, HasVote(p, t, y)
      PROVE  /\ t < next'[p] /\ t < next[p]
             /\ ProposedIn(y, t)'
             /\ \A i \in DOMAIN started'[p] : started'[p][i] = t => y = <<p, i>>
  <2>1. /\ t < next[p] /\ ProposedIn(y, t)
        /\ \A i \in DOMAIN started[p] : started[p][i] = t => y = <<p, i>>
    BY <1>4 DEF CastOnce
  <2>2. t < next'[p]
    BY <1>1, <1>3, <2>1
  <2>3. ProposedIn(y, t)'
    BY <1>2, <1>3, <2>1 DEF ProposedIn
  <2>4. ASSUME NEW i \in DOMAIN started'[p], started'[p][i] = t
        PROVE  y = <<p, i>>
    <3>1. i \in DOMAIN started[p]
      BY <1>2, <1>3, <2>1, <2>4
    <3> QED
      BY <1>2, <2>1, <2>4, <3>1
  <2> QED
    BY <2>1, <2>2, <2>3, <2>4
<1>5. CASE \A p \in Node : \A t \in Step : \A y : HasVote(p, t, y)' => HasVote(p, t, y)
  <2> SUFFICES ASSUME NEW p \in Node, NEW t \in Step, NEW y \in MsgId, HasVote(p, t, y)'
               PROVE  /\ \A z \in MsgId : HasVote(p, t, z)' => y = z
                      /\ t < next'[p]
                      /\ ProposedIn(y, t)'
                      /\ \A i \in DOMAIN started'[p] : started'[p][i] = t => y = <<p, i>>
    BY DEF CastOnce
  <2>1. HasVote(p, t, y)
    BY <1>5
  <2>2. \A z \in MsgId : HasVote(p, t, z)' => y = z
    BY <1>5, <2>1 DEF CastOnce
  <2> QED
    BY <1>4, <2>1, <2>2
<1>6. ASSUME NEW x \in MsgId, NEW d \in StepData, Chooses(m, n, s, x, d, w)
      PROVE  CastOnce'
  <2>1. \A p \in Node : \A t \in Step : \A y :
          HasVote(p, t, y)' => HasVote(p, t, y) \/ OwnFirst(n, s, x, p, t, y)
    BY <1>0, <1>6, ChosenVotes
  <2>2. steps[n][s].state = "Initial" => ~(s < next[n])
    <3>1. Up(n) /\ s >= commiting[n] /\ commiting[n] \in Nat
      BY <1>0, Numbers DEF Handles
    <3> QED
      BY <1>1, <1>3, <3>1 DEF Within
  <2>3. \A y \in MsgId : HasVote(n, s, y) => steps[n][s].state # "Initial"
    BY <1>4, <2>2
  <2>4. ASSUME steps[n][s].state = "Initial"
        PROVE  /\ ProposedIn(x, s)'
               /\ \A i \in DOMAIN started'[n] : started'[n][i] = s => x = <<n, i>>
    <3>1. \A i \in DOMAIN started[n] : started[n][i] < next[n]
      BY DEF InSteps
    <3>2. \A i \in DOMAIN started[n] : started'[n][i] # s
      BY <1>1, <1>2, <1>3, <2>2, <2>4, <3>1
    <3>3. CASE m = n
      <4>1. /\ x = <<n, Len(started[n]) + 1>>
            /\ started' = [started EXCEPT ![n] = Append(@, s)]
        BY <1>6, <3>3 DEF Chooses, Brings
      <4>2. started[n] \in Seq(Step) /\ started'[n] = Append(started[n], s)
        BY <4>1 DEF TypeOK
      <4>3. /\ Len(started[n]) + 1 \in DOMAIN started'[n]
            /\ started'[n][Len(started[n]) + 1] = s
        BY <4>2, AppendFacts
      <4>4. ProposedIn(x, s)'
        BY <4>1, <4>3 DEF ProposedIn
      <4>5. \A i \in DOMAIN started'[n] : started'[n][i] = s => x = <<n, i>>
        BY <1>2, <3>2, <4>1
      <4> QED
        BY <4>4, <4>5
    <3>4. CASE m # n
      <4>1. HasVote(m, s, x)
        <5>1. x \in Head(chan[m][n]).msgs /\ Head(chan[m][n]).type = "vote"
          BY <1>6, <3>4 DEF Chooses, Brings
        <5>2. chan[m][n] # <<>> /\ About(Head(chan[m][n]), Ballots, s)
          BY <1>0, <3>4, HandledStreams
        <5> QED
          BY <5>1, <5>2, HeadVote
      <4>2. ProposedIn(x, s)'
        BY <1>4, <4>1
      <4>3. started' = started
        BY <1>2, <3>4
      <4> QED
        BY <3>2, <4>2, <4>3
    <3> QED
      BY <3>3, <3>4
  <2> SUFFICES ASSUME NEW p \in Node, NEW t \in Step, NEW y \in MsgId, HasVote(p, t, y)'
               PROVE  /\ \A z \in MsgId : HasVote(p, t, z)' => y = z
                      /\ t < next'[p]
                      /\ ProposedIn(y, t)'
                      /\ \A i \in DOMAIN started'[p] : started'[p][i] = t => y = <<p, i>>
    BY DEF CastOnce
  <2>5. CASE HasVote(p, t, y)
    <3>1. ASSUME NEW z \in MsgId, HasVote(p, t, z)'
          PROVE  y = z
      <4>1. ~OwnFirst(n, s, x, p, t, z)
        BY <2>3, <2>5 DEF OwnFirst
      <4>2. HasVote(p, t, z)
        BY <2>1, <3>1, <4>1
      <4> QED
        BY <2>5, <4>2 DEF CastOnce
    <3> QED
      BY <1>4, <2>5, <3>1
  <2>6. CASE ~HasVote(p, t, y)
    <3>1. OwnFirst(n, s, x, p, t, y)
      BY <2>1, <2>6
    <3>2. p = n /\ t = s /\ y = x /\ steps[n][s].state = "Initial"
      BY <3>1 DEF OwnFirst
    <3>3. ASSUME NEW z \in MsgId, HasVote(p, t, z)'
          PROVE  y = z
      <4>1. ~HasVote(p, t, z)
        BY <2>3, <3>2
      <4>2. OwnFirst(n, s, x, p, t, z)
        BY <2>1, <3>3, <4>1
      <4> QED
        BY <3>2, <4>2 DEF OwnFirst
    <3> QED
      BY <1>1, <2>4, <3>2, <3>3
  <2> QED
    BY <2>5, <2>6
<1>7. CASE Follows(m, n, w)
  <2>1. w.state = "Completed"
    BY <1>7 DEF Follows, Done
  <2> QED
    BY <1>0, <1>5, <2>1, FollowedVotes
<1> QED
  BY <1>6, <1>7 DEF Handling

(* The variables keep their types.                                         *)
LEMMA HandledTypes ==
  ASSUME TypeOK, Within, Stopped, NEW m \in Node, NEW n \in Node, NEW s \in Step,
         NEW w \in StepData, NEW k \in 0 .. MaxStep, NEW c \in Chans,
         Handling(m, n, s, w, k, c)
  PROVE  TypeOK'
<1>0. Handles(m, n, s, w, k, c)
  BY DEF Handling
<1>1. /\ UNCHANGED <<mode, config>>
      /\ next' = [next EXCEPT ![n] = IF @ <= s THEN s + 1 ELSE @]
      /\ Ran(n, [steps[n] EXCEPT ![s] = w], k)
  BY <1>0 DEF Handles
<1>2. next'[n] \in 0 .. MaxStep
  BY <1>0, HandledFacts
<1>3. next' \in [Node -> 0 .. MaxStep]
  <2> DEFINE v == IF next[n] <= s THEN s + 1 ELSE next[n]
  <2>1. next' = [next EXCEPT ![n] = v]
    BY <1>1
  <2> HIDE DEF v
  <2> QED
    BY <1>2, <2>1 DEF TypeOK
<1>4. [steps[n] EXCEPT ![s] = w] \in Table
  BY DEF TypeOK, Table
<1> DEFINE d == [steps[n] EXCEPT ![s] = w]
           r == [i \in Step |-> IF i < k THEN Fresh ELSE d[i]]
<1>5. r \in Table
  BY <1>4, FreshType DEF Table
<1>6. steps' = [steps EXCEPT ![n] = r] /\ commiting' = [commiting EXCEPT ![n] = k]
      /\ timer' \in [Node -> [Step -> BOOLEAN]] /\ log' \in [Node -> Seq(Batch)]
  BY <1>1 DEF Ran
<1> HIDE DEF r
<1>7. steps' \in [Node -> [Step -> StepData]] /\ commiting' \in [Node -> 0 .. MaxStep]
  BY <1>5, <1>6 DEF TypeOK, Table
<1>8. chan' \in [Node -> [Node -> Seq(Message)]]
  BY <1>0, HandledStreams DEF Chans
<1>9. started' \in [Node -> Seq(Step)]
  BY HandledStarted
<1> QED
  BY <1>1, <1>3, <1>6, <1>7, <1>8, <1>9 DEF TypeOK

-----------------------------------------------------------------------------
(* Decisions.  Where somebody took part who was taken out of some          *)
(* NodesConfig, nothing is handled any more.                               *)
LEMMA NotFrozen ==
  ASSUME TypeOK, Within, Stopped, NEW m \in Node, NEW n \in Node, NEW s \in Step,
         NEW w \in StepData, NEW k \in 0 .. MaxStep, NEW c \in Chans,
         Handles(m, n, s, w, k, c), NEW t \in Step, s <= t
  PROVE  ~Frozen(t)
<1> SUFFICES ASSUME Frozen(t)
             PROVE  FALSE
  OBVIOUS
<1>1. Up(n) /\ s \in Nat /\ t \in Nat /\ next[n] \in Nat
  BY StepFacts, Numbers DEF Handles
<1>2. /\ m # n => chan[m][n] # <<>> /\ About(Head(chan[m][n]), Ballots, s)
      /\ m = n => s = next[n]
  BY HandledStreams
<1>3. CASE m = n
  BY <1>1, <1>2, <1>3 DEF Frozen
<1>4. CASE m # n
  <2>1. /\ 1 \in DOMAIN chan[m][n] /\ chan[m][n][1] = Head(chan[m][n])
        /\ Head(chan[m][n]) \in Message
    BY <1>2, <1>4, Numbers, TailFacts
  <2>2. chan[m][n][1].type # "leave" /\ chan[m][n][1].step = s
    BY <1>2, <1>4, <2>1 DEF About, Ballots
  <2>3. t < s
    BY <1>1, <2>1, <2>2 DEF Frozen
  <2> QED
    BY <1>1, <2>3
<1> QED
  BY <1>3, <1>4

(* Each process whose vote is in the new record has one vote there, ...    *)
LEMMA ChosenOnce ==
  ASSUME TypeOK, Within, Stopped, CastOnce, NEW m \in Node, NEW n \in Node, NEW s \in Step,
         NEW w \in StepData, NEW k \in 0 .. MaxStep, NEW c \in Chans,
         Handles(m, n, s, w, k, c),
         NEW x \in MsgId, NEW d \in StepData, Chooses(m, n, s, x, d, w)
  PROVE  \A p \in Node : \A y, z \in MsgId : <<y, p>> \in d.votes /\ <<z, p>> \in d.votes => y = z
<1>1. \A p \in Node : \A y : <<y, p>> \in d.votes =>
              HasVote(p, s, y) \/ OwnFirst(n, s, x, p, s, y)
  BY ChosenVotes
<1>2. steps[n][s].state = "Initial" => \A y \in MsgId : ~HasVote(n, s, y)
  <2>1. Up(n) /\ s >= commiting[n] /\ commiting[n] \in Nat /\ next[n] \in Nat /\ s \in Nat
    BY Numbers, StepFacts DEF Handles
  <2>2. steps[n][s].state = "Initial" => ~(s < next[n])
    BY <2>1 DEF Within
  <2> QED
    BY <2>2 DEF CastOnce
<1> SUFFICES ASSUME NEW p \in Node, NEW y \in MsgId, NEW z \in MsgId,
                    <<y, p>> \in d.votes, <<z, p>> \in d.votes
             PROVE  y = z
  OBVIOUS
<1>3. HasVote(p, s, y) \/ OwnFirst(n, s, x, p, s, y)
  BY <1>1
<1>4. HasVote(p, s, z) \/ OwnFirst(n, s, x, p, s, z)
  BY <1>1
<1>5. CASE OwnFirst(n, s, x, p, s, y) \/ OwnFirst(n, s, x, p, s, z)
  BY <1>2, <1>3, <1>4, <1>5 DEF OwnFirst
<1>6. CASE HasVote(p, s, y) /\ HasVote(p, s, z)
  BY <1>6 DEF CastOnce
<1> QED
  BY <1>3, <1>4, <1>5, <1>6

(* ... so that the votes count the processes.                              *)
LEMMA VotesCountVoters ==
  ASSUME NEW d \in StepData, IsFiniteSet(VotedNodesSet(d)),
         \A p \in Node : \A y, z \in MsgId : <<y, p>> \in d.votes /\ <<z, p>> \in d.votes => y = z
  PROVE  Cardinality(d.votes) = Cardinality(VotedNodesSet(d))
<1> DEFINE W == VotedNodesSet(d)
           V == d.votes
           f == [p \in W |-> CHOOSE v \in V : v[2] = p]
<1>1. \A v \in V : v[1] \in MsgId /\ v[2] \in Node /\ v = <<v[1], v[2]>>
  BY DEF StepData
<1>2. \A p \in W : \E v \in V : v[2] = p
  BY DEF VotedNodesSet
<1>3. \A p \in W : f[p] \in V /\ f[p][2] = p
  BY <1>2
<1>4. \A v \in V : v[2] \in W
  BY DEF VotedNodesSet
<1>5. \A u, v \in V : u[2] = v[2] => u = v
  BY <1>1
<1>6. f \in [W -> V]
  BY <1>3
<1> HIDE DEF W, V, f
<1>7. \A a, b \in W : f[a] = f[b] => a = b
  BY <1>3
<1>8. \A v \in V : \E p \in W : f[p] = v
  BY <1>3, <1>4, <1>5
<1>9. f \in Bijection(W, V)
  BY <1>6, <1>7, <1>8, Fun_IsBij
<1>10. ExistsBijection(W, V)
  BY <1>9 DEF ExistsBijection
<1>11. Cardinality(V) = Cardinality(W)
  BY <1>10, FS_Bijection DEF W
<1> QED
  BY <1>11 DEF W, V

(* The processes that voted are in the NodesConfig that they are counted   *)
(* against.                                                                *)
LEMMA ChosenConfigured ==
  ASSUME TypeOK, Within, Stopped, CastOnce, LeftBehind,
         NEW m \in Node, NEW n \in Node, NEW s \in Step,
         NEW w \in StepData, NEW k \in 0 .. MaxStep, NEW c \in Chans,
         Handles(m, n, s, w, k, c),
         NEW x \in MsgId, NEW d \in StepData, Chooses(m, n, s, x, d, w)
  PROVE  /\ VotedNodesSet(d) \subseteq config[n]
         /\ MayCommit(d, n) => VotedNodesSet(d) = config[n]
         /\ ~MayCommit(d, n) => VotedNodesSet(d) # config[n]
<1>1. \A p \in Node : \A y : <<y, p>> \in d.votes =>
              HasVote(p, s, y) \/ OwnFirst(n, s, x, p, s, y)
  BY ChosenVotes
<1>2. ASSUME NEW p \in VotedNodesSet(d)
      PROVE  p \in config[n]
  <2>1. p \in Node /\ \E y \in MsgId : <<y, p>> \in d.votes
    BY NodesDef
  <2>2. Up(n) /\ ~Frozen(s)
    <3>1. Up(n)
      BY DEF Handles
    <3>2. s <= s
      BY StepFacts
    <3> QED
      BY <3>1, <3>2, NotFrozen
  <2>3. CASE p = n
    BY <2>2, <2>3, UpConfigured
  <2>4. CASE p # n
    <3>1. PICK y \in MsgId : HasVote(p, s, y)
      BY <1>1, <2>1, <2>4 DEF OwnFirst
    <3>2. TookPart(p, s)
      BY <3>1 DEF TookPart
    <3>3. p \notin Removed
      BY <2>2, <3>2 DEF LeftBehind
    <3> QED
      BY <2>1, <3>3, RemovedDef
  <2> QED
    BY <2>3, <2>4
<1> DEFINE W == VotedNodesSet(d)
<1>3. config[n] \subseteq Node
  BY DEF TypeOK
<1>4. IsFiniteSet(config[n])
  BY <1>3, Replob1Assumption, FS_Subset
<1>5. W \in SUBSET config[n]
  BY <1>2
<1>6. IsFiniteSet(W)
  BY <1>4, <1>5, FS_Subset
<1>7. Cardinality(d.votes) = Cardinality(W)
  BY <1>6, ChosenOnce, VotesCountVoters
<1>8. Cardinality(config[n]) = Cardinality(W) => config[n] = W
  BY <1>4, <1>5, FS_Subset
<1>9. MayCommit(d, n) <=> W = config[n]
  BY <1>7, <1>8 DEF MayCommit
<1> QED
  BY <1>2, <1>9

(* The only message that nobody knew before is the one that n proposes.    *)
Born(m, n, x) == m = n /\ x = <<n, Len(started[n]) + 1>>

LEMMA HandledRecord ==
  ASSUME TypeOK, Within, Stopped, NEW m \in Node, NEW n \in Node, NEW s \in Step,
         NEW w \in StepData, NEW k \in 0 .. MaxStep, NEW c \in Chans,
         Handling(m, n, s, w, k, c)
  PROVE  \A y : y \in w.msgs \/ (\E p \in Node : <<y, p>> \in w.votes) =>
           Known(y) \/ Born(m, n, y)
<1>0. Handles(m, n, s, w, k, c)
  BY DEF Handling
<1>1. m # n => 1 \in DOMAIN chan[m][n] /\ chan[m][n][1] = Head(chan[m][n])
  <2> SUFFICES ASSUME m # n
               PROVE  1 \in DOMAIN chan[m][n] /\ chan[m][n][1] = Head(chan[m][n])
    OBVIOUS
  <2>1. chan[m][n] # <<>>
    BY <1>0, HandledStreams
  <2> QED
    BY <2>1, Numbers, TailFacts
<1>2. ASSUME NEW x \in MsgId, NEW d \in StepData, Chooses(m, n, s, x, d, w),
             NEW p \in Node, NEW y, <<y, p>> \in d.votes
      PROVE  Known(y) \/ Born(m, n, y)
  <2>1. <<y, p>> \in steps[n][s].votes \/ y = x
    BY <1>2 DEF Chooses, Tally
  <2>2. CASE <<y, p>> \in steps[n][s].votes
    BY <2>2 DEF Known
  <2>3. CASE y = x /\ m = n
    BY <1>2, <2>3 DEF Chooses, Brings, Born
  <2>4. CASE y = x /\ m # n
    <3>1. y \in chan[m][n][1].msgs /\ chan[m][n][1].type = "vote"
      BY <1>1, <1>2, <2>4 DEF Chooses, Brings
    <3> QED
      BY <1>1, <2>4, <3>1 DEF Known
  <2> QED
    BY <2>1, <2>2, <2>3, <2>4
<1>3. ASSUME NEW x \in MsgId, NEW d \in StepData, Chooses(m, n, s, x, d, w),
             NEW y, y \in w.msgs \/ \E p \in Node : <<y, p>> \in w.votes
      PROVE  Known(y) \/ Born(m, n, y)
  <2>1. d.msgs = {} /\ (w = d \/ w = Done(Msgs(d)))
    BY <1>3 DEF Chooses, Tally
  <2>2. \E p \in Node : <<y, p>> \in d.votes
    <3>1. CASE w = d
      BY <1>3, <2>1, <3>1
    <3>2. CASE w = Done(Msgs(d))
      <4>1. y \in Msgs(d)
        BY <1>3, <3>2 DEF Done
      <4> QED
        BY <4>1, MsgsDef
    <3> QED
      BY <2>1, <3>1, <3>2
  <2> QED
    BY <1>2, <1>3, <2>2
<1>4. ASSUME Follows(m, n, w), NEW y, y \in w.msgs \/ \E p \in Node : <<y, p>> \in w.votes
      PROVE  Known(y)
  <2>1. y \in chan[m][n][1].msgs /\ chan[m][n][1].type = "commit" /\ m # n
    BY <1>1, <1>4 DEF Follows, Done
  <2> QED
    BY <1>1, <2>1 DEF Known
<1> QED
  BY <1>3, <1>4 DEF Handling

LEMMA HandledKnown ==
  ASSUME TypeOK, Within, Stopped, NEW m \in Node, NEW n \in Node, NEW s \in Step,
         NEW w \in StepData, NEW k \in 0 .. MaxStep, NEW c \in Chans,
         Handling(m, n, s, w, k, c), NEW y, Known(y)'
  PROVE  Known(y) \/ Born(m, n, y)
<1>0. Handles(m, n, s, w, k, c)
  BY DEF Handling
<1>1. y \in w.msgs \/ (\E p \in Node : <<y, p>> \in w.votes) =>
        Known(y) \/ Born(m, n, y)
  BY HandledRecord
<1>2. /\ \A q \in Node : q # n => steps'[q] = steps[q] /\ log'[q] = log[q]
      /\ k \in Nat
      /\ \A t \in Step : t < k => steps'[n][t] = Fresh
      /\ \A t \in Step : t >= k /\ t # s => steps'[n][t] = steps[n][t]
      /\ s >= k => steps'[n][s] = w
  BY <1>0, HandledFacts
<1>3. /\ DOMAIN log'[n] = 1 .. k /\ DOMAIN log[n] = 1 .. commiting[n]
      /\ \A i \in 1 .. commiting[n] : log'[n][i] = log[n][i]
      /\ \A i \in commiting[n] + 1 .. k :
           /\ i - 1 \in Step
           /\ IF i - 1 = s THEN w.state = "Completed" /\ log'[n][i] = w.msgs
              ELSE steps[n][i - 1].state = "Completed" /\ log'[n][i] = steps[n][i - 1].msgs
  BY <1>0, HandledLog
<1>4. ASSUME NEW q \in Node, NEW t \in Step,
             y \in steps'[q][t].msgs \/ \E p \in Node : <<y, p>> \in steps'[q][t].votes
      PROVE  Known(y) \/ Born(m, n, y)
  <2>1. CASE steps'[q][t] = steps[q][t]
    BY <1>4, <2>1 DEF Known
  <2>2. CASE q = n /\ t < k
    BY <1>2, <1>4, <2>2, FreshFields
  <2>3. CASE q = n /\ t >= k /\ t = s
    BY <1>1, <1>2, <1>4, <2>3
  <2> QED
    BY <1>2, <2>1, <2>2, <2>3, StepFacts
<1>5. ASSUME NEW p \in Node, NEW q \in Node, NEW i \in DOMAIN chan'[p][q],
             chan'[p][q][i].type # "leave", y \in chan'[p][q][i].msgs
      PROVE  Known(y) \/ Born(m, n, y)
  <2>1. CASE \E j \in DOMAIN chan[p][q] : chan'[p][q][i] = chan[p][q][j]
    BY <1>5, <2>1 DEF Known
  <2>2. CASE Answer(n, s, w, chan'[p][q][i])
    <3>1. \/ \E x \in MsgId : <<x, n>> \in w.votes /\ chan'[p][q][i] = VoteMsg(s, x)
          \/ chan'[p][q][i] = CommitMsg(s, w.msgs)
      BY <2>2 DEF Answer
    <3>2. CASE \E x \in MsgId : <<x, n>> \in w.votes /\ chan'[p][q][i] = VoteMsg(s, x)
      BY <1>1, <1>5, <3>2 DEF VoteMsg
    <3>3. CASE chan'[p][q][i] = CommitMsg(s, w.msgs)
      BY <1>1, <1>5, <3>3 DEF CommitMsg
    <3> QED
      BY <3>1, <3>2, <3>3
  <2> QED
    BY <1>0, <2>1, <2>2, HandledMessages
<1>6. ASSUME NEW q \in Node, NEW i \in DOMAIN log'[q], y \in log'[q][i]
      PROVE  Known(y) \/ Born(m, n, y)
  <2>1. CASE q # n
    BY <1>2, <1>6, <2>1 DEF Known
  <2>2. CASE q = n /\ i \in 1 .. commiting[n]
    BY <1>3, <1>6, <2>2 DEF Known
  <2>3. CASE q = n /\ i \in commiting[n] + 1 .. k
    <3>1. CASE i - 1 = s
      BY <1>1, <1>3, <1>6, <2>3, <3>1
    <3>2. CASE i - 1 # s
      BY <1>3, <1>6, <2>3, <3>2 DEF Known
    <3> QED
      BY <3>1, <3>2
  <2> QED
    BY <1>2, <1>3, <2>1, <2>2, <2>3, Numbers
<1> QED
  BY <1>4, <1>5, <1>6 DEF Known

(* A decision stays one, ...                                               *)
LEMMA DecidedStays ==
  ASSUME TypeOK, Within, Stopped, NEW m \in Node, NEW n \in Node, NEW s \in Step,
         NEW w \in StepData, NEW k \in 0 .. MaxStep, NEW c \in Chans,
         Handling(m, n, s, w, k, c), NEW t \in Step, NEW batch \in Batch, Decided(t, batch)
  PROVE  Decided(t, batch)'
<1>0. Handles(m, n, s, w, k, c) /\ Up(n)
  BY DEF Handling, Handles
<1>1. /\ \A p \in Node : p # n => next'[p] = next[p]
      /\ \A p \in Node : Up(p)' <=> Up(p)
      /\ next[n] <= next'[n] /\ next[n] \in Nat /\ next'[n] \in Nat
  BY <1>0, HandledFacts
<1>2. /\ \A p \in Node : \A i \in DOMAIN started[p] :
           i \in DOMAIN started'[p] /\ started'[p][i] = started[p][i]
      /\ \A p \in Node : \A i \in DOMAIN started'[p] : i \notin DOMAIN started[p] =>
              /\ p = n /\ m = n /\ s = next[n] /\ started'[p][i] = s
  BY HandledStarted
<1>3. /\ \A x \in batch : ProposedIn(x, t)
      /\ \A p \in Node : Up(p) => t < next[p]
      /\ \A p \in Node : \A i \in DOMAIN started[p] :
           started[p][i] = t /\ <<p, i>> \notin batch =>
             ~Up(p) /\ \A j \in DOMAIN started[p] : i <= j => ~Known(<<p, j>>)
  BY DEF Decided
<1>4. \A x \in batch : ProposedIn(x, t)'
  <2>1. \A x \in batch : x[1] \in Node
    BY DEF Batch, MsgId
  <2> QED
    BY <1>2, <1>3, <2>1 DEF ProposedIn
<1>5. \A p \in Node : Up(p)' => t < next'[p]
  BY <1>1, <1>3, StepFacts
<1>6. ASSUME NEW p \in Node, NEW i \in DOMAIN started'[p], started'[p][i] = t, <<p, i>> \notin batch
      PROVE  ~Up(p)' /\ \A j \in DOMAIN started'[p] : i <= j => ~Known(<<p, j>>)'
  <2>1. i \in DOMAIN started[p] /\ started[p][i] = t
    <3>1. i \notin DOMAIN started[p] => t = next[n]
      BY <1>2, <1>6
    <3>2. t < next[n] /\ t \in Nat
      BY <1>0, <1>3, StepFacts
    <3> QED
      BY <1>1, <1>2, <1>6, <3>1, <3>2
  <2>2. ~Up(p) /\ \A j \in DOMAIN started[p] : i <= j => ~Known(<<p, j>>)
    BY <1>3, <1>6, <2>1
  <2>3. p # n
    BY <1>0, <2>2
  <2>4. ASSUME NEW j \in DOMAIN started'[p], i <= j
        PROVE  ~Known(<<p, j>>)'
    <3>1. j \in DOMAIN started[p]
      BY <1>2, <2>3
    <3>2. ~Known(<<p, j>>)
      BY <2>2, <2>4, <3>1
    <3>3. ~Born(m, n, <<p, j>>)
      BY <2>3 DEF Born
    <3> QED
      BY <3>2, <3>3, HandledKnown
  <2> QED
    BY <1>1, <2>2, <2>4
<1> QED
  BY <1>4, <1>5, <1>6 DEF Decided

(* ... and there is one as soon as all of NodesConfig have voted: their    *)
(* messages of this step are in the batch, and those of others are gone.   *)
LEMMA ChosenBatch ==
  ASSUME TypeOK, Within, Stopped, CastOnce, InSteps,
         NEW m \in Node, NEW n \in Node, NEW s \in Step,
         NEW w \in StepData, NEW k \in 0 .. MaxStep, NEW c \in Chans,
         Handling(m, n, s, w, k, c),
         NEW x \in MsgId, NEW d \in StepData, Chooses(m, n, s, x, d, w)
  PROVE  /\ \A y \in Msgs(d) : ProposedIn(y, s)'
         /\ \A p \in VotedNodesSet(d) : s < next'[p]
         /\ \A p \in VotedNodesSet(d) : \A i \in DOMAIN started'[p] :
              started'[p][i] = s => <<p, i>> \in Msgs(d)
<1>0. Handles(m, n, s, w, k, c)
  BY DEF Handling
<1>1. /\ \A p \in Node : p # n => next'[p] = next[p]
      /\ next[n] <= next'[n] /\ s < next'[n] /\ next'[n] \in Nat /\ next[n] \in Nat /\ s \in Nat
  BY <1>0, HandledFacts
<1>2. /\ \A p \in Node : \A i \in DOMAIN started[p] :
           i \in DOMAIN started'[p] /\ started'[p][i] = started[p][i]
      /\ \A p \in Node : \A i \in DOMAIN started'[p] : i \notin DOMAIN started[p] =>
              /\ p = n /\ m = n /\ s = next[n] /\ started'[p][i] = s
              /\ i = Len(started[n]) + 1
      /\ \A p \in Node : \A i \in DOMAIN started'[p] : started'[p][i] \in Nat /\ i \in Nat
  BY HandledStarted
<1>3. \A p \in Node : \A y : <<y, p>> \in d.votes =>
              HasVote(p, s, y) \/ OwnFirst(n, s, x, p, s, y)
  BY <1>0, ChosenVotes
<1>4. <<x, m>> \in d.votes /\ Brings(m, n, s, x)
  BY DEF Chooses, Tally
<1>5. ASSUME NEW p \in Node, NEW y \in MsgId, HasVote(p, s, y)
      PROVE  /\ s < next[p] /\ s < next'[p] /\ ProposedIn(y, s)'
             /\ \A i \in DOMAIN started'[p] : started'[p][i] = s => y = <<p, i>>
  <2>1. /\ s < next[p] /\ ProposedIn(y, s)
        /\ \A i \in DOMAIN started[p] : started[p][i] = s => y = <<p, i>>
    BY <1>5 DEF CastOnce
  <2>2. next[p] \in Nat /\ y[1] \in Node
    BY Numbers DEF MsgId
  <2>3. s < next'[p]
    BY <1>1, <2>1, <2>2
  <2>4. ProposedIn(y, s)'
    BY <1>2, <2>1, <2>2 DEF ProposedIn
  <2>5. \A i \in DOMAIN started'[p] : started'[p][i] = s => y = <<p, i>>
    BY <1>1, <1>2, <2>1, <2>2
  <2> QED
    BY <2>1, <2>3, <2>4, <2>5
<1>6. ASSUME steps[n][s].state = "Initial"
      PROVE  /\ ProposedIn(x, s)'
             /\ \A i \in DOMAIN started'[n] : started'[n][i] = s => x = <<n, i>>
  <2>1. ~(s < next[n])
    <3>1. Up(n) /\ s >= commiting[n] /\ commiting[n] \in Nat
      BY <1>0, Numbers DEF Handles
    <3> QED
      BY <1>1, <1>6, <3>1 DEF Within
  <2>2. \A i \in DOMAIN started[n] : started'[n][i] # s
    BY <1>1, <1>2, <2>1 DEF InSteps
  <2>3. CASE m = n
    <3>1. /\ x = <<n, Len(started[n]) + 1>>
          /\ started' = [started EXCEPT ![n] = Append(@, s)]
      BY <1>4, <2>3 DEF Brings
    <3>2. started[n] \in Seq(Step) /\ started'[n] = Append(started[n], s)
      BY <3>1 DEF TypeOK
    <3>3. /\ Len(started[n]) + 1 \in DOMAIN started'[n]
          /\ started'[n][Len(started[n]) + 1] = s
      BY <3>2, AppendFacts
    <3>4. ProposedIn(x, s)'
      BY <3>1, <3>3 DEF ProposedIn
    <3> QED
      BY <1>2, <2>2, <3>1, <3>4
  <2>4. CASE m # n
    <3>1. HasVote(m, s, x)
      BY <1>3, <1>4, <2>4 DEF OwnFirst
    <3>2. \A i \in DOMAIN started'[n] : started'[n][i] # s
      BY <1>2, <2>2, <2>4
    <3> QED
      BY <1>5, <3>1, <3>2
  <2> QED
    BY <2>3, <2>4
<1>7. ASSUME NEW p \in Node, NEW y \in MsgId, <<y, p>> \in d.votes
      PROVE  /\ ProposedIn(y, s)' /\ s < next'[p]
             /\ \A i \in DOMAIN started'[p] : started'[p][i] = s => y = <<p, i>>
  <2>1. CASE HasVote(p, s, y)
    BY <1>5, <2>1
  <2>2. CASE OwnFirst(n, s, x, p, s, y)
    BY <1>1, <1>6, <2>2 DEF OwnFirst
  <2> QED
    BY <1>3, <1>7, <2>1, <2>2
<1>8. \A y : y \in Msgs(d) <=> \E p \in Node : <<y, p>> \in d.votes
  BY MsgsDef
<1>9. \A y \in Msgs(d) : y \in MsgId
  BY MsgsDef DEF Batch
<1>10. \A p \in VotedNodesSet(d) : p \in Node /\ \E y \in MsgId : <<y, p>> \in d.votes
  BY NodesDef
<1>11. \A y \in Msgs(d) : ProposedIn(y, s)'
  BY <1>7, <1>8, <1>9
<1>12. \A p \in VotedNodesSet(d) : s < next'[p]
  BY <1>7, <1>10
<1>13. ASSUME NEW p \in VotedNodesSet(d), NEW i \in DOMAIN started'[p], started'[p][i] = s
       PROVE  <<p, i>> \in Msgs(d)
  <2>1. PICK y \in MsgId : <<y, p>> \in d.votes
    BY <1>10
  <2>2. y = <<p, i>>
    BY <1>7, <1>10, <1>13, <2>1
  <2> QED
    BY <1>8, <1>10, <2>1, <2>2
<1> QED
  BY <1>11, <1>12, <1>13

LEMMA ChosenDecided ==
  ASSUME TypeOK, Within, Stopped, CastOnce, InSteps, LeftBehind,
         NEW m \in Node, NEW n \in Node, NEW s \in Step,
         NEW w \in StepData, NEW k \in 0 .. MaxStep, NEW c \in Chans,
         Handling(m, n, s, w, k, c),
         NEW x \in MsgId, NEW d \in StepData, Chooses(m, n, s, x, d, w), MayCommit(d, n)
  PROVE  Decided(s, Msgs(d))'
<1>0. Handles(m, n, s, w, k, c) /\ Up(n)
  BY DEF Handling, Handles
<1>1. /\ \A y \in Msgs(d) : ProposedIn(y, s)'
      /\ \A p \in VotedNodesSet(d) : s < next'[p]
      /\ \A p \in VotedNodesSet(d) : \A i \in DOMAIN started'[p] :
              started'[p][i] = s => <<p, i>> \in Msgs(d)
  BY ChosenBatch
<1>2. VotedNodesSet(d) = config[n]
  BY <1>0, ChosenConfigured
<1>3. \A p \in Node : Up(p)' <=> Up(p)
  BY <1>0, HandledFacts
<1>4. /\ \A p \in Node : \A i \in DOMAIN started[p] :
           i \in DOMAIN started'[p] /\ started'[p][i] = started[p][i]
      /\ \A p \in Node : \A i \in DOMAIN started'[p] : i \notin DOMAIN started[p] => p = n
  BY HandledStarted
<1>5. \A p \in Node : Up(p)' => s < next'[p]
  BY <1>1, <1>2, <1>3, UpConfigured
<1>6. ASSUME NEW p \in Node, NEW i \in DOMAIN started'[p], started'[p][i] = s,
             <<p, i>> \notin Msgs(d)
      PROVE  ~Up(p)' /\ \A j \in DOMAIN started'[p] : i <= j => ~Known(<<p, j>>)'
  <2>1. p \in Removed
    BY <1>1, <1>2, <1>6, RemovedDef
  <2>2. ~Up(p) /\ \A t \in Step : TookPart(p, t) => Frozen(t)
    BY <2>1 DEF LeftBehind
  <2>3. p # n
    BY <1>0, <2>2
  <2>4. ASSUME NEW j \in DOMAIN started'[p], i <= j
        PROVE  ~Known(<<p, j>>)'
    <3>1. i \in DOMAIN started[p] /\ j \in DOMAIN started[p] /\ started[p][i] = s
      BY <1>4, <1>6, <2>3
    <3>2. started[p] \in Seq(Step) /\ DOMAIN started[p] = 1 .. Len(started[p])
      BY LenProperties DEF TypeOK
    <3>3. started[p][j] \in Step /\ i \in Int /\ j \in Int
      BY <3>1, <3>2, ElementOfSeq
    <3>4. s <= started[p][j]
      <4>1. CASE i = j
        BY <3>1, <4>1, StepFacts
      <4>2. CASE i # j
        <5>1. i < j
          BY <2>4, <3>3, <4>2
        <5> QED
          BY <3>1, <3>3, <5>1, StepFacts DEF InSteps
      <4> QED
        BY <4>1, <4>2
    <3>5. ~Frozen(started[p][j])
      BY <1>0, <3>3, <3>4, NotFrozen
    <3>6. ~Known(<<p, j>>)
      BY <2>2, <3>1, <3>3, <3>5 DEF TookPart
    <3>7. ~Born(m, n, <<p, j>>)
      BY <2>3 DEF Born
    <3> QED
      BY <3>6, <3>7, HandledKnown
  <2> QED
    BY <1>3, <2>2, <2>4
<1> QED
  BY <1>1, <1>5, <1>6 DEF Decided

(* So all that is decided, told or executed is a decision.                 *)
LEMMA HandledDecided ==
  ASSUME TypeOK, Within, Stopped, CastOnce, InSteps, AllDecided, LeftBehind,
         NEW m \in Node, NEW n \in Node, NEW s \in Step,
         NEW w \in StepData, NEW k \in 0 .. MaxStep, NEW c \in Chans,
         Handling(m, n, s, w, k, c)
  PROVE  AllDecided'
<1>0. Handles(m, n, s, w, k, c)
  BY DEF Handling
<1>1. ASSUME w.state = "Completed"
      PROVE  Decided(s, w.msgs)'
  <2>1. ASSUME NEW x \in MsgId, NEW d \in StepData, Chooses(m, n, s, x, d, w)
        PROVE  Decided(s, w.msgs)'
    <3>1. w = Done(Msgs(d)) /\ MayCommit(d, n)
      BY <1>1, <2>1 DEF Chooses, Tally
    <3>2. Decided(s, Msgs(d))'
      BY <2>1, <3>1, ChosenDecided
    <3>3. w.msgs = Msgs(d)
      BY <3>1 DEF Done
    <3> QED
      BY <3>2, <3>3
  <2>2. CASE Follows(m, n, w)
    <3>1. chan[m][n] # <<>> /\ About(Head(chan[m][n]), Ballots, s)
      BY <1>0, <2>2, HandledStreams DEF Follows
    <3>2. 1 \in DOMAIN chan[m][n] /\ chan[m][n][1] = Head(chan[m][n])
      BY <3>1, Numbers, TailFacts
    <3>3. Decided(Head(chan[m][n]).step, Head(chan[m][n]).msgs)
      BY <2>2, <3>2 DEF AllDecided, Follows
    <3>4. w.msgs = Head(chan[m][n]).msgs /\ Head(chan[m][n]).step = s
      BY <2>2, <3>1 DEF Follows, Done, About
    <3>5. Decided(s, w.msgs) /\ w.msgs \in Batch
      BY <3>3, <3>4 DEF StepData
    <3> QED
      BY <3>5, DecidedStays
  <2> QED
    BY <2>1, <2>2 DEF Handling
<1>2. /\ \A q \in Node : q # n => steps'[q] = steps[q] /\ log'[q] = log[q]
      /\ k \in Nat
      /\ \A t \in Step : t < k => steps'[n][t] = Fresh
      /\ \A t \in Step : t >= k /\ t # s => steps'[n][t] = steps[n][t]
      /\ s >= k => steps'[n][s] = w
  BY <1>0, HandledFacts
<1>3. /\ DOMAIN log'[n] = 1 .. k /\ DOMAIN log[n] = 1 .. commiting[n]
      /\ \A i \in 1 .. commiting[n] : log'[n][i] = log[n][i]
      /\ \A i \in commiting[n] + 1 .. k :
           /\ i - 1 \in Step
           /\ IF i - 1 = s THEN w.state = "Completed" /\ log'[n][i] = w.msgs
              ELSE steps[n][i - 1].state = "Completed" /\ log'[n][i] = steps[n][i - 1].msgs
  BY <1>0, HandledLog
<1>4. ASSUME NEW q \in Node, NEW t \in Step, steps[q][t].state = "Completed",
             NEW e, e = steps[q][t].msgs
      PROVE  Decided(t, e)'
  <2>1. Decided(t, e) /\ e \in Batch
    BY <1>4, Numbers DEF AllDecided, StepData
  <2> QED
    BY <2>1, DecidedStays
<1>5. ASSUME NEW q \in Node, NEW t \in Step, steps'[q][t].state = "Completed",
             NEW e, e = steps'[q][t].msgs
      PROVE  Decided(t, e)'
  <2>1. CASE steps'[q][t] = steps[q][t]
    BY <1>4, <1>5, <2>1
  <2>2. CASE q = n /\ t < k
    BY <1>2, <1>5, <2>2, FreshFields
  <2>3. CASE q = n /\ t >= k /\ t = s
    <3>1. steps'[q][t] = w
      BY <1>2, <2>3
    <3>2. Decided(s, w.msgs)' /\ e = w.msgs /\ t = s
      BY <1>1, <1>5, <2>3, <3>1
    <3> QED
      BY <3>2
  <2> QED
    BY <1>2, <2>1, <2>2, <2>3, StepFacts
<1>6. ASSUME NEW p \in Node, NEW q \in Node, NEW i \in DOMAIN chan'[p][q],
             chan'[p][q][i].type = "commit",
             NEW t, t = chan'[p][q][i].step, NEW e, e = chan'[p][q][i].msgs
      PROVE  Decided(t, e)'
  <2>1. CASE \E j \in DOMAIN chan[p][q] : chan'[p][q][i] = chan[p][q][j]
    <3>1. PICK j \in DOMAIN chan[p][q] : chan'[p][q][i] = chan[p][q][j]
      BY <2>1
    <3>2. chan[p][q][j] \in Message
      BY Numbers
    <3>3. Decided(t, e) /\ t \in Step /\ e \in Batch
      BY <1>6, <3>1, <3>2, MessageFields DEF AllDecided
    <3> QED
      BY <3>3, DecidedStays
  <2>2. CASE Answer(n, s, w, chan'[p][q][i])
    <3>0. \A x \in MsgId : VoteMsg(s, x).type # "commit"
      BY DEF VoteMsg
    <3>1. w.state = "Completed" /\ chan'[p][q][i] = CommitMsg(s, w.msgs)
      BY <1>6, <2>2, <3>0 DEF Answer
    <3>2. t = s /\ e = w.msgs
      BY <1>6, <3>1 DEF CommitMsg
    <3> QED
      BY <1>1, <3>1, <3>2
  <2> QED
    BY <1>0, <2>1, <2>2, HandledMessages
<1>7. ASSUME NEW q \in Node, NEW i \in DOMAIN log'[q], NEW e, e = log'[q][i]
      PROVE  i - 1 \in Step /\ Decided(i - 1, e)'
  <2>1. CASE i \in DOMAIN log[q] /\ log'[q][i] = log[q][i]
    <3>1. i - 1 \in Step /\ Decided(i - 1, e)
      BY <1>7, <2>1 DEF AllDecided
    <3>2. e \in Batch
      <4>1. log[q] \in Seq(Batch) /\ DOMAIN log[q] = 1 .. Len(log[q])
        BY LenProperties DEF TypeOK
      <4> QED
        BY <1>7, <2>1, <4>1, ElementOfSeq
    <3> QED
      BY <3>1, <3>2, DecidedStays
  <2>2. CASE q = n /\ i \in commiting[n] + 1 .. k
    <3>1. i - 1 \in Step
      BY <1>3, <2>2
    <3>2. CASE i - 1 = s
      <4>1. Decided(s, w.msgs)' /\ e = w.msgs
        BY <1>1, <1>3, <1>7, <2>2, <3>2
      <4> QED
        BY <3>1, <3>2, <4>1
    <3>3. CASE i - 1 # s
      BY <1>3, <1>4, <1>7, <2>2, <3>1, <3>3
    <3> QED
      BY <3>2, <3>3
  <2> QED
    BY <1>2, <1>3, <2>1, <2>2, Numbers
<1>8. \A q \in Node : \A t \in Step :
        steps'[q][t].state = "Completed" => Decided(t, steps[q][t].msgs)'
  BY <1>5 DEF Decided
<1>9. \A p, q \in Node : \A i \in DOMAIN chan'[p][q] :
        chan'[p][q][i].type = "commit" => Decided(chan[p][q][i].step, chan[p][q][i].msgs)'
  BY <1>6 DEF Decided
<1>10. \A q \in Node : \A i \in DOMAIN log'[q] : i - 1 \in Step /\ Decided(i - 1, log[q][i])'
  BY <1>7 DEF Decided
<1> QED
  BY <1>8, <1>9, <1>10 DEF AllDecided

(* Who is out of some NodesConfig stays behind.                            *)
LEMMA HandledLeftBehind ==
  ASSUME TypeOK, Within, Stopped, LeftBehind,
         NEW m \in Node, NEW n \in Node, NEW s \in Step,
         NEW w \in StepData, NEW k \in 0 .. MaxStep, NEW c \in Chans,
         Handling(m, n, s, w, k, c)
  PROVE  LeftBehind'
<1>0. Handles(m, n, s, w, k, c) /\ Up(n) /\ config' = config
  BY DEF Handling, Handles
<1>1. /\ \A p \in Node : p # n => next'[p] = next[p]
      /\ \A p \in Node : Up(p)' <=> Up(p)
      /\ next[n] <= next'[n] /\ next[n] \in Nat /\ next'[n] \in Nat
  BY <1>0, HandledFacts
<1>2. /\ \A p \in Node : \A i \in DOMAIN started[p] :
           i \in DOMAIN started'[p] /\ started'[p][i] = started[p][i]
      /\ \A p \in Node : \A i \in DOMAIN started'[p] : i \notin DOMAIN started[p] => p = n
  BY HandledStarted
<1>3. Removed' = Removed
  BY <1>0 DEF Removed
<1>4. \A p \in Node : \A t \in Step : \A y :
        HasVote(p, t, y)' => HasVote(p, t, y) \/ p = n
  <2>1. ASSUME NEW x \in MsgId, NEW d \in StepData, Chooses(m, n, s, x, d, w)
        PROVE  \A p \in Node : \A t \in Step : \A y :
                 HasVote(p, t, y)' => HasVote(p, t, y) \/ p = n
    <3>1. \A p \in Node : \A t \in Step : \A y :
            HasVote(p, t, y)' => HasVote(p, t, y) \/ OwnFirst(n, s, x, p, t, y)
      BY <1>0, <2>1, ChosenVotes
    <3> QED
      BY <3>1 DEF OwnFirst
  <2>2. CASE Follows(m, n, w)
    <3>1. w.state = "Completed"
      BY <2>2 DEF Follows, Done
    <3> QED
      BY <1>0, <3>1, FollowedVotes
  <2> QED
    BY <2>1, <2>2 DEF Handling
<1>5. ASSUME NEW p \in Node, NEW t \in Step, TookPart(p, t)', p # n
      PROVE  TookPart(p, t)
  <2>1. CASE \E x \in MsgId : HasVote(p, t, x)'
    BY <1>4, <1>5, <2>1 DEF TookPart
  <2>2. ASSUME NEW i \in DOMAIN started'[p], started'[p][i] = t, Known(<<p, i>>)'
        PROVE  TookPart(p, t)
    <3>1. i \in DOMAIN started[p] /\ started[p][i] = t
      BY <1>2, <1>5, <2>2
    <3>2. ~Born(m, n, <<p, i>>)
      BY <1>5 DEF Born
    <3>3. Known(<<p, i>>)
      BY <2>2, <3>2, HandledKnown
    <3> QED
      BY <3>1, <3>3 DEF TookPart
  <2> QED
    BY <1>5, <2>1, <2>2 DEF TookPart
<1>6. ASSUME NEW t \in Step, Frozen(t)
      PROVE  Frozen(t)'
  <2>1. \A q \in Node : Up(q) =>
           /\ t < next[q]
           /\ \A p \in Node : \A i \in DOMAIN chan[p][q] :
                chan[p][q][i].type # "leave" => t < chan[p][q][i].step
    BY <1>6 DEF Frozen
  <2>2. \A q \in Node : Up(q)' => t < next'[q]
    BY <1>0, <1>1, <2>1, StepFacts
  <2>3. t < s
    <3>1. ~(s <= t)
      BY <1>0, <1>6, NotFrozen
    <3> QED
      BY <3>1, StepFacts
  <2>4. ASSUME NEW q \in Node, Up(q)', NEW p \in Node, NEW i \in DOMAIN chan'[p][q],
               chan'[p][q][i].type # "leave"
        PROVE  t < chan'[p][q][i].step
    <3>1. CASE \E j \in DOMAIN chan[p][q] : chan'[p][q][i] = chan[p][q][j]
      BY <1>1, <2>1, <2>4, <3>1
    <3>2. CASE Answer(n, s, w, chan'[p][q][i])
      BY <2>3, <3>2 DEF Answer, About
    <3> QED
      BY <1>0, <3>1, <3>2, HandledMessages
  <2> QED
    BY <2>2, <2>4 DEF Frozen
<1>7. ASSUME NEW p \in Removed
      PROVE  ~Up(p)' /\ \A t \in Step : TookPart(p, t)' => Frozen(t)'
  <2>1. p \in Node /\ ~Up(p) /\ \A t \in Step : TookPart(p, t) => Frozen(t)
    BY RemovedDef DEF LeftBehind
  <2>2. p # n
    BY <1>0, <2>1
  <2> QED
    BY <1>1, <1>5, <1>6, <2>1, <2>2
<1>8. ASSUME NEW p \in Node, NEW q \in Node, NEW i \in DOMAIN chan'[p][q],
             chan'[p][q][i].type = "leave"
      PROVE  chan'[p][q][i].nodes \subseteq Removed
  <2>1. CASE \E j \in DOMAIN chan[p][q] : chan'[p][q][i] = chan[p][q][j]
    BY <1>8, <2>1 DEF LeftBehind
  <2>2. ~Answer(n, s, w, chan'[p][q][i])
    BY <1>8 DEF Answer, About, Ballots
  <2> QED
    BY <1>0, <2>1, <2>2, HandledMessages
<1> QED
  BY <1>3, <1>7, <1>8 DEF LeftBehind

(* As long as nobody is, a decision is about the next step to be executed. *)
LEMMA OrderedStep ==
  ASSUME TypeOK, Within, Stopped, Told, InTurn, CastOnce, LeftBehind, CommitsInOrder,
         Removed = {}, NEW m \in Node, NEW n \in Node, NEW s \in Step,
         NEW w \in StepData, NEW k \in 0 .. MaxStep, NEW c \in Chans,
         Handling(m, n, s, w, k, c)
  PROVE  /\ w.state = "Completed" => s = commiting[n] /\ k = s + 1
         /\ w.state = "Voted" => k = commiting[n] /\ VotedNodesSet(w) # Node
         /\ m # n /\ Head(chan[m][n]).type = "commit" => w.state = "Completed"
<1>0. Handles(m, n, s, w, k, c) /\ Up(n) /\ s >= commiting[n]
  BY DEF Handling, Handles
<1>1. /\ commiting[n] <= k /\ k \in Nat /\ commiting[n] \in Nat /\ s \in Nat
      /\ \A t \in Step : commiting[n] <= t /\ t < k =>
              IF t = s THEN w.state = "Completed" ELSE steps[n][t].state = "Completed"
  BY <1>0, HandledFacts
<1>2. /\ \A t \in Step : steps[n][t].state # "Completed" /\ Voters(n, t) # Node
      /\ \A p \in Node \ {n} :
           InSequence(chan[p][n], {"commit"}, {t \in Step : t < commiting[n]})
  BY <1>0 DEF CommitsInOrder
<1>3. \A p \in Node : config[p] = Node
  BY RemovedDef DEF TypeOK
<1>4. ASSUME NEW x \in MsgId, NEW d \in StepData, Chooses(m, n, s, x, d, w)
      PROVE  /\ w.state = "Completed" => s = commiting[n]
             /\ w.state = "Voted" => VotedNodesSet(w) # Node
             /\ ~(m # n /\ Head(chan[m][n]).type = "commit")
  <2>1. /\ MayCommit(d, n) => VotedNodesSet(d) = Node
        /\ ~MayCommit(d, n) => VotedNodesSet(d) # Node
    BY <1>0, <1>3, <1>4, ChosenConfigured
  <2>2. /\ d.state = "Voted"
        /\ \/ w = d /\ ~MayCommit(d, n)
           \/ w = Done(Msgs(d)) /\ MayCommit(d, n)
    BY <1>4 DEF Chooses, Tally
  <2>3. Done(Msgs(d)).state = "Completed"
    BY DEF Done
  <2>4. ASSUME MayCommit(d, n), s # commiting[n]
        PROVE  FALSE
    <3> DEFINE t == commiting[n]
    <3>1. t \in Step /\ t < s
      BY <1>0, <1>1, <2>4, StepFacts DEF Step
    <3>2. VotedNodesSet(d) \subseteq Voters(n, s) \cup {m, n}
      <4> SUFFICES ASSUME NEW p \in VotedNodesSet(d)
                   PROVE  p \in Voters(n, s) \cup {m, n}
        OBVIOUS
      <4>1. PICK y \in MsgId : <<y, p>> \in d.votes /\ p \in Node
        BY NodesDef
      <4>2. d.votes = steps[n][s].votes \cup {<<x, m>>}
                        \cup (IF steps[n][s].state = "Initial" THEN {<<x, n>>} ELSE {})
        BY <1>4 DEF Chooses, Tally
      <4>3. CASE <<y, p>> \in steps[n][s].votes
        BY <4>1, <4>3, NodesDef, Numbers DEF Voters
      <4>4. CASE <<y, p>> \notin steps[n][s].votes
        BY <4>1, <4>2, <4>4
      <4> QED
        BY <4>3, <4>4
    <3>3. \A p \in Node : Heard(n, p, t)
      BY <1>0, <2>1, <2>4, <3>1, <3>2, HandledInTurn
    <3>4. \A p \in Node : p \in Voters(n, t)
      BY <1>1, <1>2, <3>1, <3>3 DEF Heard
    <3>5. Voters(n, t) \subseteq Node
      BY <3>1, Numbers, NodesDef DEF Voters
    <3>6. Voters(n, t) = Node
      BY <3>4, <3>5
    <3>7. Voters(n, t) # Node
      BY <1>2, <3>1
    <3> QED
      BY <3>6, <3>7
  <2>5. ~(m # n /\ Head(chan[m][n]).type = "commit")
    BY <1>4 DEF Chooses, Brings
  <2> QED
    BY <2>1, <2>2, <2>3, <2>4, <2>5
<1>5. ASSUME Follows(m, n, w)
      PROVE  w.state = "Completed" /\ s = commiting[n]
  <2>1. w.state = "Completed" /\ m # n /\ Head(chan[m][n]).type = "commit"
    BY <1>5 DEF Follows, Done
  <2>2. chan[m][n] # <<>> /\ About(Head(chan[m][n]), Ballots, s)
    BY <1>0, <2>1, HandledStreams
  <2>3. About(Head(chan[m][n]), {"commit"}, s)
    BY <2>1, <2>2 DEF About
  <2> DEFINE H == {t \in Step : t < commiting[n]}
  <2>4. InSequence(chan[m][n], {"commit"}, H)
    BY <1>2, <2>1
  <2>5. \A t \in Step : t < s => t < commiting[n]
    <3>1. \A t \in H : t < commiting[n]
      OBVIOUS
    <3> HIDE DEF H
    <3>2. \A t \in Step : t < s => t \in H
      BY <2>2, <2>3, <2>4, Numbers, StreamTail
    <3> QED
      BY <3>1, <3>2
  <2>6. ASSUME s # commiting[n]
        PROVE  FALSE
    <3>1. commiting[n] \in Step /\ commiting[n] < s
      BY <1>0, <1>1, <2>6, StepFacts DEF Step
    <3> QED
      BY <1>1, <2>5, <3>1
  <2> QED
    BY <2>1, <2>6
<1>6. /\ w.state = "Completed" => s = commiting[n]
      /\ w.state = "Voted" => VotedNodesSet(w) # Node
      /\ m # n /\ Head(chan[m][n]).type = "commit" => w.state = "Completed"
  BY <1>4, <1>5 DEF Handling
<1>7. ASSUME w.state = "Completed"
      PROVE  k = s + 1
  <2>1. k > s
    BY <1>0, <1>6, <1>7 DEF Handles
  <2>2. ASSUME s + 1 < k
        PROVE  FALSE
    <3>1. s + 1 \in Step
      BY <1>1, <2>2, StepFacts DEF Step
    <3>2. commiting[n] <= s + 1 /\ s + 1 # s
      BY <1>0, <1>1
    <3> QED
      BY <1>1, <1>2, <2>2, <3>1, <3>2
  <2> QED
    BY <1>1, <2>1, <2>2
<1>8. ASSUME w.state = "Voted", k # commiting[n]
      PROVE  FALSE
  <2>1. commiting[n] \in Step /\ commiting[n] < k
    BY <1>1, <1>8, StepFacts DEF Step
  <2>2. IF commiting[n] = s THEN w.state = "Completed"
        ELSE steps[n][commiting[n]].state = "Completed"
    BY <1>1, <2>1
  <2> QED
    BY <1>2, <1>8, <2>1, <2>2
<1> QED
  BY <1>6, <1>7, <1>8

LEMMA HandledOrder ==
  ASSUME TypeOK, Within, Stopped, Told, InTurn, CastOnce, LeftBehind, CommitsInOrder,
         NEW m \in Node, NEW n \in Node, NEW s \in Step,
         NEW w \in StepData, NEW k \in 0 .. MaxStep, NEW c \in Chans,
         Handling(m, n, s, w, k, c)
  PROVE  CommitsInOrder'
<1>0. Handles(m, n, s, w, k, c) /\ Up(n) /\ config' = config
  BY DEF Handling, Handles
<1>1. Removed' = Removed
  BY <1>0 DEF Removed
<1>2. SUFFICES ASSUME Removed = {}
               PROVE  CommitsInOrder'
  BY <1>1 DEF CommitsInOrder
<1>3. /\ w.state = "Completed" => s = commiting[n] /\ k = s + 1
      /\ w.state = "Voted" => k = commiting[n] /\ VotedNodesSet(w) # Node
      /\ m # n /\ Head(chan[m][n]).type = "commit" => w.state = "Completed"
  BY <1>2, OrderedStep
<1>4. /\ \A p \in Node : p # n => /\ steps'[p] = steps[p] /\ commiting'[p] = commiting[p]
      /\ \A p \in Node : Up(p)' <=> Up(p)
      /\ commiting'[n] = k /\ commiting[n] <= k /\ k \in Nat /\ commiting[n] \in Nat
      /\ s \in Nat
      /\ \A t \in Step : t < k => steps'[n][t] = Fresh
      /\ \A t \in Step : t >= k /\ t # s => steps'[n][t] = steps[n][t]
      /\ s >= k => steps'[n][s] = w
      /\ w.state \in {"Voted", "Completed"}
  BY <1>0, HandledFacts
<1>5. /\ m # n => /\ chan[m][n] # <<>> /\ chan'[m][n] = Tail(chan[m][n])
                  /\ About(Head(chan[m][n]), Ballots, s)
      /\ \A p, q \in Node : (p # n \/ q = n \/ ~Up(q)) /\ (m = n \/ p # m \/ q # n)
              => chan'[p][q] = chan[p][q]
      /\ \/ /\ w.state = "Voted"
            /\ \A q \in Node : q # n => chan'[n][q] = chan[n][q]
         \/ \E msg : /\ Answer(n, s, w, msg)
                     /\ \A q \in Node : q # n /\ Up(q) =>
                          chan'[n][q] = Append(chan[n][q], msg)
  BY <1>0, HandledStreams
<1>6. \A p, q \in Node : chan[p][q] \in Seq(Message)
  BY Numbers
<1>7. \A t \in Step : t \in Nat
  BY StepFacts
(* No step is completed, none has all votes. *)
<1>8. ASSUME NEW p \in Node, Up(p)', NEW t \in Step
      PROVE  steps'[p][t].state # "Completed" /\ VotedNodesSet(steps'[p][t]) # Node
  <2>1. steps[p][t].state # "Completed" /\ VotedNodesSet(steps[p][t]) # Node
    BY <1>2, <1>4, <1>8 DEF CommitsInOrder, Voters
  <2>2. CASE p = n /\ t < k
    BY <1>4, <2>2, FreshFields
  <2>3. CASE p = n /\ t >= k /\ t = s
    <3>1. w.state # "Completed"
      BY <1>3, <1>4, <2>3
    <3> QED
      BY <1>3, <1>4, <2>3, <3>1
  <2>4. CASE p # n \/ (p = n /\ t >= k /\ t # s)
    BY <1>4, <2>1, <2>4
  <2> QED
    BY <1>4, <1>7, <2>2, <2>3, <2>4
(* Who has executed a step has told it, in the order of the steps. *)
<1>9. ASSUME NEW p \in Node, NEW q \in Node, p # q, Up(q)'
      PROVE  /\ Up(p)' => \A t \in Step : t < commiting'[p] =>
                  t < commiting'[q] \/ Sent(chan'[p][q], {"commit"}, t)
             /\ InSequence(chan'[p][q], {"commit"}, {t \in Step : t < commiting'[q]})
  <2> DEFINE K == {"commit"}
             H == {t \in Step : t < commiting[q]}
             H2 == {t \in Step : t < commiting'[q]}
  <2>1. /\ Up(p) => \A t \in Step : t < commiting[p] => t \in H \/ Sent(chan[p][q], K, t)
        /\ InSequence(chan[p][q], K, H)
    BY <1>2, <1>4, <1>9 DEF CommitsInOrder
  <2>2. /\ H \subseteq H2
        /\ \A t \in Step : t \in H2 <=> t < commiting'[q]
        /\ \A t \in Step : t \in H <=> t < commiting[q]
    <3>1. commiting[q] \in Nat /\ commiting'[q] \in Nat /\ commiting[q] <= commiting'[q]
      <4>1. \A v \in Node : commiting[v] \in Nat
        BY Numbers
      <4> QED
        BY <1>4, <4>1
    <3> QED
      BY <1>7, <3>1
  <2>3. SUFFICES /\ Up(p)' => \A t \in Step : t < commiting'[p] =>
                      t \in H2 \/ Sent(chan'[p][q], K, t)
                 /\ InSequence(chan'[p][q], K, H2)
    BY <2>2
  <2> HIDE DEF H, H2
  <2>4. InSequence(chan[p][q], K, H2)
    BY <2>1, <2>2, StreamMore
  <2>5. CASE p # n /\ ~(p = m /\ q = n)
    <3>1. chan'[p][q] = chan[p][q] /\ commiting'[p] = commiting[p]
      BY <1>4, <1>5, <2>5
    <3> QED
      BY <1>4, <2>1, <2>2, <2>4, <3>1
  <2>6. CASE p # n /\ p = m /\ q = n
    <3>1. /\ chan'[p][q] = Tail(chan[p][q]) /\ commiting'[p] = commiting[p]
          /\ chan[p][q] # <<>> /\ About(Head(chan[p][q]), Ballots, s)
      BY <1>4, <1>5, <2>6
    <3>2. \A t \in Step : About(Head(chan[p][q]), K, t) => t \in H2
      <4> SUFFICES ASSUME NEW t \in Step, About(Head(chan[p][q]), K, t)
                   PROVE  t \in H2
        OBVIOUS
      <4>1. Head(chan[p][q]).type = "commit" /\ t = s
        BY <3>1 DEF About
      <4>2. w.state = "Completed"
        BY <1>3, <2>6, <4>1
      <4>3. t < commiting'[q]
        BY <1>3, <1>4, <2>6, <4>1, <4>2
      <4> QED
        BY <2>2, <4>3
    <3>3. \A t : Sent(chan[p][q], K, t) =>
            Sent(Tail(chan[p][q]), K, t) \/ About(Head(chan[p][q]), K, t)
      BY <1>6, <3>1, StreamTail
    <3>4. InSequence(Tail(chan[p][q]), K, H2)
      BY <1>6, <2>1, <2>2, <3>1, <3>2, StreamTail
    <3> QED
      BY <1>4, <2>1, <2>2, <3>1, <3>2, <3>3, <3>4
  <2>7. CASE p = n
    <3>0. q # n /\ Up(q) /\ Up(p)
      BY <1>0, <1>4, <1>9, <2>7
    <3>1. CASE w.state = "Voted" /\ \A v \in Node : v # n => chan'[n][v] = chan[n][v]
      <4>1. chan'[p][q] = chan[p][q] /\ commiting'[p] = commiting[p]
        BY <1>3, <1>4, <2>7, <3>0, <3>1
      <4> QED
        BY <2>1, <2>2, <2>4, <3>0, <4>1
    <3>2. ASSUME NEW msg, Answer(n, s, w, msg),
                 \A v \in Node : v # n /\ Up(v) => chan'[n][v] = Append(chan[n][v], msg)
          PROVE  /\ Up(p)' => \A t \in Step : t < commiting'[p] =>
                      t \in H2 \/ Sent(chan'[p][q], K, t)
                 /\ InSequence(chan'[p][q], K, H2)
      <4>1. chan'[p][q] = Append(chan[p][q], msg) /\ msg \in Message
        BY <2>7, <3>0, <3>2 DEF Answer
      <4>2. /\ \A t : Sent(chan[p][q], K, t) => Sent(Append(chan[p][q], msg), K, t)
            /\ \A t : About(msg, K, t) => Sent(Append(chan[p][q], msg), K, t)
        BY <1>6, <4>1, StreamAppend
      <4>3. w.state = "Completed" => About(msg, K, s)
        BY <3>2 DEF Answer, About, CommitMsg
      <4>4. \A t \in Step : About(msg, K, t) => t = s /\ w.state = "Completed"
        <5>1. \A x \in MsgId : VoteMsg(s, x).type # "commit"
          BY DEF VoteMsg
        <5> QED
          BY <3>2, <5>1 DEF Answer, About
      <4>5. \A t \in Step : t < commiting'[p] => t \in H2 \/ Sent(chan'[p][q], K, t)
        <5> SUFFICES ASSUME NEW t \in Step, t < commiting'[p]
                     PROVE  t \in H2 \/ Sent(chan'[p][q], K, t)
          OBVIOUS
        <5>1. CASE t < commiting[p]
          BY <2>1, <2>2, <3>0, <4>1, <4>2, <5>1
        <5>2. CASE ~(t < commiting[p])
          <6>1. w.state = "Completed" /\ t = s
            BY <1>3, <1>4, <1>7, <2>7, <5>2
          <6> QED
            BY <4>1, <4>2, <4>3, <6>1
        <5> QED
          BY <5>1, <5>2
      <4>6. \A r, t \in Step : About(msg, K, r) /\ t < r => t \in H2 \/ Sent(chan[p][q], K, t)
        <5> SUFFICES ASSUME NEW r \in Step, NEW t \in Step, About(msg, K, r), t < r
                     PROVE  t \in H2 \/ Sent(chan[p][q], K, t)
          OBVIOUS
        <5>1. t < commiting[p]
          BY <1>3, <2>7, <4>4
        <5> QED
          BY <2>1, <2>2, <3>0, <5>1
      <4>7. InSequence(Append(chan[p][q], msg), K, H2)
        BY <1>6, <2>4, <4>1, <4>6, StreamAppend
      <4> QED
        BY <4>1, <4>5, <4>7
    <3> QED
      BY <1>5, <3>1, <3>2
  <2> QED
    BY <2>5, <2>6, <2>7
<1> QED
  BY <1>8, <1>9 DEF CommitsInOrder, Voters

(* Together.                                                               *)
LEMMA HandledCore ==
  ASSUME Core, NEW m \in Node, NEW n \in Node, NEW s \in Step,
         NEW w \in StepData, NEW k \in 0 .. MaxStep, NEW c \in Chans,
         Handling(m, n, s, w, k, c)
  PROVE  Core'
<1>1. /\ TypeOK /\ Within /\ Stopped /\ Told /\ InTurn
      /\ CastOnce /\ InSteps /\ AllDecided /\ LeftBehind /\ CommitsInOrder
  BY DEF Core
<1>2. Handles(m, n, s, w, k, c)
  BY DEF Handling
<1>3. TypeOK' /\ Within' /\ Stopped'
  BY <1>1, <1>2, HandledTypes, HandledWithin, HandledStopped
<1>4. Told' /\ InTurn'
  BY <1>1, <1>2, HandledTold, HandledInTurn
<1>5. CastOnce' /\ InSteps' /\ AllDecided'
  BY <1>1, HandledCastOnce, HandledInSteps, HandledDecided
<1>6. LeftBehind' /\ CommitsInOrder'
  BY <1>1, HandledLeftBehind, HandledOrder
<1> QED
  BY <1>3, <1>4, <1>5, <1>6 DEF Core

-----------------------------------------------------------------------------
(* Steps in which nothing is voted or decided: messages are dropped, told  *)
(* again or lost, and processes stop.                                      *)
Quiet ==
  /\ UNCHANGED <<next, started, log>>
  /\ \A p \in Node : Up(p)' => Up(p)
  /\ \A p \in Node : steps'[p] = steps[p] \/ steps'[p] = [t \in Step |-> Fresh]
  /\ \A p, q \in Node : \A i \in DOMAIN chan'[p][q] :
       \/ chan'[p][q][i].type = "leave"
       \/ \E j \in DOMAIN chan[p][q] : chan'[p][q][i] = chan[p][q][j]

LEMMA QuietKnown ==
  ASSUME Quiet
  PROVE  /\ \A p \in Node : \A t \in Step : \A y : HasVote(p, t, y)' => HasVote(p, t, y)
         /\ \A y : Known(y)' => Known(y)
<1>1. ASSUME NEW q \in Node, NEW t \in Step
      PROVE  /\ steps'[q][t].votes \subseteq steps[q][t].votes
             /\ steps'[q][t].msgs \subseteq steps[q][t].msgs
  BY FreshFields DEF Quiet
<1>2. \A p, q \in Node : \A i \in DOMAIN chan'[p][q] : chan'[p][q][i].type # "leave" =>
        \E j \in DOMAIN chan[p][q] : chan'[p][q][i] = chan[p][q][j]
  BY DEF Quiet
<1>3. \A p \in Node : \A t \in Step : \A y : HasVote(p, t, y)' => HasVote(p, t, y)
  <2> SUFFICES ASSUME NEW p \in Node, NEW t \in Step, NEW y, HasVote(p, t, y)'
               PROVE  HasVote(p, t, y)
    OBVIOUS
  <2>1. CASE \E q \in Node : <<y, p>> \in steps'[q][t].votes
    BY <1>1, <2>1 DEF HasVote
  <2>2. ASSUME NEW q \in Node, NEW i \in DOMAIN chan'[p][q],
               About(chan'[p][q][i], {"vote"}, t), y \in chan'[p][q][i].msgs
        PROVE  HasVote(p, t, y)
    <3>1. chan'[p][q][i].type # "leave"
      BY <2>2 DEF About
    <3>2. PICK j \in DOMAIN chan[p][q] : chan'[p][q][i] = chan[p][q][j]
      BY <1>2, <3>1
    <3> QED
      BY <2>2, <3>2 DEF HasVote
  <2> QED
    BY <2>1, <2>2 DEF HasVote
<1>4. ASSUME NEW y, Known(y)'
      PROVE  Known(y)
  <2>1. CASE \E q \in Node : \E t \in Step :
               y \in steps'[q][t].msgs \/ \E p \in Node : <<y, p>> \in steps'[q][t].votes
    BY <1>1, <2>1 DEF Known
  <2>2. CASE \E p, q \in Node : \E i \in DOMAIN chan'[p][q] :
               chan'[p][q][i].type # "leave" /\ y \in chan'[p][q][i].msgs
    BY <1>2, <2>2 DEF Known
  <2>3. CASE \E q \in Node : \E i \in DOMAIN log'[q] : y \in log'[q][i]
    BY <2>3 DEF Known, Quiet
  <2> QED
    BY <1>4, <2>1, <2>2, <2>3 DEF Known
<1> QED
  BY <1>3, <1>4

LEMMA QuietDecided ==
  ASSUME Quiet, NEW t, NEW batch, Decided(t, batch)
  PROVE  Decided(t, batch)'
<1>1. /\ \A x \in batch : ProposedIn(x, t)
      /\ \A p \in Node : Up(p) => t < next[p]
      /\ \A p \in Node : \A i \in DOMAIN started[p] :
           started[p][i] = t /\ <<p, i>> \notin batch =>
             ~Up(p) /\ \A j \in DOMAIN started[p] : i <= j => ~Known(<<p, j>>)
  BY DEF Decided
<1>2. next' = next /\ started' = started /\ \A p \in Node : Up(p)' => Up(p)
  BY DEF Quiet
<1>3. \A x \in batch : ProposedIn(x, t)'
  BY <1>1, <1>2 DEF ProposedIn
<1>4. \A p \in Node : Up(p)' => t < next'[p]
  BY <1>1, <1>2
<1>5. \A p \in Node : \A i \in DOMAIN started'[p] :
        started'[p][i] = t /\ <<p, i>> \notin batch =>
          ~Up(p)' /\ \A j \in DOMAIN started'[p] : i <= j => ~Known(<<p, j>>)'
  BY <1>1, <1>2, QuietKnown
<1> QED
  BY <1>3, <1>4, <1>5 DEF Decided

LEMMA QuietKeeps ==
  ASSUME TypeOK, CastOnce, InSteps, AllDecided, Quiet
  PROVE  /\ CastOnce' /\ InSteps' /\ AllDecided'
         /\ \A t \in Step : Frozen(t) => Frozen(t)'
         /\ \A p \in Node : \A t \in Step : TookPart(p, t)' => TookPart(p, t)
<1>1. /\ next' = next /\ started' = started /\ log' = log
      /\ \A p \in Node : Up(p)' => Up(p)
      /\ \A p \in Node : steps'[p] = steps[p] \/ steps'[p] = [t \in Step |-> Fresh]
      /\ \A p, q \in Node : \A i \in DOMAIN chan'[p][q] : chan'[p][q][i].type # "leave" =>
           \E j \in DOMAIN chan[p][q] : chan'[p][q][i] = chan[p][q][j]
  BY DEF Quiet
<1>2. /\ \A p \in Node : \A t \in Step : \A y : HasVote(p, t, y)' => HasVote(p, t, y)
      /\ \A y : Known(y)' => Known(y)
  BY QuietKnown
<1>3. CastOnce'
  <2> SUFFICES ASSUME NEW p \in Node, NEW t \in Step, NEW x \in MsgId, HasVote(p, t, x)'
               PROVE  /\ \A y \in MsgId : HasVote(p, t, y)' => x = y
                      /\ t < next'[p]
                      /\ ProposedIn(x, t)'
                      /\ \A i \in DOMAIN started'[p] : started'[p][i] = t => x = <<p, i>>
    BY DEF CastOnce
  <2>1. /\ \A y \in MsgId : HasVote(p, t, y) => x = y
        /\ t < next[p]
        /\ ProposedIn(x, t)
        /\ \A i \in DOMAIN started[p] : started[p][i] = t => x = <<p, i>>
    BY <1>2 DEF CastOnce
  <2>2. ProposedIn(x, t)'
    BY <1>1, <2>1 DEF ProposedIn
  <2> QED
    BY <1>1, <1>2, <2>1, <2>2
<1>4. InSteps'
  BY <1>1 DEF InSteps
<1>5. ASSUME NEW q \in Node, NEW t \in Step, steps'[q][t].state = "Completed",
             NEW e, e = steps'[q][t].msgs
      PROVE  Decided(t, e)'
  <2>1. steps'[q] = steps[q]
    BY <1>1, <1>5, FreshFields
  <2>2. Decided(t, e)
    BY <1>5, <2>1 DEF AllDecided
  <2> QED
    BY <2>2, QuietDecided
<1>6. ASSUME NEW p \in Node, NEW q \in Node, NEW i \in DOMAIN chan'[p][q],
             chan'[p][q][i].type = "commit",
             NEW t, t = chan'[p][q][i].step, NEW e, e = chan'[p][q][i].msgs
      PROVE  Decided(t, e)'
  <2>1. PICK j \in DOMAIN chan[p][q] : chan'[p][q][i] = chan[p][q][j]
    BY <1>1, <1>6
  <2>2. Decided(t, e)
    BY <1>6, <2>1 DEF AllDecided
  <2> QED
    BY <2>2, QuietDecided
<1>7. ASSUME NEW q \in Node, NEW i \in DOMAIN log'[q], NEW e, e = log'[q][i]
      PROVE  i - 1 \in Step /\ Decided(i - 1, e)'
  <2>1. i - 1 \in Step /\ Decided(i - 1, e)
    BY <1>1, <1>7 DEF AllDecided
  <2> QED
    BY <2>1, QuietDecided
<1>8. AllDecided'
  <2>1. \A q \in Node : \A t \in Step :
          steps'[q][t].state = "Completed" => Decided(t, steps[q][t].msgs)'
    BY <1>5 DEF Decided
  <2>2. \A p, q \in Node : \A i \in DOMAIN chan'[p][q] :
          chan'[p][q][i].type = "commit" => Decided(chan[p][q][i].step, chan[p][q][i].msgs)'
    BY <1>6 DEF Decided
  <2>3. \A q \in Node : \A i \in DOMAIN log'[q] : i - 1 \in Step /\ Decided(i - 1, log[q][i])'
    BY <1>7 DEF Decided
  <2> QED
    BY <2>1, <2>2, <2>3 DEF AllDecided
<1>9. ASSUME NEW t \in Step, Frozen(t)
      PROVE  Frozen(t)'
  <2>1. ASSUME NEW q \in Node, Up(q)'
        PROVE  /\ t < next'[q]
               /\ \A p \in Node : \A i \in DOMAIN chan'[p][q] :
                    chan'[p][q][i].type # "leave" => t < chan'[p][q][i].step
    <3>1. /\ t < next[q]
          /\ \A p \in Node : \A i \in DOMAIN chan[p][q] :
                    chan[p][q][i].type # "leave" => t < chan[p][q][i].step
      BY <1>1, <1>9, <2>1 DEF Frozen
    <3> QED
      BY <1>1, <3>1
  <2> QED
    BY <2>1 DEF Frozen
<1>10. ASSUME NEW p \in Node, NEW t \in Step, TookPart(p, t)'
       PROVE  TookPart(p, t)
  <2>1. CASE \E x \in MsgId : HasVote(p, t, x)'
    BY <1>2, <2>1 DEF TookPart
  <2>2. CASE \E i \in DOMAIN started'[p] : started'[p][i] = t /\ Known(<<p, i>>)'
    BY <1>1, <1>2, <2>2 DEF TookPart
  <2> QED
    BY <1>10, <2>1, <2>2 DEF TookPart
<1> QED
  BY <1>3, <1>4, <1>8, <1>9, <1>10

(* Processes of some NodesConfig are found to have stopped.  There is      *)
(* nothing left in the streams to them, and the others are told.           *)
LEMMA DisconnectTells ==
  ASSUME TypeOK, LeftBehind, NEW n \in Node, NEW c \in Chans, NEW nodes \in SUBSET Node,
         \A p \in nodes \cap config[n] : ~Up(p) /\ c[n][p] = <<>>,
         DisconnectNodes(n, nodes, c), UNCHANGED mode
  PROVE  /\ config' = [config EXCEPT ![n] = @ \ (nodes \cap config[n])]
         /\ \/ nodes \cap config[n] = {} /\ chan' = c
            \/ Writes(n, c, LeaveMsg(nodes \cap config[n]))
<1> DEFINE gone == nodes \cap config[n]
<1>1. /\ config' = [config EXCEPT ![n] = @ \ gone]
      /\ \E out \in Closed(c, n, gone) :
           chan' = IF gone = {} THEN c
                ELSE Broadcast([c EXCEPT ![n] = out], n, LeaveMsg(gone))
  BY DEF DisconnectNodes
<1>2. CASE gone = {}
  BY <1>1, <1>2
<1>3. CASE gone # {}
  <2>1. PICK out \in Closed(c, n, gone) :
          chan' = Broadcast([c EXCEPT ![n] = out], n, LeaveMsg(gone))
    BY <1>1, <1>3
  <2>2. /\ out \in [Node -> Seq(Message)]
        /\ \A q \in Node : q \notin gone => out[q] = c[n][q]
        /\ \A q \in Node : c[n][q] = <<>> => out[q] = <<>>
    BY ClosedFacts
  <2>3. \A q \in Node : out[q] = c[n][q]
    BY <2>2
  <2>4. out = c[n]
    BY <2>2, <2>3 DEF Chans
  <2>5. [c EXCEPT ![n] = out] = c
    BY <2>4 DEF Chans
  <2>6. \A q \in Node : Up(q) => q \in config'[n]
    BY <1>1, UpConfigured DEF TypeOK
  <2>7. LeaveMsg(gone) \in Message
    BY MessageTypes
  <2>8. chan' = Broadcast(c, n, LeaveMsg(gone))
    BY <2>1, <2>5
  <2>9. Writes(n, c, LeaveMsg(gone))
    BY <2>6, <2>7, <2>8, BroadcastWrites
  <2> QED
    BY <1>1, <2>9
<1> QED
  BY <1>1, <1>2, <1>3

(* A message that is late or a farewell is read, or a timer expires.       *)
Passive(m, n, c, gone) ==
  /\ Up(n) /\ UNCHANGED <<mode, next, commiting, steps, started, log>>
  /\ timer' \in [Node -> [Step -> BOOLEAN]]
  /\ \A p \in Node : \A t \in Step : timer'[p][t] => timer[p][t]
  /\ gone \subseteq config[n]
  /\ \A p \in gone : ~Up(p) /\ \A t \in Step : TookPart(p, t) => Frozen(t)
  /\ config' = [config EXCEPT ![n] = @ \ gone]
  /\ \/ c = chan
     \/ /\ m # n /\ Receives(m, n) /\ c = Popped(m, n)
        /\ \A t \in Step : About(Head(chan[m][n]), Ballots, t) =>
             t < commiting[n] \/ steps[n][t].state = "Completed"
  /\ \/ gone = {} /\ chan' = c
     \/ Writes(n, c, LeaveMsg(gone))

LEMMA PassiveStreams ==
  ASSUME TypeOK, NEW m \in Node, NEW n \in Node, NEW c \in Chans, NEW gone,
         Passive(m, n, c, gone)
  PROVE  /\ chan' \in Chans
         /\ \A p, q \in Node :
              \/ chan'[p][q] = chan[p][q]
              \/ /\ p = m /\ q = n /\ m # n
                 /\ chan[p][q] # <<>> /\ chan'[p][q] = Tail(chan[p][q])
                 /\ \A t \in Step : About(Head(chan[p][q]), Ballots, t) =>
                      t < commiting[q] \/ steps[q][t].state = "Completed"
              \/ /\ p = n /\ q # n /\ Up(q) /\ LeaveMsg(gone) \in Message
                 /\ chan'[p][q] = Append(chan[p][q], LeaveMsg(gone))
<1>1. CASE c = chan
  BY <1>1 DEF Passive, Writes
<1>2. CASE /\ m # n /\ Receives(m, n) /\ c = Popped(m, n)
           /\ \A t \in Step : About(Head(chan[m][n]), Ballots, t) =>
                t < commiting[n] \/ steps[n][t].state = "Completed"
  <2>1. /\ chan[m][n] # <<>>
        /\ \A p, q \in Node : c[p][q] =
              IF p = m /\ q = n THEN Tail(chan[p][q]) ELSE chan[p][q]
    BY <1>2, PoppedType
  <2>2. /\ chan' \in Chans
        /\ \/ \A p, q \in Node : chan'[p][q] = c[p][q]
           \/ /\ LeaveMsg(gone) \in Message
              /\ \A p, q \in Node : chan'[p][q] =
                   IF p = n /\ q # n /\ Up(q) THEN Append(c[p][q], LeaveMsg(gone)) ELSE c[p][q]
    BY DEF Passive, Writes
  <2>3. ASSUME NEW p \in Node, NEW q \in Node
        PROVE  \/ chan'[p][q] = chan[p][q]
               \/ /\ p = m /\ q = n /\ m # n
                  /\ chan[p][q] # <<>> /\ chan'[p][q] = Tail(chan[p][q])
                  /\ \A t \in Step : About(Head(chan[p][q]), Ballots, t) =>
                       t < commiting[q] \/ steps[q][t].state = "Completed"
               \/ /\ p = n /\ q # n /\ Up(q) /\ LeaveMsg(gone) \in Message
                  /\ chan'[p][q] = Append(chan[p][q], LeaveMsg(gone))
    <3>1. CASE p = m /\ q = n
      <4>1. c[p][q] = Tail(chan[p][q]) /\ chan'[p][q] = c[p][q]
        BY <1>2, <2>1, <2>2, <3>1
      <4> QED
        BY <1>2, <2>1, <3>1, <4>1
    <3>2. CASE ~(p = m /\ q = n)
      <4>1. c[p][q] = chan[p][q]
        BY <2>1, <3>2
      <4> QED
        BY <2>2, <4>1
    <3> QED
      BY <3>1, <3>2
  <2> QED
    BY <2>2, <2>3
<1> QED
  BY <1>1, <1>2 DEF Passive

LEMMA PassiveKeeps ==
  ASSUME TypeOK, NEW m \in Node, NEW n \in Node, NEW c \in Chans, NEW gone,
         Passive(m, n, c, gone), NEW p \in Node, NEW q \in Node,
         NEW kinds, kinds \subseteq Ballots, NEW H, InSequence(chan[p][q], kinds, H),
         \A t \in Step : t < commiting[q] \/ steps[q][t].state = "Completed" => t \in H
  PROVE  /\ InSequence(chan'[p][q], kinds, H)
         /\ \A t \in Step : Sent(chan[p][q], kinds, t) => t \in H \/ Sent(chan'[p][q], kinds, t)
<1>1. chan[p][q] \in Seq(Message)
  BY Numbers
<1>2. CASE chan'[p][q] = chan[p][q]
  BY <1>2
<1>3. CASE /\ chan[p][q] # <<>> /\ chan'[p][q] = Tail(chan[p][q])
           /\ \A t \in Step : About(Head(chan[p][q]), Ballots, t) =>
                t < commiting[q] \/ steps[q][t].state = "Completed"
  <2>1. \A t \in Step : About(Head(chan[p][q]), kinds, t) => t \in H
    BY <1>3 DEF About
  <2>2. H \subseteq H
    OBVIOUS
  <2> QED
    BY <1>1, <1>3, <2>1, <2>2, StreamTail
<1>4. CASE /\ LeaveMsg(gone) \in Message
           /\ chan'[p][q] = Append(chan[p][q], LeaveMsg(gone))
  <2>1. \A t : ~About(LeaveMsg(gone), kinds, t)
    BY DEF About, Ballots, LeaveMsg
  <2> DEFINE msg == LeaveMsg(gone)
  <2>2. msg \in Message /\ chan'[p][q] = Append(chan[p][q], msg) /\ \A t : ~About(msg, kinds, t)
    BY <1>4, <2>1
  <2> HIDE DEF msg
  <2> QED
    BY <1>1, <2>2, StreamAppend
<1> QED
  BY <1>2, <1>3, <1>4, PassiveStreams

LEMMA PassiveQuiet ==
  ASSUME TypeOK, NEW m \in Node, NEW n \in Node, NEW c \in Chans, NEW gone,
         Passive(m, n, c, gone)
  PROVE  /\ Quiet
         /\ \A p, q \in Node : \A i \in DOMAIN chan'[p][q] :
              \/ chan'[p][q][i] = LeaveMsg(gone)
              \/ \E j \in DOMAIN chan[p][q] : chan'[p][q][i] = chan[p][q][j]
<1>1. ASSUME NEW p \in Node, NEW q \in Node, NEW i \in DOMAIN chan'[p][q]
      PROVE  \/ chan'[p][q][i] = LeaveMsg(gone)
             \/ \E j \in DOMAIN chan[p][q] : chan'[p][q][i] = chan[p][q][j]
  <2>0. chan[p][q] \in Seq(Message)
    BY Numbers
  <2>1. CASE chan'[p][q] = chan[p][q]
    BY <2>1
  <2>2. CASE chan[p][q] # <<>> /\ chan'[p][q] = Tail(chan[p][q])
    <3>1. i + 1 \in DOMAIN chan[p][q] /\ chan'[p][q][i] = chan[p][q][i + 1]
      BY <2>0, <2>2, TailFacts
    <3> QED
      BY <3>1
  <2>3. CASE /\ LeaveMsg(gone) \in Message
             /\ chan'[p][q] = Append(chan[p][q], LeaveMsg(gone))
    <3> DEFINE msg == LeaveMsg(gone)
    <3>1. msg \in Message /\ chan'[p][q] = Append(chan[p][q], msg)
      BY <2>3
    <3>2. SUFFICES \/ chan'[p][q][i] = msg
                   \/ \E j \in DOMAIN chan[p][q] : chan'[p][q][i] = chan[p][q][j]
      OBVIOUS
    <3> HIDE DEF msg
    <3>3. /\ Len(chan[p][q]) \in Nat
          /\ DOMAIN chan[p][q] = 1 .. Len(chan[p][q])
          /\ DOMAIN chan'[p][q] = 1 .. Len(chan[p][q]) + 1
          /\ chan'[p][q][Len(chan[p][q]) + 1] = msg
          /\ \A j \in DOMAIN chan[p][q] : chan'[p][q][j] = chan[p][q][j]
      BY <2>0, <3>1, AppendFacts
    <3>4. i \in DOMAIN chan[p][q] \/ i = Len(chan[p][q]) + 1
      BY <3>3
    <3> QED
      BY <3>3, <3>4
  <2> QED
    BY <2>1, <2>2, <2>3, PassiveStreams
<1>2. LeaveMsg(gone).type = "leave"
  BY DEF LeaveMsg
<1>3. \A p, q \in Node : \A i \in DOMAIN chan'[p][q] :
        \/ chan'[p][q][i].type = "leave"
        \/ \E j \in DOMAIN chan[p][q] : chan'[p][q][i] = chan[p][q][j]
  BY <1>1, <1>2
<1>4. /\ UNCHANGED <<next, started, log>>
      /\ \A p \in Node : Up(p)' => Up(p)
      /\ \A p \in Node : steps'[p] = steps[p]
  BY DEF Passive, Up
<1>5. Quiet
  BY <1>3, <1>4 DEF Quiet
<1> QED
  BY <1>1, <1>5

LEMMA PassiveCore ==
  ASSUME Core, NEW m \in Node, NEW n \in Node, NEW c \in Chans, NEW gone,
         Passive(m, n, c, gone)
  PROVE  Core'
<1>1. /\ TypeOK /\ Within /\ Stopped /\ Told /\ InTurn
      /\ CastOnce /\ InSteps /\ AllDecided /\ LeftBehind /\ CommitsInOrder
  BY DEF Core
<1>2. /\ Up(n) /\ mode' = mode /\ next' = next /\ commiting' = commiting /\ steps' = steps
      /\ started' = started /\ log' = log
      /\ timer' \in [Node -> [Step -> BOOLEAN]]
      /\ \A p \in Node : \A t \in Step : timer'[p][t] => timer[p][t]
      /\ gone \subseteq config[n]
      /\ \A p \in gone : ~Up(p) /\ \A t \in Step : TookPart(p, t) => Frozen(t)
      /\ config' = [config EXCEPT ![n] = @ \ gone]
  BY DEF Passive
<1>3. /\ chan' \in Chans
      /\ \A p, q \in Node :
              \/ chan'[p][q] = chan[p][q]
              \/ p = m /\ q = n /\ m # n
              \/ p = n /\ q # n /\ Up(q)
  BY <1>1, PassiveStreams
<1>4. TypeOK'
  BY <1>1, <1>2, <1>3 DEF TypeOK, Chans
<1>5. \A p \in Node : Up(p)' <=> Up(p)
  BY <1>2 DEF Up
<1>6. Within'
  BY <1>1, <1>2, <1>5 DEF Within, Voters
<1>7. Stopped'
  BY <1>1, <1>2, <1>3, <1>5 DEF Stopped
<1>8. \A p, q \in Node : \A t \in Step : Heard(q, p, t)' <=> Heard(q, p, t)
  BY <1>2 DEF Heard, Voters
<1>9. Told'
  <2> SUFFICES ASSUME NEW p \in Node, NEW q \in Node, Up(q)', p # q
               PROVE  /\ Up(p)' => \A t \in Step : t < next'[p] =>
                           Heard(q, p, t)' \/ Sent(chan'[p][q], Ballots, t)
                      /\ InSequence(chan'[p][q], Ballots, {t \in Step : Heard(q, p, t)'})
    BY DEF Told
  <2> DEFINE H == {t \in Step : Heard(q, p, t)}
  <2>1. /\ Up(p) => \A t \in Step : t < next[p] => t \in H \/ Sent(chan[p][q], Ballots, t)
        /\ InSequence(chan[p][q], Ballots, H)
    BY <1>1, <1>5 DEF Told
  <2>2. \A t \in Step : t < commiting[q] \/ steps[q][t].state = "Completed" => t \in H
    BY DEF Heard
  <2>3. {t \in Step : Heard(q, p, t)'} = H /\ \A t \in Step : t \in H <=> Heard(q, p, t)'
    BY <1>8
  <2> HIDE DEF H
  <2>4. /\ InSequence(chan'[p][q], Ballots, H)
        /\ \A t \in Step : Sent(chan[p][q], Ballots, t) => t \in H \/ Sent(chan'[p][q], Ballots, t)
    BY <1>1, <2>1, <2>2, PassiveKeeps
  <2>5. \A t \in Step : t \in H \/ Sent(chan[p][q], Ballots, t) =>
          Heard(q, p, t)' \/ Sent(chan'[p][q], Ballots, t)
    BY <2>3, <2>4
  <2>6. Up(p)' => \A t \in Step : t < next'[p] =>
          Heard(q, p, t)' \/ Sent(chan'[p][q], Ballots, t)
    BY <1>2, <1>5, <2>1, <2>5
  <2> QED
    BY <2>3, <2>4, <2>6
<1>10. InTurn'
  BY <1>1, <1>2, <1>8 DEF InTurn, Voters
<1>11. Quiet
  BY <1>1, PassiveQuiet
<1>12. /\ CastOnce' /\ InSteps' /\ AllDecided'
       /\ \A t \in Step : Frozen(t) => Frozen(t)'
       /\ \A p \in Node : \A t \in Step : TookPart(p, t)' => TookPart(p, t)
  BY <1>1, <1>11, QuietKeeps
<1>13. Removed' = Removed \cup gone
  <2>1. gone \subseteq Node
    BY <1>1, <1>2 DEF TypeOK
  <2>2. \A p \in Node : p \in Removed' <=> \E r \in Node : p \notin config'[r]
    BY DEF Removed
  <2>3. \A p, r \in Node : p \in config'[r] <=> p \in config[r] /\ ~(r = n /\ p \in gone)
    BY <1>1, <1>2 DEF TypeOK
  <2>4. \A p \in Node : p \in Removed' <=> p \in Removed \cup gone
    BY <2>2, <2>3, RemovedDef
  <2>5. Removed' \subseteq Node /\ Removed \subseteq Node
    BY DEF Removed
  <2> QED
    BY <2>1, <2>4, <2>5
<1>14. LeftBehind'
  <2>1. ASSUME NEW p \in Removed'
        PROVE  ~Up(p)' /\ \A t \in Step : TookPart(p, t)' => Frozen(t)'
    <3>1. p \in Node /\ ~Up(p) /\ \A t \in Step : TookPart(p, t) => Frozen(t)
      BY <1>1, <1>2, <1>13, <2>1, RemovedDef DEF LeftBehind, TypeOK
    <3> QED
      BY <1>5, <1>12, <3>1
  <2>2. ASSUME NEW p \in Node, NEW q \in Node, NEW i \in DOMAIN chan'[p][q],
               chan'[p][q][i].type = "leave"
        PROVE  chan'[p][q][i].nodes \subseteq Removed'
    <3>1. CASE chan'[p][q][i] = LeaveMsg(gone)
      BY <1>13, <3>1 DEF LeaveMsg
    <3>2. CASE \E j \in DOMAIN chan[p][q] : chan'[p][q][i] = chan[p][q][j]
      <4>1. chan'[p][q][i].nodes \subseteq Removed
        BY <1>1, <2>2, <3>2 DEF LeftBehind
      <4> QED
        BY <1>13, <4>1
    <3> QED
      BY <1>1, <3>1, <3>2, PassiveQuiet
  <2> QED
    BY <2>1, <2>2 DEF LeftBehind
<1>15. CommitsInOrder'
  <2> SUFFICES ASSUME Removed' = {}
               PROVE  CommitsInOrder'
    BY DEF CommitsInOrder
  <2>1. Removed = {}
    BY <1>13
  <2>2. ASSUME NEW q \in Node, Up(q)'
        PROVE  /\ \A t \in Step : steps'[q][t].state # "Completed" /\ VotedNodesSet(steps'[q][t]) # Node
               /\ \A p \in Node \ {q} :
                    /\ Up(p)' => \A t \in Step : t < commiting'[p] =>
                          t < commiting'[q] \/ Sent(chan'[p][q], {"commit"}, t)
                    /\ InSequence(chan'[p][q], {"commit"}, {t \in Step : t < commiting'[q]})
    <3>1. /\ \A t \in Step : steps[q][t].state # "Completed" /\ VotedNodesSet(steps[q][t]) # Node
          /\ \A p \in Node \ {q} :
               /\ Up(p) => \A t \in Step : t < commiting[p] =>
                     t < commiting[q] \/ Sent(chan[p][q], {"commit"}, t)
               /\ InSequence(chan[p][q], {"commit"}, {t \in Step : t < commiting[q]})
      BY <1>1, <1>5, <2>1, <2>2 DEF CommitsInOrder, Voters
    <3>2. ASSUME NEW p \in Node \ {q}
          PROVE  /\ Up(p)' => \A t \in Step : t < commiting'[p] =>
                          t < commiting'[q] \/ Sent(chan'[p][q], {"commit"}, t)
                 /\ InSequence(chan'[p][q], {"commit"}, {t \in Step : t < commiting'[q]})
      <4> DEFINE H == {t \in Step : t < commiting[q]}
                 K == {"commit"}
      <4>1. /\ \A t \in Step : t \in H <=> t < commiting[q]
            /\ H = {t \in Step : t < commiting'[q]}
            /\ InSequence(chan[p][q], K, H)
            /\ K \subseteq Ballots
        BY <1>2, <3>1 DEF Ballots
      <4> HIDE DEF H, K
      <4>2. \A t \in Step : t < commiting[q] \/ steps[q][t].state = "Completed" => t \in H
        BY <3>1, <4>1
      <4>3. /\ InSequence(chan'[p][q], K, H)
            /\ \A t \in Step : Sent(chan[p][q], K, t) => t \in H \/ Sent(chan'[p][q], K, t)
        BY <1>1, <4>1, <4>2, PassiveKeeps
      <4>4. Up(p)' => \A t \in Step : t < commiting'[p] =>
                          t < commiting'[q] \/ Sent(chan'[p][q], K, t)
        BY <1>2, <1>5, <3>1, <4>1, <4>3 DEF K
      <4> QED
        BY <4>1, <4>3, <4>4 DEF K
    <3> QED
      BY <1>2, <3>1, <3>2
  <2> QED
    BY <2>2 DEF CommitsInOrder, Voters
<1> QED
  BY <1>4, <1>6, <1>7, <1>9, <1>10, <1>12, <1>14, <1>15 DEF Core

(* A message for a step that is decided here, and the news that somebody   *)
(* has left, change nothing.                                               *)
LEMMA StaleCore ==
  ASSUME Core, NEW m \in Node, NEW n \in Node, RecvStale(m, n)
  PROVE  Core'
<1>1. TypeOK /\ Stopped
  BY DEF Core
<1>2. /\ Receives(m, n)
      /\ Head(chan[m][n]).type \in {"vote", "commit"}
      /\ ~HasStep(n, Head(chan[m][n]).step)
      /\ chan' = Popped(m, n)
      /\ UNCHANGED <<mode, config, next, commiting, steps, timer, started, log>>
  BY DEF RecvStale
<1>3. Popped(m, n) \in Chans /\ Head(chan[m][n]) \in Message /\ chan[m][n] # <<>>
  BY <1>1, <1>2, PoppedType
<1>4. Up(n) /\ m # n
  BY <1>1, <1>2, <1>3 DEF Receives, Up, Stopped
<1>5. \A t \in Step : About(Head(chan[m][n]), Ballots, t) =>
        t < commiting[n] \/ steps[n][t].state = "Completed"
  BY <1>1, <1>2, Numbers, StepFacts DEF About, HasStep
<1>6. config' = [config EXCEPT ![n] = @ \ {}]
  BY <1>1, <1>2 DEF TypeOK
<1>7. timer' \in [Node -> [Step -> BOOLEAN]]
  BY <1>1, <1>2 DEF TypeOK
<1>8. Passive(m, n, Popped(m, n), {})
  BY <1>2, <1>4, <1>5, <1>6, <1>7 DEF Passive
<1> QED
  BY <1>3, <1>8, PassiveCore

LEMMA LeaveCore ==
  ASSUME Core, NEW m \in Node, NEW n \in Node, RecvLeave(m, n)
  PROVE  Core'
<1> DEFINE c == Popped(m, n)
           nodes == Head(chan[m][n]).nodes
           gone == nodes \cap config[n]
<1>1. TypeOK /\ Stopped /\ LeftBehind
  BY DEF Core
<1>2. /\ Receives(m, n)
      /\ Head(chan[m][n]).type = "leave"
      /\ UNCHANGED <<mode, next, commiting, steps, timer, started, log>>
      /\ DisconnectNodes(n, nodes, c)
  BY DEF RecvLeave
<1>3. /\ c \in Chans /\ Head(chan[m][n]) \in Message
      /\ chan[m][n] \in Seq(Message) /\ chan[m][n] # <<>>
      /\ \A p, q \in Node : c[p][q] =
           IF p = m /\ q = n THEN Tail(chan[p][q]) ELSE chan[p][q]
  BY <1>1, <1>2, PoppedType
<1>4. Up(n) /\ m # n
  BY <1>1, <1>2, <1>3 DEF Receives, Up, Stopped
<1>5. nodes \subseteq Removed /\ nodes \in SUBSET Node
  <2>1. 1 \in DOMAIN chan[m][n] /\ chan[m][n][1] = Head(chan[m][n])
    BY <1>3, TailFacts
  <2>2. nodes \subseteq Removed
    BY <1>1, <1>2, <2>1 DEF LeftBehind
  <2> QED
    BY <2>2, RemovedDef
<1>6. \A p \in gone : /\ p \in Node /\ ~Up(p) /\ c[n][p] = <<>>
                      /\ \A t \in Step : TookPart(p, t) => Frozen(t)
  <2> SUFFICES ASSUME NEW p \in gone
               PROVE  /\ p \in Node /\ ~Up(p) /\ c[n][p] = <<>>
                      /\ \A t \in Step : TookPart(p, t) => Frozen(t)
    OBVIOUS
  <2>1. p \in Node /\ ~Up(p) /\ \A t \in Step : TookPart(p, t) => Frozen(t)
    BY <1>1, <1>5 DEF LeftBehind
  <2>2. chan[n][p] = <<>> /\ p # n
    BY <1>1, <1>4, <2>1 DEF Stopped
  <2> QED
    BY <1>3, <2>1, <2>2
<1> HIDE DEF c, nodes
<1>7. /\ config' = [config EXCEPT ![n] = @ \ gone]
      /\ \/ gone = {} /\ chan' = c
         \/ Writes(n, c, LeaveMsg(gone))
  BY <1>1, <1>2, <1>3, <1>5, <1>6, DisconnectTells
<1>8. \A t : ~About(Head(chan[m][n]), Ballots, t)
  BY <1>2 DEF About, Ballots
<1>9. timer' \in [Node -> [Step -> BOOLEAN]] /\ timer' = timer
  BY <1>1, <1>2 DEF TypeOK
<1>10. gone \subseteq config[n]
  OBVIOUS
<1> HIDE DEF gone
<1>11. Passive(m, n, c, gone)
  BY <1>2, <1>4, <1>6, <1>7, <1>8, <1>9, <1>10 DEF Passive, c
<1> QED
  BY <1>3, <1>11, PassiveCore

LEMMA KnownType ==
  ASSUME TypeOK, NEW x, Known(x)
  PROVE  x \in MsgId
<1>1. CASE \E n \in Node : \E s \in Step :
             x \in steps[n][s].msgs \/ \E m \in Node : <<x, m>> \in steps[n][s].votes
  <2>1. \A n \in Node : \A s \in Step :
          steps[n][s].msgs \in Batch /\ steps[n][s].votes \subseteq MsgId \X Node
    BY Numbers DEF StepData
  <2> QED
    BY <1>1, <2>1 DEF Batch
<1>2. CASE \E m, n \in Node : \E i \in DOMAIN chan[m][n] :
             chan[m][n][i].type # "leave" /\ x \in chan[m][n][i].msgs
  BY <1>2, Numbers, MessageFields DEF Batch
<1>3. ASSUME NEW n \in Node, NEW i \in DOMAIN log[n], x \in log[n][i]
      PROVE  x \in MsgId
  <2>1. log[n] \in Seq(Batch) /\ DOMAIN log[n] = 1 .. Len(log[n])
    BY LenProperties DEF TypeOK
  <2>2. log[n][i] \in Batch
    BY <2>1, ElementOfSeq
  <2> QED
    BY <1>3, <2>2 DEF Batch
<1> QED
  BY <1>1, <1>2, <1>3 DEF Known

(* When all is read, every process that is up has heard of every step that *)
(* anybody took part in.                                                   *)
LEMMA AllRead ==
  ASSUME Core, \A m, n \in Node : Up(n) => chan[m][n] = <<>>
  PROVE  /\ \A p, q \in Node : Up(p) /\ Up(q) /\ p # q =>
              \A t \in Step : t < next[p] => Heard(q, p, t)
         /\ \A p \in Node : \A t \in Step : TookPart(p, t) => Frozen(t)
<1>1. TypeOK /\ Within /\ Stopped /\ Told /\ CastOnce /\ AllDecided
  BY DEF Core
<1>2. \A m, n \in Node : chan[m][n] = <<>>
  BY <1>1 DEF Stopped
<1>3. \A m, n \in Node : \A i : i \notin DOMAIN chan[m][n]
  BY <1>2
<1>4. \A m, n \in Node : \A t : ~Sent(chan[m][n], Ballots, t)
  BY <1>3 DEF Sent
<1>5. \A p, q \in Node : Up(p) /\ Up(q) /\ p # q =>
        \A t \in Step : t < next[p] => Heard(q, p, t)
  BY <1>1, <1>4 DEF Told
<1>6. ASSUME NEW t \in Step, NEW p \in Node, Up(p), t < next[p]
      PROVE  Frozen(t)
  <2>1. \A q \in Node : Up(q) => t < next[q]
    BY <1>1, <1>5, <1>6, HeardPassed
  <2> QED
    BY <1>3, <2>1 DEF Frozen
<1>7. ASSUME NEW t \in Step, NEW batch, Decided(t, batch)
      PROVE  Frozen(t)
  <2>1. \A q \in Node : Up(q) => t < next[q]
    BY <1>7 DEF Decided
  <2> QED
    BY <1>3, <2>1 DEF Frozen
<1>8. ASSUME NEW r \in Node, NEW t \in Step, NEW p \in Node, NEW x \in MsgId,
             <<x, p>> \in steps[r][t].votes
      PROVE  Frozen(t) /\ ProposedIn(x, t)
  <2>1. Up(r)
    <3>1. ~Up(r) => steps[r][t] = Fresh
      BY <1>1 DEF Stopped
    <3> QED
      BY <1>8, <3>1, FreshFields
  <2>2. p \in Voters(r, t)
    BY <1>1, <1>8, Numbers, NodesDef DEF Voters
  <2>3. t < next[r]
    BY <1>1, <2>1, <2>2, HeardPassed DEF Heard
  <2>4. HasVote(p, t, x)
    BY <1>8 DEF HasVote
  <2> QED
    BY <1>1, <1>6, <2>1, <2>3, <2>4 DEF CastOnce
<1>9. ASSUME NEW p \in Node, NEW t \in Step, NEW x \in MsgId, HasVote(p, t, x)
      PROVE  Frozen(t)
  <2>1. \E r \in Node : <<x, p>> \in steps[r][t].votes
    BY <1>3, <1>9 DEF HasVote
  <2> QED
    BY <1>8, <2>1
<1>10. ASSUME NEW x \in MsgId, Known(x)
       PROVE  \E t \in Step : ProposedIn(x, t) /\ Frozen(t)
  <2>1. ASSUME NEW r \in Node, NEW t \in Step, NEW p \in Node, <<x, p>> \in steps[r][t].votes
        PROVE  \E u \in Step : ProposedIn(x, u) /\ Frozen(u)
    BY <1>8, <2>1
  <2>2. ASSUME NEW r \in Node, NEW t \in Step, x \in steps[r][t].msgs
        PROVE  \E u \in Step : ProposedIn(x, u) /\ Frozen(u)
    <3>1. Up(r)
      <4>1. ~Up(r) => steps[r][t] = Fresh
        BY <1>1 DEF Stopped
      <4> QED
        BY <2>2, <4>1, FreshFields
    <3>2. steps[r][t].state = "Completed"
      <4>1. steps[r][t].state \in {"Initial", "Voted", "Completed"}
        BY <1>1, Numbers DEF StepData
      <4>2. steps[r][t].state # "Initial"
        BY <1>1, <2>2, <3>1, FreshFields DEF Within
      <4>3. steps[r][t].state # "Voted"
        BY <1>1, <2>2, <3>1 DEF Within
      <4> QED
        BY <4>1, <4>2, <4>3
    <3>3. Decided(t, steps[r][t].msgs)
      BY <1>1, <3>2 DEF AllDecided
    <3>4. ProposedIn(x, t)
      BY <2>2, <3>3 DEF Decided
    <3> QED
      BY <1>7, <3>3, <3>4
  <2>3. ASSUME NEW r \in Node, NEW i \in DOMAIN log[r], x \in log[r][i]
        PROVE  \E u \in Step : ProposedIn(x, u) /\ Frozen(u)
    <3>1. i - 1 \in Step /\ Decided(i - 1, log[r][i])
      BY <1>1 DEF AllDecided
    <3>2. ProposedIn(x, i - 1)
      BY <2>3, <3>1 DEF Decided
    <3> QED
      BY <1>7, <3>1, <3>2
  <2> QED
    BY <1>3, <1>10, <2>1, <2>2, <2>3 DEF Known
<1>11. ASSUME NEW p \in Node, NEW t \in Step, NEW i \in DOMAIN started[p],
              started[p][i] = t, Known(<<p, i>>)
       PROVE  Frozen(t)
  <2>1. PICK y : y = <<p, i>>
    OBVIOUS
  <2>2. Known(y) /\ y \in MsgId
    BY <1>1, <1>11, <2>1, KnownType
  <2>3. PICK u \in Step : ProposedIn(y, u) /\ Frozen(u)
    BY <1>10, <2>2
  <2>4. u = t
    BY <1>11, <2>1, <2>3 DEF ProposedIn
  <2> QED
    BY <2>3, <2>4
<1>12. \A p \in Node : \A t \in Step : TookPart(p, t) => Frozen(t)
  BY <1>9, <1>11 DEF TookPart
<1> QED
  BY <1>5, <1>12

(* onTimeout() in a timely network: who has not voted by then has stopped. *)
LEMMA TimeoutCore ==
  ASSUME Core, Timely, NEW n \in Node, NEW s \in Step, OnTimeout(n, s)
  PROVE  Core'
<1> DEFINE W == VotedNodesSet(steps[n][s])
           nodes == config[n] \ W
           gone == nodes \cap config[n]
<1>1. TypeOK /\ Within /\ Stopped /\ LeftBehind
  BY DEF Core
<1>2. /\ Up(n) /\ timer[n][s]
      /\ \A m, k \in Node : Up(k) => chan[m][k] = <<>>
      /\ timer' = [timer EXCEPT ![n][s] = FALSE]
      /\ UNCHANGED <<mode, next, commiting, steps, started, log>>
      /\ DisconnectNodes(n, nodes, chan)
  BY DEF OnTimeout, Up
<1>3. /\ \A p, q \in Node : Up(p) /\ Up(q) /\ p # q =>
           \A t \in Step : t < next[p] => Heard(q, p, t)
      /\ \A p \in Node : \A t \in Step : TookPart(p, t) => Frozen(t)
  BY <1>2, AllRead
<1>4. /\ steps[n][s].state = "Voted" /\ n \in Voters(n, s) /\ s < next[n]
      /\ ~(s < commiting[n])
  <2>1. steps[n][s].state = "Voted"
    BY <1>1, <1>2 DEF Within
  <2> QED
    BY <1>1, <1>2, <2>1, FreshFields DEF Within
<1>5. ASSUME NEW q \in Node, Up(q), q # n
      PROVE  q \in W
  <2>1. Heard(q, n, s)
    BY <1>2, <1>3, <1>4, <1>5
  <2>2. s < next[q]
    BY <1>1, <1>5, <2>1, HeardPassed
  <2>3. Heard(n, q, s)
    BY <1>2, <1>3, <1>5, <2>2
  <2> QED
    BY <1>4, <2>3 DEF Heard, Voters
<1>6. \A q \in gone : /\ q \in Node /\ ~Up(q) /\ chan[n][q] = <<>>
                      /\ \A t \in Step : TookPart(q, t) => Frozen(t)
  <2> SUFFICES ASSUME NEW q \in gone
               PROVE  /\ q \in Node /\ ~Up(q) /\ chan[n][q] = <<>>
                      /\ \A t \in Step : TookPart(q, t) => Frozen(t)
    OBVIOUS
  <2>1. q \in Node /\ q \notin W
    BY <1>1 DEF TypeOK
  <2>2. ~Up(q)
    BY <1>4, <1>5, <2>1 DEF Voters
  <2>3. chan[n][q] = <<>>
    BY <1>1, <2>1, <2>2 DEF Stopped
  <2> QED
    BY <1>3, <2>1, <2>2, <2>3
<1>7. nodes \in SUBSET Node /\ chan \in Chans
  BY <1>1 DEF TypeOK, Chans
<1>8. timer' \in [Node -> [Step -> BOOLEAN]]
      /\ \A p \in Node : \A t \in Step : timer'[p][t] => timer[p][t]
  BY <1>1, <1>2 DEF TypeOK
<1> HIDE DEF nodes, W
<1>9. /\ config' = [config EXCEPT ![n] = @ \ gone]
      /\ \/ gone = {} /\ chan' = chan
         \/ Writes(n, chan, LeaveMsg(gone))
  BY <1>1, <1>2, <1>6, <1>7, DisconnectTells
<1>10. gone \subseteq config[n]
  OBVIOUS
<1> HIDE DEF gone
<1>11. Passive(n, n, chan, gone)
  BY <1>2, <1>6, <1>8, <1>9, <1>10 DEF Passive
<1> QED
  BY <1>7, <1>11, PassiveCore

(* A process that stops takes the end of its streams with it.              *)
LEMMA StopStreams ==
  ASSUME TypeOK, NEW n \in Node, Stop(n)
  PROVE  /\ chan' \in Chans
         /\ \A p, q \in Node : p # n =>
              chan'[p][q] = IF q = n THEN <<>> ELSE chan[p][q]
         /\ \A q \in Node : /\ \E k \in 0 .. Len(chan[n][q]) :
                                 chan'[n][q] = SubSeq(chan[n][q], 1, k)
                            /\ chan[n][q] = <<>> => chan'[n][q] = <<>>
<1>1. PICK out \in Closed(chan, n, Node) :
        chan' = [m \in Node |-> IF m = n THEN out ELSE [chan[m] EXCEPT ![n] = <<>>]]
  BY DEF Stop
<1>2. chan \in Chans
  BY DEF TypeOK, Chans
<1>3. /\ out \in [Node -> Seq(Message)]
      /\ \A m \in Node : \E k \in 0 .. Len(chan[n][m]) : out[m] = SubSeq(chan[n][m], 1, k)
      /\ \A m \in Node : chan[n][m] = <<>> => out[m] = <<>>
  BY <1>2, ClosedFacts
<1>4. \A m \in Node : [chan[m] EXCEPT ![n] = <<>>] \in [Node -> Seq(Message)]
  BY <1>2 DEF Chans
<1>5. chan' \in Chans
  BY <1>1, <1>3, <1>4 DEF Chans
<1>6. \A p, q \in Node : p # n => chan'[p][q] = IF q = n THEN <<>> ELSE chan[p][q]
  BY <1>1, <1>2 DEF Chans
<1>7. chan'[n] = out
  BY <1>1
<1> QED
  BY <1>3, <1>5, <1>6, <1>7

LEMMA StopCore ==
  ASSUME Core, NEW n \in Node, Stop(n)
  PROVE  Core'
<1>1. /\ TypeOK /\ Within /\ Stopped /\ Told /\ InTurn
      /\ CastOnce /\ InSteps /\ AllDecided /\ LeftBehind /\ CommitsInOrder
  BY DEF Core
<1> DEFINE none == [t \in Step |-> Fresh]
           off == [t \in Step |-> FALSE]
<1>2. /\ mode[n] = "up"
      /\ mode' = [mode EXCEPT ![n] = "stopped"]
      /\ commiting' = [commiting EXCEPT ![n] = MaxStep]
      /\ steps' = [steps EXCEPT ![n] = none]
      /\ timer' = [timer EXCEPT ![n] = off]
      /\ config' = config /\ next' = next /\ started' = started /\ log' = log
  BY DEF Stop
<1>3. /\ chan' \in Chans
      /\ \A p, q \in Node : p # n =>
              chan'[p][q] = IF q = n THEN <<>> ELSE chan[p][q]
      /\ \A q \in Node : /\ \E k \in 0 .. Len(chan[n][q]) :
                                 chan'[n][q] = SubSeq(chan[n][q], 1, k)
                         /\ chan[n][q] = <<>> => chan'[n][q] = <<>>
  BY <1>1, StopStreams
<1>4. none \in [Step -> StepData] /\ off \in [Step -> BOOLEAN]
      /\ \A t \in Step : none[t] = Fresh /\ off[t] = FALSE
  BY FreshType
<1>5. MaxStep \in 0 .. MaxStep /\ \A t \in Step : t < MaxStep
  BY StepFacts, Replob1Assumption
<1>6. steps'[n] = none
  BY <1>1, <1>2 DEF TypeOK
<1> HIDE DEF none, off
<1>7. TypeOK'
  BY <1>1, <1>2, <1>3, <1>4, <1>5 DEF TypeOK, Chans
<1>8. \A p \in Node : Up(p)' <=> Up(p) /\ p # n
  BY <1>1, <1>2 DEF TypeOK, Up
<1>9. /\ \A p \in Node : p # n => /\ steps'[p] = steps[p] /\ commiting'[p] = commiting[p]
                                  /\ timer'[p] = timer[p]
      /\ commiting'[n] = MaxStep
  BY <1>1, <1>2 DEF TypeOK
<1>10. Within'
  BY <1>1, <1>2, <1>8, <1>9 DEF Within, Voters
<1>11. Stopped'
  <2>1. \A p \in Node : ~Up(p)' => steps'[p] = [t \in Step |-> Fresh]
    BY <1>1, <1>6, <1>8, <1>9 DEF Stopped, none
  <2>2. ASSUME NEW p \in Node, NEW q \in Node, ~Up(q)' \/ p = q
        PROVE  chan'[p][q] = <<>>
    <3>1. CASE q = n /\ p # n
      BY <1>3, <3>1
    <3>2. CASE q = n /\ p = n
      BY <1>1, <1>3, <3>2 DEF Stopped
    <3>3. CASE q # n
      <4>1. chan[p][q] = <<>>
        BY <1>1, <1>8, <2>2, <3>3 DEF Stopped
      <4> QED
        BY <1>3, <3>3, <4>1
    <3> QED
      BY <3>1, <3>2, <3>3
  <2> QED
    BY <2>1, <2>2 DEF Stopped
<1>12. \A p, q \in Node : \A t \in Step : q # n => (Heard(q, p, t)' <=> Heard(q, p, t))
  BY <1>9 DEF Heard, Voters
<1>13. ASSUME NEW p \in Node, NEW q \in Node, q # n, NEW kinds, NEW H,
              InSequence(chan[p][q], kinds, H)
       PROVE  InSequence(chan'[p][q], kinds, H)
  <2>1. CASE p # n
    BY <1>3, <1>13, <2>1
  <2>2. CASE p = n
    <3>1. PICK k \in 0 .. Len(chan[n][q]) : chan'[n][q] = SubSeq(chan[n][q], 1, k)
      BY <1>3
    <3>2. chan[n][q] \in Seq(Message) /\ InSequence(chan[n][q], kinds, H)
      BY <1>1, <1>13, <2>2, Numbers
    <3>3. InSequence(SubSeq(chan[n][q], 1, k), kinds, H)
      BY <3>2, StreamPrefix
    <3> QED
      BY <2>2, <3>1, <3>3
  <2> QED
    BY <2>1, <2>2
<1>14. Told'
  <2> SUFFICES ASSUME NEW p \in Node, NEW q \in Node, Up(q)', p # q
               PROVE  /\ Up(p)' => \A t \in Step : t < next'[p] =>
                           Heard(q, p, t)' \/ Sent(chan'[p][q], Ballots, t)
                      /\ InSequence(chan'[p][q], Ballots, {t \in Step : Heard(q, p, t)'})
    BY DEF Told
  <2>0. q # n /\ Up(q)
    BY <1>8
  <2> DEFINE H == {t \in Step : Heard(q, p, t)}
  <2>1. /\ Up(p) => \A t \in Step : t < next[p] => Heard(q, p, t) \/ Sent(chan[p][q], Ballots, t)
        /\ InSequence(chan[p][q], Ballots, H)
    BY <1>1, <2>0 DEF Told
  <2>2. {t \in Step : Heard(q, p, t)'} = H
    BY <1>12, <2>0
  <2> HIDE DEF H
  <2>3. InSequence(chan'[p][q], Ballots, H)
    BY <1>13, <2>0, <2>1
  <2>4. Up(p)' => \A t \in Step : t < next'[p] =>
                           Heard(q, p, t)' \/ Sent(chan'[p][q], Ballots, t)
    BY <1>2, <1>3, <1>8, <1>12, <2>0, <2>1
  <2> QED
    BY <2>2, <2>3, <2>4
<1>15. InTurn'
  <2> SUFFICES ASSUME NEW p \in Node, NEW q \in Node, NEW r \in Step, NEW t \in Step,
                      p \in VotedNodesSet(steps'[q][r]), t < r
               PROVE  Heard(q, p, t)'
    BY DEF InTurn, Voters
  <2>1. q # n
    BY <1>4, <1>6, FreshFields
  <2>2. Heard(q, p, t)
    BY <1>1, <1>9, <2>1 DEF InTurn, Voters
  <2> QED
    BY <1>12, <2>1, <2>2
<1>16. Quiet
  <2>1. ASSUME NEW p \in Node, NEW q \in Node, NEW i \in DOMAIN chan'[p][q]
        PROVE  \E j \in DOMAIN chan[p][q] : chan'[p][q][i] = chan[p][q][j]
    <3>1. CASE p # n /\ q # n
      BY <1>3, <2>1, <3>1
    <3>2. CASE p # n /\ q = n
      BY <1>3, <2>1, <3>2
    <3>3. CASE p = n
      <4>1. PICK k \in 0 .. Len(chan[n][q]) : chan'[n][q] = SubSeq(chan[n][q], 1, k)
        BY <1>3
      <4>2. chan[n][q] \in Seq(Message)
        BY <1>1, Numbers
      <4>3. /\ DOMAIN SubSeq(chan[n][q], 1, k) = 1 .. k
            /\ \A j \in 1 .. k : j \in DOMAIN chan[n][q] /\ SubSeq(chan[n][q], 1, k)[j] = chan[n][q][j]
        BY <4>2, PrefixFacts
      <4> QED
        BY <2>1, <3>3, <4>1, <4>3
    <3> QED
      BY <3>1, <3>2, <3>3
  <2>2. \A p \in Node : steps'[p] = steps[p] \/ steps'[p] = [t \in Step |-> Fresh]
    BY <1>6, <1>9 DEF none
  <2> QED
    BY <1>2, <1>8, <2>1, <2>2 DEF Quiet
<1>17. /\ CastOnce' /\ InSteps' /\ AllDecided'
       /\ \A t \in Step : Frozen(t) => Frozen(t)'
       /\ \A p \in Node : \A t \in Step : TookPart(p, t)' => TookPart(p, t)
  BY <1>1, <1>16, QuietKeeps
<1>18. Removed' = Removed
  BY <1>2 DEF Removed
<1>19. LeftBehind'
  <2>1. ASSUME NEW p \in Removed
        PROVE  ~Up(p)' /\ \A t \in Step : TookPart(p, t)' => Frozen(t)'
    <3>1. p \in Node /\ ~Up(p) /\ \A t \in Step : TookPart(p, t) => Frozen(t)
      BY <1>1, <2>1, RemovedDef DEF LeftBehind
    <3> QED
      BY <1>8, <1>17, <3>1
  <2>2. ASSUME NEW p \in Node, NEW q \in Node, NEW i \in DOMAIN chan'[p][q],
               chan'[p][q][i].type = "leave"
        PROVE  chan'[p][q][i].nodes \subseteq Removed
    <3>1. CASE p # n /\ q # n
      BY <1>1, <1>3, <2>2, <3>1 DEF LeftBehind
    <3>2. CASE p # n /\ q = n
      BY <1>3, <2>2, <3>2
    <3>3. CASE p = n
      <4>1. PICK k \in 0 .. Len(chan[n][q]) : chan'[n][q] = SubSeq(chan[n][q], 1, k)
        BY <1>3
      <4>2. chan[n][q] \in Seq(Message)
        BY <1>1, Numbers
      <4>3. /\ DOMAIN SubSeq(chan[n][q], 1, k) = 1 .. k
            /\ \A j \in 1 .. k : j \in DOMAIN chan[n][q] /\ SubSeq(chan[n][q], 1, k)[j] = chan[n][q][j]
        BY <4>2, PrefixFacts
      <4> QED
        BY <1>1, <2>2, <3>3, <4>1, <4>3 DEF LeftBehind
    <3> QED
      BY <3>1, <3>2, <3>3
  <2> QED
    BY <1>18, <2>1, <2>2 DEF LeftBehind
<1>20. CommitsInOrder'
  <2> SUFFICES ASSUME Removed = {}
               PROVE  CommitsInOrder'
    BY <1>18 DEF CommitsInOrder
  <2>1. ASSUME NEW q \in Node, Up(q)'
        PROVE  /\ \A t \in Step : steps'[q][t].state # "Completed" /\ VotedNodesSet(steps'[q][t]) # Node
               /\ \A p \in Node \ {q} :
                    /\ Up(p)' => \A t \in Step : t < commiting'[p] =>
                          t < commiting'[q] \/ Sent(chan'[p][q], {"commit"}, t)
                    /\ InSequence(chan'[p][q], {"commit"}, {t \in Step : t < commiting'[q]})
    <3>0. q # n /\ Up(q) /\ commiting'[q] = commiting[q] /\ steps'[q] = steps[q]
      BY <1>8, <1>9, <2>1
    <3>1. /\ \A t \in Step : steps[q][t].state # "Completed" /\ VotedNodesSet(steps[q][t]) # Node
          /\ \A p \in Node \ {q} :
               /\ Up(p) => \A t \in Step : t < commiting[p] =>
                     t < commiting[q] \/ Sent(chan[p][q], {"commit"}, t)
               /\ InSequence(chan[p][q], {"commit"}, {t \in Step : t < commiting[q]})
      BY <1>1, <3>0 DEF CommitsInOrder, Voters
    <3>2. ASSUME NEW p \in Node \ {q}
          PROVE  /\ Up(p)' => \A t \in Step : t < commiting'[p] =>
                          t < commiting'[q] \/ Sent(chan'[p][q], {"commit"}, t)
                 /\ InSequence(chan'[p][q], {"commit"}, {t \in Step : t < commiting'[q]})
      <4>1. Up(p)' => p # n /\ Up(p) /\ commiting'[p] = commiting[p] /\ chan'[p][q] = chan[p][q]
        BY <1>3, <1>8, <1>9, <3>0
      <4>2. Up(p)' => \A t \in Step : t < commiting'[p] =>
                          t < commiting'[q] \/ Sent(chan'[p][q], {"commit"}, t)
        BY <3>0, <3>1, <4>1
      <4>3. InSequence(chan'[p][q], {"commit"}, {t \in Step : t < commiting[q]})
        <5> DEFINE K == {"commit"}
                   H == {t \in Step : t < commiting[q]}
        <5>1. InSequence(chan[p][q], K, H)
          BY <3>1
        <5> HIDE DEF K, H
        <5>2. InSequence(chan'[p][q], K, H)
          BY <1>13, <3>0, <5>1
        <5> QED
          BY <5>2 DEF K, H
      <4> QED
        BY <3>0, <4>2, <4>3
    <3> QED
      BY <3>0, <3>1, <3>2
  <2> QED
    BY <2>1 DEF CommitsInOrder, Voters
<1> QED
  BY <1>7, <1>10, <1>11, <1>14, <1>15, <1>17, <1>19, <1>20 DEF Core

-----------------------------------------------------------------------------
(* At first nothing was said.                                              *)
LEMMA CoreInit ==
  ASSUME Init
  PROVE  Core
<1>1. /\ \A n \in Node : mode[n] = "up" /\ config[n] = Node
      /\ \A n \in Node : next[n] = 0 /\ commiting[n] = 0
      /\ \A n \in Node : steps[n] = [s \in Step |-> Fresh]
      /\ \A n \in Node : \A s \in Step : steps[n][s] = Fresh /\ timer[n][s] = FALSE
      /\ \A m, n \in Node : chan[m][n] = <<>>
      /\ \A n \in Node : started[n] = <<>> /\ log[n] = <<>>
  BY DEF Init
<1>2. /\ \A q : q = <<>> => DOMAIN q = {} /\ Len(q) = 0
      /\ \A S : <<>> \in Seq(S)
  OBVIOUS
<1>3. /\ \A m, n \in Node : DOMAIN chan[m][n] = {}
      /\ \A n \in Node : /\ DOMAIN started[n] = {} /\ DOMAIN log[n] = {}
                         /\ Len(log[n]) = 0
  BY <1>1, <1>2
<1>4. \A s \in Step : s \in Nat /\ ~(s < 0)
  BY StepFacts
<1>5. TypeOK
  <2>1. 0 \in 0 .. MaxStep
    BY Replob1Assumption
  <2>2. /\ mode \in [Node -> {"up", "stopped"}]
        /\ config \in [Node -> SUBSET Node]
        /\ timer \in [Node -> [Step -> BOOLEAN]]
    BY DEF Init
  <2>3. next \in [Node -> 0 .. MaxStep] /\ commiting \in [Node -> 0 .. MaxStep]
    BY <2>1 DEF Init
  <2>4. steps \in [Node -> [Step -> StepData]]
    BY FreshType DEF Init
  <2>5. /\ chan \in [Node -> [Node -> Seq(Message)]]
        /\ started \in [Node -> Seq(Step)]
        /\ log \in [Node -> Seq(Batch)]
    BY <1>2 DEF Init
  <2> QED
    BY <2>2, <2>3, <2>4, <2>5 DEF TypeOK
<1>6. \A n \in Node : \A s \in Step :
        /\ steps[n][s].state = "Initial" /\ steps[n][s].votes = {}
        /\ steps[n][s].msgs = {} /\ Voters(n, s) = {}
  BY <1>1, FreshFields DEF Voters
<1>7. Within
  BY <1>1, <1>3, <1>4, <1>6 DEF Within
<1>8. Stopped
  BY <1>1 DEF Stopped
<1>9. Told /\ InTurn
  BY <1>1, <1>3, <1>4, <1>6 DEF Told, InTurn, InSequence
<1>10. \A n \in Node : \A s \in Step : \A x : ~HasVote(n, s, x)
  BY <1>3, <1>6 DEF HasVote
<1>11. CastOnce /\ InSteps
  BY <1>3, <1>10 DEF CastOnce, InSteps
<1>12. AllDecided
  BY <1>3, <1>6 DEF AllDecided
<1>13. Removed = {}
  BY <1>1, RemovedDef
<1>14. LeftBehind
  BY <1>3, <1>13 DEF LeftBehind
<1>15. CommitsInOrder
  <2>2. \A n \in Node : \A s \in Step : steps[n][s].state # "Completed" /\ Voters(n, s) # Node
    BY <1>6
  <2>3. \A m, n \in Node : \A t \in Step : ~(t < commiting[m])
    BY <1>1, <1>4
  <2>4. \A m, n \in Node : InSequence(chan[m][n], {"commit"}, {t \in Step : t < commiting[n]})
    BY <1>3 DEF InSequence
  <2> QED
    BY <2>2, <2>3, <2>4 DEF CommitsInOrder
<1> QED
  BY <1>5, <1>7, <1>8, <1>9, <1>11, <1>12, <1>14, <1>15 DEF Core

LEMMA StutterCore ==
  ASSUME Core, UNCHANGED vars
  PROVE  Core'
<1>1. /\ mode' = mode /\ config' = config /\ next' = next /\ commiting' = commiting
      /\ steps' = steps /\ timer' = timer /\ chan' = chan /\ started' = started
      /\ log' = log
  BY DEF vars
<1>2. /\ TypeOK /\ Within /\ Stopped /\ Told /\ InTurn
      /\ CastOnce /\ InSteps /\ AllDecided /\ LeftBehind /\ CommitsInOrder
  BY DEF Core
<1>3. TypeOK'
  BY <1>1, <1>2 DEF TypeOK
<1>4. Within' /\ Stopped'
  BY <1>1, <1>2 DEF Within, Stopped, Up, Voters
<1>5. Told'
  BY <1>1, <1>2 DEF Told, Up, Heard, Voters
<1>6. InTurn'
  BY <1>1, <1>2 DEF InTurn, Heard, Voters
<1>7. Quiet
  BY <1>1 DEF Quiet, Up
<1>8. /\ CastOnce' /\ InSteps' /\ AllDecided'
      /\ \A t \in Step : Frozen(t) => Frozen(t)'
      /\ \A p \in Node : \A t \in Step : TookPart(p, t)' => TookPart(p, t)
  BY <1>2, <1>7, QuietKeeps
<1>9. LeftBehind'
  BY <1>1, <1>2, <1>8 DEF LeftBehind, Removed, Up
<1>10. CommitsInOrder'
  BY <1>1, <1>2 DEF CommitsInOrder, Removed, Up, Voters
<1> QED
  BY <1>3, <1>4, <1>5, <1>6, <1>7, <1>8, <1>9, <1>10 DEF Core

(* Every step keeps it, when the network is timely.                        *)
LEMMA CoreStep ==
  ASSUME Timely, Core, [Next]_vars
  PROVE  Core'
<1>0. TypeOK /\ Within /\ Stopped /\ Told /\ LeftBehind
  BY DEF Core
<1>1. ASSUME NEW n \in Node, Apply(n)
      PROVE  Core'
  <2>1. PICK s \in Step, w \in StepData, k \in 0 .. MaxStep, c \in Chans :
          Handling(n, n, s, w, k, c)
    BY <1>0, <1>1, ApplyHandles
  <2> QED
    BY <2>1, HandledCore
<1>2. ASSUME NEW m \in Node, NEW n \in Node, Recv(m, n)
      PROVE  Core'
  <2>1. PICK s \in Step, w \in StepData, k \in 0 .. MaxStep, c \in Chans :
          Handling(m, n, s, w, k, c)
    BY <1>0, <1>2, RecvHandles
  <2> QED
    BY <2>1, HandledCore
<1>3. ASSUME NEW m \in Node, NEW n \in Node, RecvStale(m, n)
      PROVE  Core'
  BY <1>3, StaleCore
<1>4. ASSUME NEW m \in Node, NEW n \in Node, RecvLeave(m, n)
      PROVE  Core'
  BY <1>4, LeaveCore
<1>5. ASSUME NEW n \in Node, NEW s \in Step, OnTimeout(n, s)
      PROVE  Core'
  BY <1>5, TimeoutCore
<1>6. ASSUME NEW n \in Node, Stop(n)
      PROVE  Core'
  BY <1>6, StopCore
<1>7. CASE UNCHANGED vars
  BY <1>7, StutterCore
<1> QED
  BY <1>1, <1>2, <1>3, <1>4, <1>5, <1>6, <1>7 DEF Next, Receive

-----------------------------------------------------------------------------
(* What the invariant means.  A vote that is counted in two tables is for  *)
(* one message.                                                            *)
LEMMA CoreOneVote ==
  ASSUME Core
  PROVE  OneVote
<1> SUFFICES ASSUME NEW m \in Node, NEW n \in Node, NEW s \in Step,
                    NEW v \in steps[m][s].votes, NEW w \in steps[n][s].votes,
                    v[2] = w[2]
             PROVE  v[1] = w[1]
  BY DEF OneVote
<1>1. TypeOK /\ CastOnce
  BY DEF Core
<1>2. steps[m][s] \in StepData /\ steps[n][s] \in StepData
  BY <1>1, Numbers
<1>3. /\ v[1] \in MsgId /\ v[2] \in Node /\ v = <<v[1], v[2]>>
      /\ w[1] \in MsgId /\ w = <<w[1], w[2]>>
  BY <1>2 DEF StepData
<1>4. HasVote(v[2], s, v[1]) /\ HasVote(v[2], s, w[1])
  BY <1>3 DEF HasVote
<1> QED
  BY <1>1, <1>3, <1>4 DEF CastOnce

(* The tables hold decided steps only where somebody is out.               *)
LEMMA CoreDecidedInOrder ==
  ASSUME Core
  PROVE  DecidedInOrder
<1> SUFFICES ASSUME NEW n \in Node, NEW s \in Step, steps[n][s].state = "Completed",
                    \A m \in Node : config[m] = Node
             PROVE  FALSE
  BY DEF DecidedInOrder
<1>1. Stopped /\ CommitsInOrder
  BY DEF Core
<1>2. Removed = {}
  BY DEF Removed
<1>3. Up(n)
  BY <1>1, FreshFields DEF Stopped
<1> QED
  BY <1>1, <1>2, <1>3 DEF CommitsInOrder

(* The batches that were executed, ...                                     *)
LEMMA LogFacts ==
  ASSUME Core, NEW r \in Node
  PROVE  /\ log[r] \in Seq(Batch) /\ Len(log[r]) \in Nat
         /\ DOMAIN log[r] = 1 .. Len(log[r])
         /\ \A i \in DOMAIN log[r] :
              /\ i \in Nat /\ i - 1 \in Step /\ log[r][i] \subseteq MsgId
              /\ Decided(i - 1, log[r][i])
              /\ \A x \in log[r][i] : Known(x)
<1>1. TypeOK /\ AllDecided
  BY DEF Core
<1>2. log[r] \in Seq(Batch)
  BY <1>1 DEF TypeOK
<1>3. Len(log[r]) \in Nat /\ DOMAIN log[r] = 1 .. Len(log[r])
  BY <1>2, LenProperties
<1>4. ASSUME NEW i \in DOMAIN log[r]
      PROVE  /\ i \in Nat /\ i - 1 \in Step /\ log[r][i] \subseteq MsgId
             /\ Decided(i - 1, log[r][i])
             /\ \A x \in log[r][i] : Known(x)
  <2>1. log[r][i] \in Batch
    BY <1>2, <1>3, ElementOfSeq
  <2>2. log[r][i] \subseteq MsgId
    BY <2>1 DEF Batch
  <2>3. \A x \in log[r][i] : Known(x)
    BY DEF Known
  <2>4. i - 1 \in Step /\ Decided(i - 1, log[r][i])
    BY <1>1 DEF AllDecided
  <2> QED
    BY <1>3, <2>2, <2>3, <2>4
<1> QED
  BY <1>2, <1>3, <1>4

(* ... in steps that nobody can still propose in, ...                      *)
LEMMA CoreStepClosed ==
  ASSUME Core
  PROVE  StepClosed
<1> SUFFICES ASSUME NEW r \in Node, NEW n \in Node, mode[n] = "up"
             PROVE  next[n] >= Len(log[r])
  BY DEF StepClosed
<1> DEFINE i == Len(log[r])
<1>1. next[n] \in Nat /\ i \in Nat /\ DOMAIN log[r] = 1 .. i
  BY LogFacts, Numbers DEF Core
<1>2. CASE i # 0
  <2>1. i \in DOMAIN log[r]
    BY <1>1, <1>2
  <2>2. Decided(i - 1, log[r][i])
    BY <2>1, LogFacts
  <2>3. i - 1 < next[n]
    BY <2>2 DEF Decided, Up
  <2> QED
    BY <1>1, <2>3
<1> QED
  BY <1>1, <1>2

(* ... with the messages of a process in their order, ...                  *)
LEMMA CoreSenderOrder ==
  ASSUME Core
  PROVE  SenderOrder
<1> SUFFICES ASSUME NEW r \in Node, NEW n \in Node, NEW p \in DOMAIN log[r],
                    NEW j \in DOMAIN started[n], <<n, j>> \in log[r][p],
                    NEW i \in 1 .. j - 1
             PROVE  \E q \in 1 .. p - 1 : <<n, i>> \in log[r][q]
  BY DEF SenderOrder
<1>1. TypeOK /\ InSteps
  BY DEF Core
<1>2. started[n] \in Seq(Step)
  BY <1>1 DEF TypeOK
<1>3. i \in DOMAIN started[n] /\ i < j /\ i <= j
  <2>1. Len(started[n]) \in Nat /\ DOMAIN started[n] = 1 .. Len(started[n])
    BY <1>2, LenProperties
  <2> QED
    BY <2>1
<1>4. p \in Nat /\ p - 1 \in Step /\ Decided(p - 1, log[r][p]) /\ Known(<<n, j>>)
  BY LogFacts
<1>5. started[n][j] = p - 1
  BY <1>4 DEF Decided, ProposedIn
<1> DEFINE t == started[n][i]
<1>6. t < p - 1
  BY <1>1, <1>3, <1>5 DEF InSteps
<1>7. t \in Nat
  BY <1>2, <1>3, ElementOfSeq, LenProperties, StepFacts
<1>8. t + 1 \in 1 .. p - 1 /\ t + 1 \in DOMAIN log[r] /\ (t + 1) - 1 = t
  <2>1. Len(log[r]) \in Nat /\ p \in 1 .. Len(log[r]) /\ DOMAIN log[r] = 1 .. Len(log[r])
    BY LogFacts
  <2> QED
    BY <1>4, <1>6, <1>7, <2>1
<1>9. Decided(t, log[r][t + 1])
  BY <1>8, LogFacts
<1>10. <<n, i>> \in log[r][t + 1]
  BY <1>3, <1>4, <1>9 DEF Decided
<1> QED
  BY <1>8, <1>10

(* ... and the same everywhere: what one has and another one has not was   *)
(* known to nobody.                                                        *)
LEMMA LogsAgree ==
  ASSUME Core, NEW r \in Node, NEW q \in Node, NEW i \in DOMAIN log[r], i \in DOMAIN log[q]
  PROVE  log[r][i] \subseteq log[q][i]
<1> SUFFICES ASSUME NEW x \in log[r][i]
             PROVE  x \in log[q][i]
  OBVIOUS
<1>1. /\ x \in MsgId /\ Known(x) /\ Decided(i - 1, log[r][i])
      /\ Decided(i - 1, log[q][i])
  BY LogFacts
<1>2. x[1] \in Node /\ x[2] \in Int /\ x = <<x[1], x[2]>>
  BY <1>1 DEF MsgId
<1>3. x[2] \in DOMAIN started[x[1]] /\ started[x[1]][x[2]] = i - 1
  BY <1>1 DEF Decided, ProposedIn
<1>4. x[2] <= x[2]
  BY <1>2
<1> QED
  BY <1>1, <1>2, <1>3, <1>4 DEF Decided

(* The inductive invariant, ...                                            *)
THEOREM Invariance ==
  ASSUME Timely
  PROVE  Spec => []Core
<1>1. Init => Core
  BY CoreInit
<1>2. Core /\ [Next]_vars => Core'
  BY CoreStep
<1> QED
  BY <1>1, <1>2, PTL DEF Spec

(* ... and what it was made for: in a timely network a process has one     *)
(* vote in a step, the steps are decided in their order and closed when    *)
(* they are executed, and the messages of a process keep theirs.           *)
THEOREM Safety ==
  ASSUME Timely
  PROVE  Spec => []Replob1Inv
<1>1. Core => Replob1Inv
  BY CoreOneVote, CoreDecidedInOrder, CoreStepClosed, CoreSenderOrder DEF Replob1Inv
<1> QED
  BY <1>1, Invariance, PTL

-----------------------------------------------------------------------------
(* What the logs tell of each other and of the proposals.                  *)
Agreed ==
  \A r \in Node :
    /\ log[r] \in Seq(Batch) /\ Len(log[r]) \in Nat /\ DOMAIN log[r] = 1 .. Len(log[r])
    /\ \A i \in DOMAIN log[r] :
         /\ log[r][i] \subseteq Submitted
         /\ \A j \in DOMAIN log[r] : i # j => log[r][i] \cap log[r][j] = {}
         /\ \A q \in Node : i \in DOMAIN log[q] => log[r][i] = log[q][i]

LEMMA CoreAgreed ==
  ASSUME Core
  PROVE  Agreed
<1> SUFFICES ASSUME NEW r \in Node, NEW i \in DOMAIN log[r]
             PROVE  /\ log[r][i] \subseteq Submitted
                    /\ \A j \in DOMAIN log[r] : i # j => log[r][i] \cap log[r][j] = {}
                    /\ \A q \in Node : i \in DOMAIN log[q] => log[r][i] = log[q][i]
  BY LogFacts DEF Agreed
<1>1. \A j \in DOMAIN log[r] : \A x \in log[r][j] :
        /\ j \in Nat /\ x \in MsgId
        /\ x[2] \in DOMAIN started[x[1]] /\ started[x[1]][x[2]] = j - 1
  BY LogFacts DEF Decided, ProposedIn
<1>2. log[r][i] \subseteq Submitted
  <2> SUFFICES ASSUME NEW x \in log[r][i]
               PROVE  x \in Submitted
    OBVIOUS
  <2>1. x[1] \in Node /\ x = <<x[1], x[2]>> /\ x[2] \in DOMAIN started[x[1]]
    BY <1>1 DEF MsgId
  <2>2. x \in {x[1]} \X DOMAIN started[x[1]]
    BY <2>1
  <2> QED
    BY <2>1, <2>2 DEF Submitted
<1>3. ASSUME NEW j \in DOMAIN log[r], i # j
      PROVE  log[r][i] \cap log[r][j] = {}
  <2> SUFFICES ASSUME NEW x \in log[r][i], x \in log[r][j]
               PROVE  FALSE
    OBVIOUS
  <2>1. i - 1 = j - 1 /\ i \in Nat /\ j \in Nat
    BY <1>1
  <2> QED
    BY <1>3, <2>1
<1>4. ASSUME NEW q \in Node, i \in DOMAIN log[q]
      PROVE  log[r][i] = log[q][i]
  BY <1>4, LogsAgree
<1> QED
  BY <1>2, <1>3, <1>4

(* A handler appends to the log of its process or leaves it alone.         *)
Extends(n) ==
  /\ log' \in [Node -> Seq(Batch)]
  /\ \A m \in Node \ {n} : log'[m] = log[m]
  /\ Len(log'[n]) >= Len(log[n])
  /\ SubSeq(log'[n], 1, Len(log[n])) = log[n]

Submits ==
  UNCHANGED Submitted
    \/ \E x \in Submitted' : x \notin Submitted /\ Submitted' = Submitted \cup {x}

LEMMA HandledExtends ==
  ASSUME Core, NEW m \in Node, NEW n \in Node, NEW s \in Step,
         NEW w \in StepData, NEW k \in 0 .. MaxStep, NEW c \in Chans,
         Handling(m, n, s, w, k, c)
  PROVE  Extends(n) /\ Submits
<1>0. TypeOK /\ Within /\ Handles(m, n, s, w, k, c)
  BY DEF Core, Handling
<1>1. Extends(n)
  <2>1. /\ Len(log'[n]) = k /\ Len(log[n]) = commiting[n]
        /\ log' \in [Node -> Seq(Batch)]
        /\ SubSeq(log'[n], 1, Len(log[n])) = log[n]
    BY <1>0, HandledLog
  <2>2. /\ \A p \in Node : p # n => log'[p] = log[p]
        /\ commiting[n] <= k /\ k \in Nat /\ commiting[n] \in Nat
    BY <1>0, HandledFacts
  <2> QED
    BY <2>1, <2>2 DEF Extends
<1>2. CASE started' = started
  BY <1>1, <1>2 DEF Submits, Submitted
<1>3. CASE m = n /\ started' = [started EXCEPT ![n] = Append(@, s)]
  <2> DEFINE j == Len(started[n]) + 1
             x == <<n, j>>
  <2>1. started[n] \in Seq(Step) /\ started'[n] = Append(started[n], s)
        /\ \A p \in Node \ {n} : started'[p] = started[p]
    BY <1>0, <1>3 DEF TypeOK
  <2>2. DOMAIN started'[n] = DOMAIN started[n] \cup {j} /\ j \notin DOMAIN started[n]
    <3>1. Len(started[n]) \in Nat /\ DOMAIN started[n] = 1 .. Len(started[n])
          /\ DOMAIN started'[n] = 1 .. Len(started[n]) + 1
      BY <2>1, AppendFacts
    <3> QED
      BY <3>1
  <2>3. x \in Submitted' /\ x \notin Submitted /\ Submitted' = Submitted \cup {x}
    BY <2>1, <2>2 DEF Submitted
  <2> QED
    BY <1>1, <2>3 DEF Submits
<1> QED
  BY <1>1, <1>2, <1>3 DEF Handling, Chooses, Brings, Follows

(* So do all steps, and only a proposal submits a message, a new one.      *)
LEMMA StepExtends ==
  ASSUME Core, [Next]_vars
  PROVE  Submits /\ (UNCHANGED log \/ \E n \in Node : Extends(n))
<1>0. TypeOK /\ Within /\ Stopped /\ Told /\ LeftBehind
  BY DEF Core
<1>1. ASSUME NEW n \in Node, Apply(n)
      PROVE  Submits /\ Extends(n)
  <2>1. PICK s \in Step, w \in StepData, k \in 0 .. MaxStep, c \in Chans :
          Handling(n, n, s, w, k, c)
    BY <1>0, <1>1, ApplyHandles
  <2> QED
    BY <2>1, HandledExtends
<1>2. ASSUME NEW m \in Node, NEW n \in Node, Recv(m, n)
      PROVE  Submits /\ Extends(n)
  <2>1. PICK s \in Step, w \in StepData, k \in 0 .. MaxStep, c \in Chans :
          Handling(m, n, s, w, k, c)
    BY <1>0, <1>2, RecvHandles
  <2> QED
    BY <2>1, HandledExtends
<1>3. ASSUME UNCHANGED <<started, log>>
      PROVE  Submits /\ UNCHANGED log
  BY <1>3 DEF Submits, Submitted
<1>4. ASSUME NEW m \in Node, NEW n \in Node, RecvStale(m, n) \/ RecvLeave(m, n)
      PROVE  UNCHANGED <<started, log>>
  BY <1>4 DEF RecvStale, RecvLeave
<1>5. ASSUME NEW n \in Node, Stop(n) \/ \E s \in Step : OnTimeout(n, s)
      PROVE  UNCHANGED <<started, log>>
  BY <1>5 DEF Stop, OnTimeout
<1>6. CASE UNCHANGED vars
  BY <1>3, <1>6 DEF vars
<1> QED
  BY <1>1, <1>2, <1>3, <1>4, <1>5, <1>6 DEF Next, Receive

(* What is appended is what AtomicBroadcast allows to be executed.         *)
LEMMA ExtendsExecutes ==
  ASSUME Agreed, Agreed', TypeOK, NEW n \in Node, Extends(n)
  PROVE  UNCHANGED log \/ Abstract!Execute(n)
<1>1. /\ Len(log[n]) \in Nat /\ Len(log'[n]) \in Nat
      /\ log'[n] \in Seq(Batch) /\ DOMAIN log'[n] = 1 .. Len(log'[n])
      /\ \A q \in Node : DOMAIN log[q] = 1 .. Len(log[q])
  BY DEF Agreed
<1>2. CASE Len(log'[n]) = Len(log[n])
  <2>1. SubSeq(log'[n], 1, Len(log'[n])) = log'[n]
    BY <1>1
  <2>2. \A m \in Node : log'[m] = log[m]
    BY <1>2, <2>1 DEF Extends
  <2>3. UNCHANGED log
    BY <2>2 DEF Extends, TypeOK
  <2> QED
    BY <2>3
<1>3. CASE Len(log'[n]) > Len(log[n])
  <2>1. ASSUME NEW i \in Len(log[n]) + 1 .. Len(log'[n])
        PROVE  /\ log'[n][i] \subseteq Submitted'
               /\ \A j \in 1 .. i - 1 : log'[n][i] \cap log'[n][j] = {}
               /\ \A q \in Node : i <= Len(log[q]) => log'[n][i] = log[q][i]
    <3>1. i \in DOMAIN log'[n] /\ ~(i <= Len(log[n])) /\ i \in Nat /\ i >= 1
      BY <1>1
    <3>2. log'[n][i] \subseteq Submitted'
      BY <3>1 DEF Agreed
    <3>3. \A j \in 1 .. i - 1 : j \in DOMAIN log'[n] /\ i # j
      BY <1>1, <3>1
    <3>4. \A j \in 1 .. i - 1 : log'[n][i] \cap log'[n][j] = {}
      BY <3>1, <3>3 DEF Agreed
    <3>5. ASSUME NEW q \in Node, i <= Len(log[q])
          PROVE  log'[n][i] = log[q][i]
      <4>1. log'[q] = log[q]
        BY <3>1, <3>5 DEF Extends
      <4>2. Len(log[q]) \in Nat
        BY DEF Agreed
      <4>3. i \in DOMAIN log'[q]
        BY <1>1, <3>1, <3>5, <4>1, <4>2
      <4> QED
        BY <3>1, <4>1, <4>3 DEF Agreed
    <3> QED
      BY <3>2, <3>4, <3>5
  <2>2. Abstract!Execute(n)
    BY <1>3, <2>1 DEF Extends, Abstract!Execute
  <2> QED
    BY <2>2
<1> QED
  BY <1>1, <1>2, <1>3 DEF Extends

(* In a timely network the first version of the protocol does what         *)
(* replobApply() promises, although processes stop with their decisions on *)
(* the way and are taken out of NodesConfig: it implements                 *)
(* AtomicBroadcast.                                                        *)
THEOREM Refinement ==
  ASSUME Timely
  PROVE  Spec => Refines
<1>1. Init => Abstract!Init
  <2> SUFFICES ASSUME Init
               PROVE  Abstract!Init
    OBVIOUS
  <2>1. log = [r \in Node |-> <<>>] /\ \A n \in Node : DOMAIN started[n] = {}
    BY DEF Init
  <2>2. Submitted = {}
    BY <2>1 DEF Submitted
  <2> QED
    BY <2>1, <2>2 DEF Abstract!Init
<1>2. Core => Agreed
  BY CoreAgreed
<1>3. Core /\ Agreed /\ Agreed' /\ [Next]_vars => [Abstract!Next]_(Abstract!abVars)
  <2> SUFFICES ASSUME Core, Agreed, Agreed', [Next]_vars
               PROVE  Abstract!Next
    OBVIOUS
  <2>0. TypeOK
    BY DEF Core
  <2>1. UNCHANGED log \/ \E n \in Node : Abstract!Execute(n)
    BY <2>0, StepExtends, ExtendsExecutes
  <2>2. UNCHANGED Submitted \/ Abstract!Submit
    BY StepExtends DEF Submits, Abstract!Submit
  <2> QED
    BY <2>1, <2>2 DEF Abstract!Next
<1> QED
  BY <1>1, <1>2, <1>3, Invariance, PTL DEF Spec, Refines, Abstract!Spec
=============================================================================
