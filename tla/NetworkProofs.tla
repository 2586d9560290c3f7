---------------------------- MODULE NetworkProofs ----------------------------
(***************************************************************************)
(* Proofs about a node that sends to another one, for any number of        *)
(* messages and faults.                                                    *)
(***************************************************************************)
EXTENDS NetworkProperties, SequenceTheorems, TLAPS

USE NetworkAssumption

(* What is inductive; the rest of NetworkInv follows from it.              *)
Core ==
  /\ TypeOK /\ Queueing /\ Calling
  /\ Framing /\ Failures /\ Boundary /\ WrittenInOrder
  /\ ExecutedAsRead /\ LostByFaultOnly

-----------------------------------------------------------------------------
(* The connections, and one of them changed.                               *)
LEMMA Connections ==
  ASSUME TypeOK
  PROVE  /\ Len(conns) \in Nat /\ DOMAIN conns = 1 .. Len(conns)
         /\ \A c \in DOMAIN conns :
              /\ conns[c] \in Connection
              /\ Len(conns[c].stream) \in Nat
              /\ DOMAIN conns[c].stream = 1 .. Len(conns[c].stream)
              /\ \A i \in DOMAIN conns[c].stream : conns[c].stream[i] \in Cells
         /\ socket # 0 => socket \in DOMAIN conns
<1>0. conns \in Seq(Connection)
  BY DEF TypeOK
<1>1. Len(conns) \in Nat /\ DOMAIN conns = 1 .. Len(conns)
  BY <1>0, LenProperties
<1>2. \A c \in DOMAIN conns : conns[c] \in Connection
  BY <1>0, <1>1, ElementOfSeq
<1>3. ASSUME NEW c \in DOMAIN conns
      PROVE  /\ Len(conns[c].stream) \in Nat
             /\ DOMAIN conns[c].stream = 1 .. Len(conns[c].stream)
             /\ \A i \in DOMAIN conns[c].stream : conns[c].stream[i] \in Cells
  <2>1. conns[c].stream \in Seq(Cells)
    BY <1>2 DEF Connection
  <2> QED
    BY <2>1, LenProperties, ElementOfSeq
<1>4. socket # 0 => socket \in DOMAIN conns
  <2>1. socket = 0 \/ socket = Len(conns)
    BY DEF TypeOK
  <2>2. Len(conns) # 0 => Len(conns) \in DOMAIN conns
    BY <1>1
  <2> QED
    BY <2>1, <2>2
<1> QED
  BY <1>1, <1>2, <1>3, <1>4

LEMMA OneChanged ==
  ASSUME TypeOK, NEW c \in DOMAIN conns, NEW r \in Connection,
         conns' = [conns EXCEPT ![c] = r]
  PROVE  /\ conns' \in Seq(Connection)
         /\ Len(conns') = Len(conns) /\ DOMAIN conns' = DOMAIN conns
         /\ conns'[c] = r
         /\ \A d \in DOMAIN conns \ {c} : conns'[d] = conns[d]
<1>1. conns \in Seq(Connection) /\ c \in 1 .. Len(conns)
  BY Connections DEF TypeOK
<1>2. conns' \in Seq(Connection) /\ Len(conns') = Len(conns)
  BY <1>1, ExceptSeq
<1> QED
  BY <1>2, Connections

(* What the type says of a call, of the node and of a writer.              *)
CallType ==
  [op : {"none", "write", "connect"}, written : 0 .. 2, result : {"", "ok", "error"}]

LEMMA Calls ==
  ASSUME TypeOK
  PROVE  /\ call \in CallType
         /\ call.op \in {"none", "write", "connect"}
         /\ call.written \in Nat /\ call.written \in 0 .. 2
         /\ call.result \in {"", "ok", "error"}
<1>1. call \in CallType
  BY DEF TypeOK, CallType
<1>2. call.written \in 0 .. 2
  BY <1>1 DEF CallType
<1>3. call.written \in Nat
  BY <1>2
<1>4. call.op \in {"none", "write", "connect"} /\ call.result \in {"", "ok", "error"}
  BY <1>1 DEF CallType
<1> QED
  BY <1>1, <1>2, <1>3, <1>4

LEMMA Idle ==
  ASSUME Core, lock = <<>>
  PROVE  call.op = "none" /\ call.result = "" /\ call.written \in Nat /\ call.written = 0
<1>1. call.op = "none" /\ call.result = ""
  BY DEF Core, Calling
<1>2. ~(call.written > 0)
  BY <1>1 DEF Core, Calling
<1>3. call.written \in Nat
  BY Calls DEF Core
<1>4. call.written = 0
  BY <1>2, <1>3
<1> QED
  BY <1>1, <1>3, <1>4

LEMMA Owners ==
  ASSUME TypeOK, lock # <<>>
  PROVE  /\ lock \in Seq(Messages) /\ Len(lock) \in Nat /\ DOMAIN lock = 1 .. Len(lock)
         /\ Len(lock) # 0 /\ Head(lock) = lock[1] /\ 1 \in DOMAIN lock /\ Head(lock) \in Messages
<1>1. lock \in Seq(Messages)
  BY DEF TypeOK
<1>2. Len(lock) \in Nat /\ DOMAIN lock = 1 .. Len(lock) /\ Len(lock) # 0
  BY <1>1, LenProperties, EmptySeq
<1>3. Head(lock) = lock[1] /\ 1 \in DOMAIN lock
  BY <1>1, <1>2, HeadTailProperties
<1> QED
  BY <1>1, <1>2, <1>3, ElementOfSeq

LEMMA Parity ==
  ASSUME NEW L \in Nat
  PROVE  /\ L % 2 = 0 => (L + 1) % 2 = 1
         /\ L % 2 = 1 => (L + 1) % 2 = 0 /\ L # 0
         /\ (L + 1) % 2 = 0 => L % 2 = 1
OBVIOUS

(* The streams are those from before, or cut.                              *)
OnlyCut ==
  /\ DOMAIN conns' = DOMAIN conns
  /\ \A c \in DOMAIN conns :
       /\ conns'[c].whole = conns[c].whole
       /\ DOMAIN conns'[c].stream \subseteq DOMAIN conns[c].stream
       /\ \A i \in DOMAIN conns'[c].stream : conns'[c].stream[i] = conns[c].stream[i]

LEMMA FramingKept ==
  ASSUME Core, OnlyCut, \A c \in DOMAIN conns : conns'[c].stream \in Seq(Cells)
  PROVE  Framing'
<1> SUFFICES ASSUME NEW c \in DOMAIN conns, NEW i \in DOMAIN conns'[c].stream
             PROVE  conns'[c].stream[i] =
                      IF i % 2 = 1 THEN <<"size", conns'[c].stream[i][2]>>
                                   ELSE <<"body", conns'[c].stream[i - 1][2]>>
  BY DEF Framing, OnlyCut
<1>1. i \in DOMAIN conns[c].stream /\ conns'[c].stream[i] = conns[c].stream[i]
  BY DEF OnlyCut
<1>2. CASE i % 2 = 1
  BY <1>1, <1>2 DEF Core, Framing
<1>3. CASE i % 2 # 1
  <2>1. i \in Nat \ {0} /\ i # 1
    BY <1>3
  <2>2. i - 1 \in DOMAIN conns'[c].stream
    BY <2>1
  <2> QED
    BY <1>1, <1>3, <2>2 DEF Core, Framing, OnlyCut
<1> QED
  BY <1>2, <1>3

(* Nothing more is to be written, and what is whole stays ahead of it.     *)
LEMMA OrderKept ==
  ASSUME Core, OnlyCut,
         \A k \in Messages :
           ToWrite(k)' => /\ ToWrite(k)
                          /\ call.written = 2 /\ Head(lock) = k
                               => call'.written = 2 /\ Head(lock') = k
  PROVE  WrittenInOrder'
BY DEF Core, OnlyCut, WrittenInOrder

(* What was read stays, or more is read.                                   *)
LEMMA ReadKept ==
  ASSUME Core, DOMAIN conns \subseteq DOMAIN conns', UNCHANGED executed,
         \A c \in DOMAIN conns' : conns'[c].taken \in 0 .. Len(conns'[c].stream),
         \A c \in DOMAIN conns :
           /\ conns[c].taken <= conns'[c].taken
           /\ \A i \in 1 .. conns[c].taken : conns'[c].stream[i] = conns[c].stream[i]
  PROVE  ExecutedAsRead'
<1>1. \A c \in DOMAIN conns : conns[c].taken \in Nat /\ conns'[c].taken \in Nat
  BY DEF Core, ExecutedAsRead
<1>2. ASSUME NEW i \in DOMAIN executed
      PROVE  /\ executed[i].conn \in DOMAIN conns'
             /\ \E k \in 1 .. conns'[executed[i].conn].taken :
                  conns'[executed[i].conn].stream[k] = <<"body", executed[i].message>>
  <2> DEFINE c == executed[i].conn
  <2>1. c \in DOMAIN conns
    BY DEF Core, ExecutedAsRead
  <2>2. PICK k \in 1 .. conns[c].taken : conns[c].stream[k] = <<"body", executed[i].message>>
    BY DEF Core, ExecutedAsRead
  <2>3. k \in 1 .. conns'[c].taken
    BY <1>1, <2>1
  <2> QED
    BY <2>1, <2>2, <2>3
<1> QED
  BY <1>2 DEF Core, ExecutedAsRead

(* What was not read and is not executed waits on, or the connection has   *)
(* failed.                                                                 *)
LEMMA LossKept ==
  ASSUME Core, DOMAIN conns' = DOMAIN conns, Executed \subseteq Executed',
         \A c \in DOMAIN conns :
           /\ conns'[c].whole = conns[c].whole
           /\ conns[c].broken => conns'[c].broken
           /\ \/ conns'[c].broken
              \/ /\ conns[c].reader # "closed" => conns'[c].reader # "closed" \/ AllRead(c)
                 /\ conns'[c].stream = conns[c].stream
                 /\ \A i \in conns[c].taken + 1 .. Len(conns[c].stream) :
                      \/ i \in conns'[c].taken + 1 .. Len(conns[c].stream)
                      \/ conns[c].stream[i][1] = "size"
                      \/ conns[c].stream[i][2] \in Executed'
  PROVE  LostByFaultOnly'
<1> SUFFICES ASSUME NEW c \in DOMAIN conns, NEW m \in conns[c].whole,
                    m \notin Executed', ~conns'[c].broken
             PROVE  /\ conns'[c].reader # "closed"
                    /\ \E i \in conns'[c].taken + 1 .. Len(conns'[c].stream) :
                         conns'[c].stream[i] = <<"body", m>>
  BY DEF LostByFaultOnly
<1>1. m \notin Executed /\ ~conns[c].broken
  OBVIOUS
<1>2. PICK i \in conns[c].taken + 1 .. Len(conns[c].stream) : conns[c].stream[i] = <<"body", m>>
  BY <1>1 DEF Core, LostByFaultOnly
<1>3. conns[c].reader # "closed"
  BY <1>1 DEF Core, LostByFaultOnly
<1>4. ~AllRead(c)
  BY <1>2, Connections DEF AllRead, Core, ExecutedAsRead
<1>5. conns[c].stream[i][1] # "size" /\ conns[c].stream[i][2] = m
  BY <1>2
<1>6. i \in conns'[c].taken + 1 .. Len(conns'[c].stream)
  BY <1>5
<1> QED
  BY <1>2, <1>3, <1>4, <1>6

-----------------------------------------------------------------------------
(* No connection is touched, or only left.                                 *)
SameConns ==
  /\ conns' \in Seq(Connection)
  /\ DOMAIN conns' = DOMAIN conns /\ Len(conns') = Len(conns)
  /\ \A c \in DOMAIN conns :
       /\ conns'[c].stream = conns[c].stream
       /\ conns'[c].whole = conns[c].whole
       /\ conns'[c].taken = conns[c].taken
       /\ conns'[c].reader = conns[c].reader
       /\ conns'[c].broken = conns[c].broken

LEMMA SameKept ==
  ASSUME Core, SameConns, UNCHANGED executed
  PROVE  OnlyCut /\ Framing' /\ LostByFaultOnly' /\ ExecutedAsRead'
<1>1. OnlyCut
  BY DEF SameConns, OnlyCut
<1>2. \A c \in DOMAIN conns : conns'[c].stream \in Seq(Cells)
  BY Connections DEF Core, SameConns, Connection
<1>3. Framing'
  BY <1>1, <1>2, FramingKept
<1>4. Executed' = Executed
  BY DEF Executed
<1>5. LostByFaultOnly'
  BY <1>4, LossKept DEF SameConns
<1>6. ExecutedAsRead'
  <2>1. \A c \in DOMAIN conns : conns[c].taken \in 0 .. Len(conns[c].stream)
    BY DEF Core, ExecutedAsRead
  <2>2. \A c \in DOMAIN conns : conns[c].taken <= conns[c].taken
    BY <2>1
  <2> QED
    BY <2>1, <2>2, ReadKept DEF SameConns
<1> QED
  BY <1>1, <1>3, <1>5, <1>6

LEMMA UntouchedSame ==
  ASSUME Core, UNCHANGED conns
  PROVE  SameConns
BY DEF Core, TypeOK, SameConns

LEMMA CloseSame ==
  ASSUME Core, Close
  PROVE  SameConns
<1>1. CASE socket = 0
  BY <1>1, UntouchedSame DEF Close
<1>2. CASE socket # 0
  <2> DEFINE r == [conns[socket] EXCEPT !.left = TRUE]
  <2>1. socket \in DOMAIN conns /\ conns[socket] \in Connection
    BY <1>2, Connections DEF Core
  <2>2. r \in Connection /\ r.stream = conns[socket].stream /\ r.whole = conns[socket].whole
        /\ r.taken = conns[socket].taken /\ r.reader = conns[socket].reader
        /\ r.broken = conns[socket].broken
    BY <2>1 DEF Connection
  <2>3. conns' = [conns EXCEPT ![socket] = r]
    BY <1>2 DEF Close, Left
  <2> HIDE DEF r
  <2> QED
    BY <2>1, <2>2, <2>3, OneChanged DEF Core, SameConns
<1> QED
  BY <1>1, <1>2

-----------------------------------------------------------------------------
(* The steps of the sender.                                                *)
LEMMA BroadcastKeeps ==
  ASSUME Core, NEW m \in Messages, Broadcast(m)
  PROVE  Core'
<1>0. UNCHANGED <<lock, socket, call, node, conns, executed>> /\ SameConns
  BY UntouchedSame DEF Broadcast
<1>1. TypeOK'
  BY <1>0 DEF Core, TypeOK, Broadcast
<1>2. Queueing'
  <2>1. /\ \A k \in Messages : writer'[k] = "locking" <=> writer[k] = "locking"
        /\ \A k \in Messages : writer'[k] \in {"none", "started"}
                                => writer[k] \in {"none", "started"}
    BY DEF Core, Broadcast, InOrder, TypeOK
  <2>2. \A k, l \in Messages : writer'[k] # "none" /\ writer'[l] = "none" => k < l
    <3> SUFFICES ASSUME NEW k \in Messages, NEW l \in Messages,
                        writer'[k] # "none", writer'[l] = "none"
                 PROVE  k < l
      OBVIOUS
    <3>1. writer[l] = "none" /\ l # m
      BY DEF Core, Broadcast, TypeOK
    <3>2. ~(l < m) /\ (k # m => writer[k] # "none")
      BY <3>1 DEF Core, Broadcast, InOrder, TypeOK
    <3>3. k \in Nat /\ l \in Nat /\ m \in Nat
      OBVIOUS
    <3> QED
      BY <3>1, <3>2, <3>3 DEF Core, Queueing
  <2> QED
    BY <1>0, <2>1, <2>2 DEF Core, Queueing
<1>3. Calling' /\ Failures' /\ Boundary'
  BY <1>0 DEF Core, Calling, Failures, Boundary
<1>4. \A k \in Messages : ToWrite(k)' => ToWrite(k)
  BY DEF Core, Broadcast, InOrder, ToWrite, TypeOK
<1>5. WrittenInOrder'
  BY <1>0, <1>4, SameKept, OrderKept
<1> QED
  BY <1>0, <1>1, <1>2, <1>3, <1>5, SameKept DEF Core

LEMMA SendKeeps ==
  ASSUME Core, NEW m \in Messages, Send(m)
  PROVE  Core'
<1>0. UNCHANGED <<socket, node, listener, conns, faults, executed>> /\ SameConns
  BY UntouchedSame DEF Send
<1>1. lock \in Seq(Messages) /\ Len(lock) \in Nat /\ DOMAIN lock = 1 .. Len(lock)
  BY LenProperties DEF Core, TypeOK
<1>2. /\ writer[m] = "started"
      /\ \A k \in Messages : writer[k] \in {"none", "started"} => k = m \/ m < k
  <2>1. writer[m] = "started" /\ \A k \in Messages : k < m => writer[k] # "started"
    BY DEF Send, InOrder
  <2>2. \A k \in Messages : writer[k] = "none" => m < k
    BY <2>1 DEF Core, Queueing
  <2>3. \A k \in Messages : k \in Nat
    OBVIOUS
  <2> QED
    BY <2>1, <2>2, <2>3
<1>3. CASE Got
  <2>1. /\ writer' = [writer EXCEPT ![m] = "locking"]
        /\ lock' = Append(lock, m)
        /\ call' = IF lock = <<>> THEN Write(socket) ELSE call
    BY <1>3 DEF Send, Queued, Owner
  <2>2. /\ lock' \in Seq(Messages)
        /\ Len(lock') = Len(lock) + 1 /\ DOMAIN lock' = 1 .. Len(lock) + 1
        /\ \A i \in 1 .. Len(lock) : lock'[i] = lock[i]
        /\ lock'[Len(lock) + 1] = m
        /\ lock # <<>> => Head(lock') = Head(lock)
        /\ lock' # <<>>
    BY <1>1, <2>1, AppendProperties, LenProperties, HeadTailAppend
  <2>3. TypeOK'
    <3>1. Write(socket) \in [op : {"none", "write", "connect"}, written : 0 .. 2,
                             result : {"", "ok", "error"}]
      BY DEF Write
    <3>2. writer' \in [Messages -> {"none", "started", "skipped", "locking", "returned", "threw"}]
      BY <2>1 DEF Core, TypeOK
    <3> QED
      BY <1>0, <2>1, <2>2, <3>1, <3>2 DEF Core, TypeOK
  <2>4. Queueing'
    <3>1. \A i \in 1 .. Len(lock) : lock[i] < m
      BY <1>1, <1>2 DEF Core, Queueing
    <3>2. \A i, j \in DOMAIN lock' : i < j => lock'[i] < lock'[j]
      BY <1>1, <2>2, <3>1 DEF Core, Queueing
    <3>3. \A k \in Messages : writer'[k] = "locking" <=> k = m \/ writer[k] = "locking"
      BY <2>1 DEF Core, TypeOK
    <3>4. \A k \in Messages : writer'[k] = "locking" <=> \E i \in DOMAIN lock' : lock'[i] = k
      <4> TAKE k \in Messages
      <4>1. (\E i \in DOMAIN lock' : lock'[i] = k) <=> (k = m \/ \E i \in DOMAIN lock : lock[i] = k)
        BY <1>1, <2>2
      <4> QED
        BY <3>3, <4>1 DEF Core, Queueing
    <3>5. \A k \in Messages : writer'[k] \in {"none", "started"}
                             => m < k /\ writer[k] \in {"none", "started"}
      BY <1>2, <2>1 DEF Core, TypeOK
    <3>6. \A i \in DOMAIN lock' : \A k \in Messages :
             writer'[k] \in {"none", "started"} => lock'[i] < k
      BY <1>1, <2>2, <3>5 DEF Core, Queueing
    <3>7. \A k, l \in Messages : writer'[k] # "none" /\ writer'[l] = "none" => k < l
      BY ZenonT(60), <1>2, <2>1 DEF Core, TypeOK, Queueing
    <3> QED
      BY <3>2, <3>4, <3>6, <3>7 DEF Queueing
  <2>5. ASSUME lock = <<>>
        PROVE  Calling' /\ Failures' /\ Boundary'
    <3>1. call' = Write(socket) /\ call'.written \in Nat /\ call'.written = 0 /\ call'.op = "write"
          /\ call'.result = IF socket = 0 THEN "error" ELSE ""
      BY <2>1, <2>5 DEF Write
    <3>2. call.op = "none" /\ call.written \in Nat /\ call.written = 0
      BY <2>5, Idle
    <3>3. Calling'
      <4>1. node.disconnected => socket = 0
        BY DEF Core, Calling
      <4>0. call'.written \in Nat /\ call'.written = 0
        BY <3>1
      <4>2. ~(call'.written > 0) /\ call'.written # 2
        BY <4>0
      <4>3. UNCHANGED <<socket, node>> /\ lock' # <<>>
        BY <1>0, <2>2
      <4> QED
        BY <3>1, <4>1, <4>2, <4>3 DEF Calling
    <3>4. Failures'
      BY <1>0, <3>1 DEF Core, Failures
    <3>5. Boundary'
      <4>2. call'.written \in Nat /\ call'.written = 0 /\ call.written \in Nat /\ call.written = 0
        BY <3>1, <3>2
      <4>1. Boundary /\ call.written # 1 /\ call'.written # 1
        BY <4>2 DEF Core
      <4> QED
        BY <1>0, <4>1 DEF Boundary
    <3> QED
      BY <3>3, <3>4, <3>5
  <2>6. ASSUME lock # <<>>
        PROVE  Calling' /\ Failures' /\ Boundary'
    <3>1. UNCHANGED call /\ Head(lock') = Head(lock) /\ lock' # <<>>
      BY <2>1, <2>2, <2>6
    <3>2. Calling'
      BY <1>0, <2>6, <3>1 DEF Core, Calling
    <3>4. Failures'
      BY <1>0, <3>1 DEF Core, Failures
    <3>3. Boundary'
      BY <1>0, <3>1 DEF Core, Boundary
    <3> QED
      BY <3>1, <3>2, <3>3, <3>4
  <2>8. WrittenInOrder'
    <3>1. \A k \in Messages : ToWrite(k)' => ToWrite(k)
      BY <1>2, <2>1 DEF Core, TypeOK, ToWrite
    <3>2. call.written = 2 => lock # <<>> /\ UNCHANGED call /\ Head(lock') = Head(lock)
      BY <2>1, <2>2, Idle
    <3> QED
      BY <1>0, <3>1, <3>2, SameKept, OrderKept
  <2> QED
    BY <1>0, <2>3, <2>4, <2>5, <2>6, <2>8, SameKept DEF Core
<1>4. CASE ~Got
  <2>1. writer' = [writer EXCEPT ![m] = "threw"] /\ UNCHANGED <<lock, call>>
    BY <1>4 DEF Send
  <2>2. TypeOK'
    <3>1. writer' \in [Messages -> {"none", "started", "skipped", "locking", "returned", "threw"}]
      BY <2>1 DEF Core, TypeOK
    <3> QED
      BY <1>0, <2>1, <3>1 DEF Core, TypeOK
  <2>3. Queueing'
    <3>1. \A k \in Messages :
            /\ writer'[k] = "locking" <=> writer[k] = "locking"
            /\ writer'[k] = "none" <=> writer[k] = "none"
            /\ writer'[k] = "started" => writer[k] = "started"
      <4> TAKE k \in Messages
      <4>1. writer[m] = "started" /\ writer'[m] = "threw"
        BY <1>2, <2>1 DEF Core, TypeOK
      <4>2. k # m => writer'[k] = writer[k]
        BY <2>1 DEF Core, TypeOK
      <4> QED
        BY <4>1, <4>2
    <3> QED
      BY <2>1, <3>1 DEF Core, Queueing
  <2>4. Calling' /\ Failures' /\ Boundary'
    BY <1>0, <2>1 DEF Core, Calling, Failures, Boundary
  <2>5. WrittenInOrder'
    <3>1. \A k \in Messages : ToWrite(k)' => ToWrite(k)
      BY <2>1 DEF Core, TypeOK, ToWrite
    <3> QED
      BY <1>0, <2>1, <3>1, SameKept, OrderKept
  <2> QED
    BY <1>0, <2>2, <2>3, <2>4, <2>5, SameKept DEF Core
<1> QED
  BY <1>3, <1>4

(* The writer leaves, and the next one begins with an open socket or with  *)
(* an error.                                                               *)
LEMMA LeavesKeep ==
  ASSUME Core, lock # <<>>, SameConns, UNCHANGED <<node, listener, faults, executed>>,
         NEW how \in {"returned", "threw"}, Leaves(how, socket'), socket' \in {0, socket},
         node.disconnected => socket' = 0
  PROVE  /\ TypeOK' /\ Queueing' /\ Calling' /\ WrittenInOrder'
         /\ call'.written \in Nat /\ call'.written = 0
         /\ socket' # 0 => call'.result # "error"
<1> DEFINE h == Head(lock)
<1>1. /\ lock \in Seq(Messages) /\ Len(lock) \in Nat /\ DOMAIN lock = 1 .. Len(lock)
      /\ Len(lock) # 0 /\ h = lock[1] /\ 1 \in DOMAIN lock /\ h \in Messages
  BY Owners DEF Core
<1>2. /\ lock' \in Seq(Messages) /\ DOMAIN lock' = 1 .. Len(lock) - 1
      /\ \A i \in 1 .. Len(lock) - 1 : lock'[i] = lock[i + 1]
      /\ lock' # <<>> <=> Len(lock) > 1
  <2>1. /\ lock' \in Seq(Messages) /\ Len(lock') = Len(lock) - 1
        /\ \A i \in 1 .. Len(lock') : lock'[i] = lock[i + 1]
    BY <1>1, HeadTailProperties DEF Leaves
  <2>2. DOMAIN lock' = 1 .. Len(lock')
    BY <2>1, LenProperties
  <2>3. lock' = <<>> <=> Len(lock') = 0
    BY <2>1, EmptySeq
  <2> QED
    BY <1>1, <2>1, <2>2, <2>3
<1>3. /\ writer' \in [Messages -> {"none", "started", "skipped", "locking", "returned", "threw"}]
      /\ writer[h] = "locking" /\ writer'[h] = how
      /\ \A k \in Messages : k # h => writer'[k] = writer[k]
  <2>1. writer[h] = "locking"
    BY <1>1 DEF Core, Queueing
  <2>2. writer' = [writer EXCEPT ![h] = how]
    BY DEF Leaves
  <2> QED
    BY <1>1, <2>1, <2>2 DEF Core, TypeOK
<1>4. /\ lock' # <<>> => call' = Write(socket')
      /\ lock' = <<>> => call' = NoCall
  BY <1>2 DEF Leaves
<1>5. /\ call' \in CallType
      /\ call'.written \in Nat /\ call'.written = 0
      /\ call'.op = IF lock' = <<>> THEN "none" ELSE "write"
      /\ call'.result = IF lock' = <<>> \/ socket' # 0 THEN "" ELSE "error"
  <2>1. Write(socket') \in CallType /\ NoCall \in CallType
    BY DEF Write, NoCall, CallType
  <2>2. Write(socket').written = 0 /\ NoCall.written = 0
    BY DEF Write, NoCall
  <2>3. /\ Write(socket').op = "write" /\ NoCall.op = "none" /\ NoCall.result = ""
        /\ Write(socket').result = IF socket' # 0 THEN "" ELSE "error"
    BY DEF Write, NoCall
  <2>4. call' \in CallType
    BY <1>4, <2>1
  <2>5. call'.written = 0
    BY <1>4, <2>2
  <2>6. call'.op = IF lock' = <<>> THEN "none" ELSE "write"
    BY <1>4, <2>3
  <2>7. call'.result = IF lock' = <<>> \/ socket' # 0 THEN "" ELSE "error"
    BY <1>4, <2>3
  <2>8. call'.written \in Nat
    BY <2>5
  <2> QED
    BY <2>4, <2>5, <2>6, <2>7, <2>8
<1>6. TypeOK'
  <2>1. socket' \in {0, Len(conns')}
    <3>1. socket = 0 \/ socket = Len(conns)
      BY DEF Core, TypeOK
    <3> QED
      BY <3>1 DEF SameConns
  <2> QED
    BY <1>2, <1>3, <1>5, <2>1 DEF Core, TypeOK, SameConns, CallType
<1>7. Queueing'
  <2>1. \A i \in 1 .. Len(lock) - 1 : i + 1 \in DOMAIN lock /\ h < lock[i + 1]
    BY <1>1 DEF Core, Queueing
  <2>2. \A i, j \in DOMAIN lock' : i < j => lock'[i] < lock'[j]
    <3> SUFFICES ASSUME NEW i \in DOMAIN lock', NEW j \in DOMAIN lock', i < j
                 PROVE  lock[i + 1] < lock[j + 1]
      BY <1>2
    <3>1. i + 1 \in DOMAIN lock /\ j + 1 \in DOMAIN lock /\ i + 1 < j + 1
      BY <1>1, <1>2
    <3> QED
      BY <3>1 DEF Core, Queueing
  <2>3. \A k \in Messages : writer'[k] = "locking" <=> \E i \in DOMAIN lock' : lock'[i] = k
    <3> TAKE k \in Messages
    <3>1. CASE k = h
      <4>1. writer'[k] # "locking"
        BY <1>3, <3>1
      <4>2. \A i \in DOMAIN lock' : lock'[i] # k
        <5> TAKE i \in DOMAIN lock'
        <5>1. i + 1 \in DOMAIN lock /\ h < lock[i + 1] /\ lock'[i] = lock[i + 1]
          BY <1>2, <2>1
        <5>2. h \in Nat /\ lock[i + 1] \in Nat
          BY <1>1, <5>1, ElementOfSeq
        <5> QED
          BY <3>1, <5>1, <5>2
      <4> QED
        BY <4>1, <4>2
    <3>2. CASE k # h
      <4>1. writer'[k] = "locking" <=> \E i \in DOMAIN lock : lock[i] = k
        BY <1>3, <3>2 DEF Core, Queueing
      <4>2. ASSUME NEW i \in DOMAIN lock, lock[i] = k
            PROVE  i - 1 \in DOMAIN lock' /\ lock'[i - 1] = k
        <5>1. i \in 1 .. Len(lock) /\ i # 1
          BY <1>1, <3>2, <4>2
        <5>2. i - 1 \in 1 .. Len(lock) - 1 /\ (i - 1) + 1 = i
          BY <1>1, <5>1
        <5> QED
          BY <1>2, <4>2, <5>2
      <4>3. \A i \in DOMAIN lock' : i + 1 \in DOMAIN lock /\ lock'[i] = lock[i + 1]
        BY <1>2, <2>1
      <4> QED
        BY <4>1, <4>2, <4>3
    <3> QED
      BY <3>1, <3>2
  <2>4. \A k \in Messages : /\ writer'[k] = "none" <=> writer[k] = "none"
                            /\ writer'[k] = "started" <=> writer[k] = "started"
    BY <1>3
  <2>5. \A i \in DOMAIN lock' : \A k \in Messages :
           writer'[k] \in {"none", "started"} => lock'[i] < k
    BY <1>2, <2>1, <2>4 DEF Core, Queueing
  <2> QED
    BY <2>2, <2>3, <2>4, <2>5 DEF Core, Queueing
<1>8. Calling'
  <2>1. ~(call'.written > 0) /\ call'.written # 2
    <3>1. call'.written \in Nat /\ call'.written = 0
      BY <1>5
    <3> QED
      BY <3>1
  <2>2. node'.disconnected => socket' = 0
    OBVIOUS
  <2> QED
    BY <1>5, <2>1, <2>2 DEF Calling
<1>9. WrittenInOrder'
  <2>1. \A k \in Messages : ToWrite(k)' => ToWrite(k) /\ k # h
    BY <1>3 DEF ToWrite
  <2> QED
    BY <2>1, SameKept, OrderKept
<1> QED
  BY <1>5, <1>6, <1>7, <1>8, <1>9

LEMMA WrittenKeeps ==
  ASSUME Core, Written
  PROVE  Core'
<1>1. UNCHANGED <<socket, node, listener, conns, faults, executed>> /\ SameConns
  BY UntouchedSame DEF Written
<1>2. call.op = "write" /\ call.result = "ok" /\ Leaves("returned", socket')
  BY <1>1 DEF Written
<1>3. lock # <<>> /\ call.written = 2
  BY <1>2 DEF Core, Calling
<1>4. node.disconnected => socket' = 0
  BY <1>1 DEF Core, Calling
<1>5. socket' \in {0, socket}
  BY <1>1
<1>6. /\ TypeOK' /\ Queueing' /\ Calling' /\ WrittenInOrder'
      /\ call'.written \in Nat /\ call'.written = 0
      /\ socket' # 0 => call'.result # "error"
  BY <1>1, <1>2, <1>3, <1>4, <1>5, LeavesKeep
<1>7. Failures'
  BY <1>1, <1>6 DEF Core, Failures
<1>8. Boundary'
  <2>1. call.written # 1 /\ call'.written # 1
    BY <1>3, <1>6
  <2> QED
    BY <1>1, <2>1 DEF Core, Boundary
<1> QED
  BY <1>1, <1>6, <1>7, <1>8, SameKept DEF Core

(* The socket was closed because of an error, or the node was removed.     *)
LEMMA ClosedFails ==
  ASSUME Core, Close, call.result = "error" \/ node'.disconnected,
         node.disconnected => node'.disconnected
  PROVE  Failures'
<1>0. SameConns /\ socket' = 0
  BY CloseSame DEF Close
<1>1. /\ DOMAIN conns' = DOMAIN conns /\ Len(conns') = Len(conns)
      /\ \A c \in DOMAIN conns : conns'[c].broken = conns[c].broken
  BY <1>0 DEF SameConns
<1>2. \A c \in DOMAIN conns' : c < Len(conns') => conns'[c].broken
  BY <1>1 DEF Core, Failures
<1>3. ASSUME conns' # <<>>, ~node'.disconnected
      PROVE  conns'[Len(conns')].broken
  <2>1. conns # <<>> /\ Len(conns) \in DOMAIN conns
    <3>1. conns' \in Seq(Connection) /\ conns \in Seq(Connection)
      BY <1>0 DEF SameConns, Core, TypeOK
    <3>2. Len(conns') # 0 /\ Len(conns) \in Nat /\ DOMAIN conns = 1 .. Len(conns)
      BY <1>3, <3>1, EmptySeq, LenProperties
    <3>3. Len(conns) # 0
      BY <1>1, <3>2
    <3> QED
      BY <3>2, <3>3, EmptySeq
  <2>2. socket = 0 \/ socket = Len(conns)
    BY DEF Core, TypeOK
  <2>3. CASE socket = 0
    BY <1>1, <1>3, <2>1, <2>3 DEF Core, Failures
  <2>4. CASE socket # 0
    <3>1. conns[socket].broken
      BY <1>3, <2>4 DEF Core, Failures
    <3> QED
      BY <1>1, <2>1, <2>2, <2>4, <3>1
  <2> QED
    BY <2>3, <2>4
<1> QED
  BY <1>0, <1>2, <1>3 DEF Failures

LEMMA FailedKeeps ==
  ASSUME Core, Failed
  PROVE  Core'
<1>1. /\ UNCHANGED <<node, listener, faults, executed>>
      /\ Close /\ SameConns /\ call.result = "error" /\ socket' = 0
  BY CloseSame DEF Failed, Close
<1>2. Failures' /\ Boundary'
  BY <1>1, ClosedFails DEF Boundary
<1>3. lock # <<>> /\ call.written # 2
  <2>1. call.op # "none"
    BY <1>1 DEF Core, Calling
  <2>2. call.written \in Nat /\ ~(call.written > 0 /\ call.op # "write")
    BY Calls DEF Core, Calling
  <2>3. call.op = "write" => call.written # 2
    BY <1>1 DEF Core, Calling
  <2>4. call.op # "write" => call.written # 2
    BY <2>2
  <2> QED
    BY <2>1, <2>3, <2>4 DEF Core, Calling
<1>4. CASE MayConnect
  <2>1. call' = Connect /\ UNCHANGED <<writer, lock>> /\ ~node.disconnected
    BY <1>4 DEF Failed, MayConnect
  <2>2. Connect \in CallType /\ Connect.op = "connect" /\ Connect.result = ""
    BY DEF Connect, CallType
  <2>3. Connect.written \in Nat /\ Connect.written = 0
    BY DEF Connect
  <2>4. TypeOK'
    BY <1>1, <2>1, <2>2 DEF Core, TypeOK, SameConns, CallType
  <2>5. Queueing'
    BY <2>1 DEF Core, Queueing
  <2>6. Calling'
    <3>1. ~(call'.written > 0)
      BY <2>1, <2>3
    <3> QED
      BY <1>1, <1>3, <2>1, <2>2, <3>1 DEF Calling
  <2>7. WrittenInOrder'
    <3>1. \A k \in Messages : ToWrite(k)' => ToWrite(k)
      BY <2>1 DEF ToWrite
    <3> QED
      BY <1>1, <1>3, <3>1, SameKept, OrderKept
  <2> QED
    BY <1>1, <1>2, <2>4, <2>5, <2>6, <2>7, SameKept DEF Core
<1>5. CASE ~MayConnect
  <2>1. Leaves("threw", socket')
    BY <1>1, <1>5 DEF Failed
  <2>2. socket' \in {0, socket}
    BY <1>1
  <2>3. TypeOK' /\ Queueing' /\ Calling' /\ WrittenInOrder'
    BY <1>1, <1>3, <2>1, <2>2, LeavesKeep
  <2> QED
    BY <1>1, <1>2, <2>3, SameKept DEF Core
<1> QED
  BY <1>4, <1>5

LEMMA ConnectedKeeps ==
  ASSUME Core, Connected
  PROVE  Core'
<1>1. UNCHANGED <<writer, lock, socket, node, listener, conns, faults, executed>> /\ SameConns
  BY UntouchedSame DEF Connected
<1>2. call.op = "connect" /\ call' = Write(socket)
  BY DEF Connected, WriteAgain
<1>3. /\ Write(socket) \in CallType /\ Write(socket).op = "write"
      /\ Write(socket).result = IF socket = 0 THEN "error" ELSE ""
  BY DEF Write, CallType
<1>4. Write(socket).written \in Nat /\ Write(socket).written = 0
  BY DEF Write
<1>5. call.written \in Nat /\ call.written = 0
  <2>1. call.written \in Nat /\ ~(call.written > 0)
    BY <1>2, Calls DEF Core, Calling
  <2> QED
    BY <2>1
<1>6. call'.written \in Nat /\ call'.written = 0
  BY <1>2, <1>4
<1>7. TypeOK'
  BY <1>1, <1>2, <1>3 DEF Core, TypeOK, CallType
<1>8. Queueing'
  BY <1>1 DEF Core, Queueing
<1>9. Calling'
  <2>1. ~(call'.written > 0) /\ call'.written # 2
    BY <1>6
  <2>2. lock # <<>> /\ (node.disconnected => socket = 0)
    BY <1>2 DEF Core, Calling
  <2> QED
    BY <1>1, <1>2, <1>3, <2>1, <2>2 DEF Calling
<1>10. Failures'
  BY <1>1, <1>2, <1>3 DEF Core, Failures
<1>11. Boundary'
  <2>1. call.written # 1 /\ call'.written # 1
    BY <1>5, <1>6
  <2> QED
    BY <1>1, <2>1 DEF Core, Boundary
<1>12. WrittenInOrder'
  <2>1. call.written # 2
    BY <1>5
  <2>2. \A k \in Messages : ToWrite(k)' => ToWrite(k)
    BY <1>1 DEF ToWrite
  <2> QED
    BY <1>1, <2>1, <2>2, SameKept, OrderKept
<1> QED
  BY <1>1, <1>7, <1>8, <1>9, <1>10, <1>11, <1>12, SameKept DEF Core

(* Nodes::remove() and Nodes::cleanup(), a second time too.                *)
LEMMA DisconnectKeeps ==
  ASSUME Core, Disconnect, node'.disconnected,
         node' \in [listed : BOOLEAN, present : BOOLEAN, disconnected : BOOLEAN],
         UNCHANGED <<writer, lock, listener, faults, executed>>
  PROVE  Core'
<1>1. CASE node.disconnected
  <2>1. UNCHANGED <<socket, conns, call>> /\ SameConns
    BY <1>1, UntouchedSame DEF Disconnect
  <2>2. TypeOK'
    BY <2>1 DEF Core, TypeOK
  <2>3. Queueing' /\ Boundary'
    BY <2>1 DEF Core, Queueing, Boundary
  <2>4. Calling'
    BY <1>1, <2>1 DEF Core, Calling
  <2>5. Failures'
    BY <1>1, <2>1 DEF Core, Failures
  <2>6. WrittenInOrder'
    BY <2>1, SameKept, OrderKept DEF ToWrite
  <2> QED
    BY <2>1, <2>2, <2>3, <2>4, <2>5, <2>6, SameKept DEF Core
<1>2. CASE ~node.disconnected
  <2>1. Close /\ SameConns /\ socket' = 0 /\ call' = Aborted
    BY <1>2, CloseSame DEF Disconnect, Close
  <2>2. call \in CallType /\ call.written \in Nat
    BY Calls DEF Core
  <2>3. /\ call' \in CallType /\ call'.op = call.op /\ call'.written = call.written
        /\ call'.result = IF call.op # "none" /\ call.result = "" THEN "error" ELSE call.result
    BY <2>1, <2>2 DEF Aborted, CallType
  <2>4. TypeOK'
    BY <2>1, <2>3 DEF Core, TypeOK, SameConns, CallType
  <2>5. Queueing' /\ Boundary'
    BY <2>1 DEF Core, Queueing, Boundary
  <2>6. Calling'
    <3>1. ~(call'.written > 0 /\ call'.op # "write")
      BY <2>3 DEF Core, Calling
    <3>2. call'.op = "write" => (call'.result = "ok" <=> call'.written = 2)
      BY <2>3 DEF Core, Calling
    <3>3. /\ call'.op = "none" <=> lock' = <<>>
          /\ call'.op = "none" => call'.result = ""
          /\ call'.op # "none" => call'.result # ""
      BY <2>3 DEF Core, Calling
    <3> QED
      BY <2>1, <3>1, <3>2, <3>3 DEF Calling
  <2>7. Failures'
    BY <1>2, <2>1, ClosedFails
  <2>8. WrittenInOrder'
    BY <2>1, <2>3, SameKept, OrderKept DEF ToWrite
  <2> QED
    BY <2>1, <2>4, <2>5, <2>6, <2>7, <2>8, SameKept DEF Core
<1> QED
  BY <1>1, <1>2

LEMMA RemovalKeeps ==
  ASSUME Core, RemoveNode \/ Cleanup
  PROVE  Core'
<1>1. /\ Disconnect /\ UNCHANGED <<writer, lock, listener, faults, executed>>
      /\ node' = [node EXCEPT !.listed = FALSE, !.disconnected = TRUE]
         \/ node' = [node EXCEPT !.present = FALSE, !.disconnected = TRUE]
  BY DEF RemoveNode, Cleanup
<1>2. /\ node' \in [listed : BOOLEAN, present : BOOLEAN, disconnected : BOOLEAN]
      /\ node'.disconnected
  BY <1>1 DEF Core, TypeOK
<1> QED
  BY <1>1, <1>2, DisconnectKeeps

-----------------------------------------------------------------------------
(* The steps of the system.                                                *)
LEMMA WriteFailsKeeps ==
  ASSUME Core, WriteFails
  PROVE  Core'
<1>1. UNCHANGED <<writer, lock, socket, node, listener, conns, faults, executed>> /\ SameConns
  BY UntouchedSame DEF WriteFails
<1>2. /\ call.op = "write" /\ call.result = "" /\ socket # 0
      /\ conns[socket].left \/ conns[socket].reader = "closed"
      /\ call' = [call EXCEPT !.result = "error"]
  BY DEF WriteFails, Pending
<1>3. /\ call' \in CallType /\ call'.op = "write" /\ call'.result = "error"
      /\ call'.written = call.written
  <2>1. call \in CallType
    BY Calls DEF Core
  <2> QED
    BY <1>2, <2>1 DEF CallType
<1>4. TypeOK'
  BY <1>1, <1>3 DEF Core, TypeOK, CallType
<1>5. Queueing'
  BY <1>1 DEF Core, Queueing
<1>6. Calling'
  <2>1. call'.written # 2
    BY <1>2, <1>3 DEF Core, Calling
  <2>2. lock' # <<>> /\ ~node'.disconnected
    BY <1>1, <1>2 DEF Core, Calling
  <2> QED
    BY <1>3, <2>1, <2>2 DEF Calling
<1>7. Failures'
  BY <1>1, <1>2 DEF Core, Failures
<1>8. Boundary'
  BY <1>1, <1>3 DEF Core, Boundary
<1>9. WrittenInOrder'
  BY <1>1, <1>3, SameKept, OrderKept DEF ToWrite
<1> QED
  BY <1>1, <1>4, <1>5, <1>6, <1>7, <1>8, <1>9, SameKept DEF Core

(* A connection that is opened replaces one that has failed.               *)
LEMMA ConnectEndsKeeps ==
  ASSUME Core, ConnectEnds
  PROVE  Core'
<1>1. /\ UNCHANGED <<writer, lock, node, listener, faults, executed>>
      /\ call.op = "connect" /\ call.result = "" /\ call \in CallType
      /\ socket = 0 /\ lock # <<>> /\ ~node.disconnected
  BY Calls DEF Core, ConnectEnds, Calling
<1>2. call.written \in Nat /\ call.written = 0
  <2>1. call.written \in Nat /\ ~(call.written > 0)
    BY <1>1, Calls DEF Core, Calling
  <2> QED
    BY <2>1
<1>3. ASSUME NEW how \in {"ok", "error"}, call' = [call EXCEPT !.result = how]
      PROVE  /\ call' \in CallType /\ call'.op = "connect" /\ call'.result = how
             /\ call'.written = call.written
  BY <1>1, <1>3 DEF CallType
<1>4. CASE listener \in {"accepting", "raised"}
  <2>1. conns' = Append(conns, NewConn) /\ socket' = Len(conns')
    BY <1>4 DEF ConnectEnds
  <2>2. call' \in CallType /\ call'.op = "connect" /\ call'.result = "ok"
        /\ call'.written = call.written
    BY <1>3, <1>4 DEF ConnectEnds
  <2>3. /\ NewConn \in Connection
        /\ NewConn.stream = <<>> /\ NewConn.taken = 0 /\ NewConn.reader = "backlog"
        /\ NewConn.whole = {} /\ ~NewConn.left
    BY EmptySeq DEF NewConn, Connection
  <2>4. conns \in Seq(Connection) /\ Len(conns) \in Nat /\ DOMAIN conns = 1 .. Len(conns)
    BY Connections DEF Core, TypeOK
  <2> DEFINE new == Len(conns) + 1
  <2>5. /\ conns' \in Seq(Connection) /\ Len(conns') = new /\ DOMAIN conns' = 1 .. new
        /\ conns'[new] = NewConn /\ \A c \in DOMAIN conns : conns'[c] = conns[c]
    BY <2>1, <2>3, <2>4, AppendProperties, LenProperties
  <2>6. DOMAIN conns' = DOMAIN conns \cup {new} /\ new \notin DOMAIN conns
    BY <2>4, <2>5
  <2>7. Len(conns'[new].stream) = 0 /\ DOMAIN conns'[new].stream = {}
    <3>1. <<>> \in Seq(Cells) /\ Len(<<>>) = 0
      BY EmptySeq
    <3> QED
      BY <2>3, <2>5, <3>1, LenProperties
  <2>8. TypeOK'
    BY <1>1, <2>1, <2>2, <2>5 DEF Core, TypeOK, CallType
  <2>9. Queueing'
    BY <1>1 DEF Core, Queueing
  <2>10. Calling'
    <3>1. ~(call'.written > 0)
      BY <1>2, <2>2
    <3> QED
      BY <1>1, <2>2, <3>1 DEF Calling
  <2>11. Framing'
    BY ZenonT(60), <2>5, <2>6, <2>7 DEF Core, Framing
  <2>12. Failures'
    <3>1. \A c \in DOMAIN conns' : c < Len(conns') => conns'[c].broken
      <4>1. \A c \in DOMAIN conns : c < Len(conns) \/ (c = Len(conns) /\ conns # <<>>)
        <5>1. conns = <<>> => Len(conns) = 0
          BY EmptySeq
        <5> QED
          BY <2>4, <5>1
      <4>2. \A c \in DOMAIN conns : conns[c].broken
        BY <1>1, <4>1 DEF Core, Failures
      <4> QED
        BY <2>4, <2>5, <2>6, <4>2
    <3>2. socket' = new /\ new # 0
      BY <2>1, <2>4, <2>5
    <3> QED
      BY <2>2, <2>3, <2>5, <3>1, <3>2 DEF Failures
  <2>13. Boundary'
    <3>1. socket' = new /\ call'.written # 1
      BY <1>2, <2>1, <2>2, <2>5
    <3>2. Len(conns'[new].stream) % 2 = 0
      BY <2>7
    <3> QED
      BY <3>1, <3>2 DEF Boundary
  <2>14. WrittenInOrder'
    <3>1. conns'[new].whole = {}
      BY <2>3, <2>5
    <3>2. \A k \in Messages : ToWrite(k)' => ToWrite(k)
      BY <1>1 DEF ToWrite
    <3>3. \A c \in DOMAIN conns : \A m \in conns[c].whole : \A k \in Messages :
            ToWrite(k) => m < k
      BY <1>2 DEF Core, WrittenInOrder
    <3> HIDE DEF new
    <3> QED
      BY <2>5, <2>6, <2>7, <3>1, <3>2, <3>3 DEF Core, WrittenInOrder
  <2>15. ExecutedAsRead'
    <3>1. \A c \in DOMAIN conns' : conns'[c].taken \in 0 .. Len(conns'[c].stream)
      <4>1. conns'[new].taken = 0 /\ 0 \in 0 .. Len(conns'[new].stream)
        BY <2>3, <2>5, <2>7
      <4>2. \A c \in DOMAIN conns : conns'[c].taken \in 0 .. Len(conns'[c].stream)
        BY <2>5 DEF Core, ExecutedAsRead
      <4> QED
        BY <2>6, <4>1, <4>2
    <3>2. \A c \in DOMAIN conns :
            /\ conns[c].taken <= conns'[c].taken
            /\ \A i \in 1 .. conns[c].taken : conns'[c].stream[i] = conns[c].stream[i]
      BY <2>5 DEF Core, ExecutedAsRead
    <3> QED
      BY <1>1, <2>6, <3>1, <3>2, ReadKept
  <2>16. LostByFaultOnly'
    <3>1. conns'[new].whole = {} /\ Executed' = Executed
      BY <1>1, <2>3, <2>5 DEF Executed
    <3> HIDE DEF new
    <3> SUFFICES ASSUME NEW c \in DOMAIN conns, NEW m \in conns'[c].whole
                 PROVE  \/ m \in Executed'
                        \/ conns'[c].broken
                        \/ /\ conns'[c].reader # "closed"
                           /\ \E i \in conns'[c].taken + 1 .. Len(conns'[c].stream) :
                                conns'[c].stream[i] = <<"body", m>>
      BY <2>6, <3>1 DEF LostByFaultOnly
    <3>2. conns'[c] = conns[c]
      BY <2>5
    <3> QED
      BY <3>1, <3>2 DEF Core, LostByFaultOnly
  <2> QED
    BY <2>8, <2>9, <2>10, <2>11, <2>12, <2>13, <2>14, <2>15, <2>16 DEF Core
<1>5. CASE listener \notin {"accepting", "raised"}
  <2>1. UNCHANGED <<conns, socket>> /\ SameConns
    BY <1>5, UntouchedSame DEF ConnectEnds
  <2>2. call' \in CallType /\ call'.op = "connect" /\ call'.result = "error"
        /\ call'.written = call.written
    BY <1>3, <1>5 DEF ConnectEnds
  <2>3. TypeOK'
    BY <1>1, <2>1, <2>2 DEF Core, TypeOK, CallType
  <2>4. Queueing' /\ Boundary'
    BY <1>1, <2>1 DEF Core, Queueing, Boundary
  <2>5. Calling'
    <3>1. ~(call'.written > 0)
      BY <1>2, <2>2
    <3> QED
      BY <1>1, <2>1, <2>2, <3>1 DEF Calling
  <2>6. Failures'
    BY <1>1, <2>1 DEF Core, Failures
  <2>7. WrittenInOrder'
    BY <1>1, <2>1, <2>2, SameKept, OrderKept DEF ToWrite
  <2> QED
    BY <1>1, <2>1, <2>3, <2>4, <2>5, <2>6, <2>7, SameKept DEF Core
<1> QED
  BY <1>4, <1>5

(* The cell that is taken belongs to the packet of who owns the mutex.     *)
LEMMA TransferKeeps ==
  ASSUME Core, Transfer
  PROVE  Core'
<1> DEFINE h == Head(lock)
           n == call.written + 1
           old == conns[socket].stream
           L == Len(old)
           cell == <<IF n = 1 THEN "size" ELSE "body", h>>
           r == [conns[socket] EXCEPT !.stream = Append(old, cell),
                                      !.whole = IF n = 2 THEN @ \cup {h} ELSE @]
<1>1. /\ UNCHANGED <<writer, lock, socket, node, listener, faults, executed>>
      /\ call.op = "write" /\ call.result = "" /\ socket # 0 /\ ~conns[socket].left
      /\ call \in CallType /\ lock # <<>> /\ ~node.disconnected
  BY Calls DEF Core, Transfer, Calling
<1>2. call.written \in Nat /\ (call.written = 0 \/ call.written = 1) /\ n \in {1, 2}
  <2>1. call.written \in 0 .. 2 /\ call.written # 2
    BY <1>1, Calls DEF Core, Calling
  <2> QED
    BY <2>1
<1>3. /\ h = lock[1] /\ h \in Messages /\ writer[h] = "locking"
      /\ \A k \in Messages : ToWrite(k) => k = h \/ h < k
  <2>2. Len(lock) \in Nat /\ DOMAIN lock = 1 .. Len(lock)
    BY <1>1, Owners DEF Core
  <2>3. h = lock[1] /\ h \in Messages /\ 1 \in DOMAIN lock
    BY <1>1, Owners DEF Core
  <2>4. writer[h] = "locking"
    BY <2>3 DEF Core, Queueing
  <2>5. ASSUME NEW k \in Messages, writer[k] = "locking"
        PROVE  k = h \/ h < k
    <3>1. PICK i \in DOMAIN lock : lock[i] = k
      BY <2>5 DEF Core, Queueing
    <3>2. i = 1 \/ 1 < i
      BY <2>2
    <3> QED
      BY <2>3, <3>1, <3>2 DEF Core, Queueing
  <2>6. \A k \in Messages : writer[k] \in {"none", "started"} => h < k
    BY <2>3 DEF Core, Queueing
  <2> QED
    BY <2>3, <2>4, <2>5, <2>6 DEF ToWrite
<1>4. /\ socket \in DOMAIN conns /\ conns[socket] \in Connection
      /\ old \in Seq(Cells) /\ L \in Nat /\ DOMAIN old = 1 .. L
      /\ socket = Len(conns) /\ Len(conns) \in Nat
  <2>1. socket = Len(conns)
    BY <1>1 DEF Core, TypeOK
  <2>2. socket \in DOMAIN conns /\ conns[socket] \in Connection
    BY <1>1, Connections DEF Core
  <2>3. old \in Seq(Cells)
    BY <2>2 DEF Connection
  <2> QED
    BY <2>1, <2>2, <2>3, LenProperties, Connections DEF Core
<1>5. cell \in Cells /\ Packet(h)[n] = cell
  BY <1>2, <1>3 DEF Packet, Cells
<1>6. /\ Append(old, cell) \in Seq(Cells) /\ Len(Append(old, cell)) = L + 1
      /\ DOMAIN Append(old, cell) = 1 .. L + 1
      /\ \A i \in 1 .. L : Append(old, cell)[i] = old[i]
      /\ Append(old, cell)[L + 1] = cell
  BY <1>4, <1>5, AppendProperties, LenProperties
<1>7. /\ r \in Connection /\ r.stream = Append(old, cell)
      /\ r.whole = IF n = 2 THEN conns[socket].whole \cup {h} ELSE conns[socket].whole
      /\ r.taken = conns[socket].taken /\ r.reader = conns[socket].reader
      /\ r.broken = conns[socket].broken /\ r.left = conns[socket].left
  BY <1>3, <1>4, <1>6 DEF Connection
<1>8. conns' = [conns EXCEPT ![socket] = r]
  BY <1>4, <1>5 DEF Transfer
<1>9. /\ call' \in CallType /\ call'.op = "write" /\ call'.written = n
      /\ call'.result = IF n = 2 THEN "ok" ELSE ""
  <2> DEFINE how == IF n = 2 THEN "ok" ELSE ""
  <2>1. call' = [call EXCEPT !.written = n, !.result = how]
    BY DEF Transfer
  <2>2. n \in 0 .. 2 /\ how \in {"", "ok", "error"}
    BY <1>2
  <2> HIDE DEF n, how
  <2>3. call' \in CallType /\ call'.op = "write" /\ call'.written = n /\ call'.result = how
    BY <1>1, <2>1, <2>2 DEF CallType
  <2> QED
    BY <2>3 DEF how
<1> HIDE DEF r, cell
<1>10. /\ conns' \in Seq(Connection) /\ Len(conns') = Len(conns) /\ DOMAIN conns' = DOMAIN conns
       /\ conns'[socket] = r
       /\ \A d \in DOMAIN conns \ {socket} : conns'[d] = conns[d]
  BY <1>4, <1>7, <1>8, OneChanged DEF Core
<1>11. /\ L % 2 = call.written
       /\ call.written = 1 => old[L] = <<"size", h>>
  BY <1>1, <1>2 DEF Core, Boundary
<1>12. TypeOK'
  BY <1>1, <1>4, <1>9, <1>10 DEF Core, TypeOK, CallType
<1>13. Queueing'
  BY <1>1 DEF Core, Queueing
<1>14. Calling'
  BY <1>1, <1>2, <1>9 DEF Calling
<1>15. Failures'
  BY <1>1, <1>4, <1>7, <1>9, <1>10 DEF Core, Failures
<1>16. Boundary'
  <2>1. conns'[socket'].stream = Append(old, cell) /\ conns'[socket'].left = conns[socket].left
    BY <1>1, <1>7, <1>10
  <2>2. CASE call.written = 0
    <3>1. (L + 1) % 2 = 1
      BY <1>4, <1>11, <2>2, Parity
    <3>2. cell = <<"size", h>>
      BY <2>2 DEF cell
    <3>3. call'.written = 1
      <4>1. n = 1
        BY <2>2
      <4> HIDE DEF n
      <4> QED
        BY <1>9, <4>1
    <3> QED
      BY <1>1, <1>6, <2>1, <3>1, <3>2, <3>3 DEF Boundary
  <2>3. CASE call.written = 1
    <3>1. (L + 1) % 2 = 0
      BY <1>4, <1>11, <2>3, Parity
    <3>2. call'.written # 1
      BY <1>9, <2>3
    <3> QED
      BY <1>6, <2>1, <3>1, <3>2 DEF Boundary
  <2> QED
    BY <1>2, <2>2, <2>3
<1>17. Framing'
  <2>1. ASSUME NEW i \in 1 .. L + 1
        PROVE  Append(old, cell)[i] =
                 IF i % 2 = 1 THEN <<"size", Append(old, cell)[i][2]>>
                              ELSE <<"body", Append(old, cell)[i - 1][2]>>
    <3>1. CASE i \in 1 .. L
      <4>1. old[i] = IF i % 2 = 1 THEN <<"size", old[i][2]>> ELSE <<"body", old[i - 1][2]>>
        BY <1>4, <3>1 DEF Core, Framing
      <4>2. i % 2 = 1 \/ i - 1 \in 1 .. L
        BY <1>4, <3>1
      <4> QED
        BY <1>6, <3>1, <4>1, <4>2
    <3>2. CASE i = L + 1
      <4>1. CASE call.written = 0
        <5>1. i % 2 = 1
          BY <1>4, <1>11, <3>2, <4>1, Parity
        <5>2. cell = <<"size", h>>
          BY <4>1 DEF cell
        <5> QED
          BY <1>6, <3>2, <5>1, <5>2
      <4>2. CASE call.written = 1
        <5>1. i % 2 = 0 /\ L # 0
          BY <1>4, <1>11, <3>2, <4>2, Parity
        <5>4. i - 1 = L /\ L \in 1 .. L
          BY <1>4, <3>2, <5>1
        <5>2. cell = <<"body", h>>
          BY <4>2 DEF cell
        <5>3. Append(old, cell)[i - 1] = <<"size", h>>
          BY <1>6, <1>11, <4>2, <5>4
        <5>5. Append(old, cell)[i] = <<"body", Append(old, cell)[i - 1][2]>>
          <6>1. Append(old, cell)[i] = cell
            BY <1>6, <3>2
          <6>2. Append(old, cell)[i - 1][2] = h
            BY <5>3
          <6> QED
            BY <5>2, <6>1, <6>2
        <5> QED
          BY <5>1, <5>5
      <4> QED
        BY <1>2, <4>1, <4>2
    <3>3. i \in 1 .. L \/ i = L + 1
      BY <1>4
    <3> QED
      BY <3>1, <3>2, <3>3
  <2>2. \A i \in DOMAIN r.stream :
          r.stream[i] = IF i % 2 = 1 THEN <<"size", r.stream[i][2]>>
                                     ELSE <<"body", r.stream[i - 1][2]>>
    BY <1>6, <1>7, <2>1
  <2> QED
    BY <1>10, <2>2 DEF Core, Framing
<1>18. ExecutedAsRead'
  <2>1. \A c \in DOMAIN conns : conns'[c].taken \in 0 .. Len(conns'[c].stream)
    <3>1. r.taken \in 0 .. Len(r.stream)
      BY <1>4, <1>6, <1>7 DEF Core, ExecutedAsRead
    <3> QED
      BY <1>10, <3>1 DEF Core, ExecutedAsRead
  <2>2. /\ conns[socket].taken \in 0 .. L /\ conns[socket].taken <= r.taken
        /\ \A i \in 1 .. conns[socket].taken : r.stream[i] = old[i]
    <3>1. conns[socket].taken \in 0 .. L
      BY <1>4 DEF Core, ExecutedAsRead
    <3> QED
      BY <1>4, <1>6, <1>7, <3>1
  <2>3. \A c \in DOMAIN conns :
          /\ conns[c].taken <= conns'[c].taken
          /\ \A i \in 1 .. conns[c].taken : conns'[c].stream[i] = conns[c].stream[i]
    <3>1. \A c \in DOMAIN conns : conns[c].taken \in Nat
      BY DEF Core, ExecutedAsRead
    <3> QED
      BY <1>10, <2>2, <3>1
  <2> QED
    BY <1>1, <1>10, <2>1, <2>3, ReadKept
<1>19. LostByFaultOnly'
  <2>1. Executed' = Executed
    BY <1>1 DEF Executed
  <2>2. conns[socket].taken \in 0 .. L
    BY <1>4 DEF Core, ExecutedAsRead
  <2>3. ASSUME NEW m \in r.whole, m \notin Executed, ~r.broken
        PROVE  /\ r.reader # "closed"
               /\ \E i \in r.taken + 1 .. Len(r.stream) : r.stream[i] = <<"body", m>>
    <3>1. r.reader # "closed"
      BY <1>1, <1>7, <2>3 DEF Core, Failures
    <3>2. CASE m \in conns[socket].whole
      <4>1. PICK i \in conns[socket].taken + 1 .. L : old[i] = <<"body", m>>
        BY <1>4, <1>7, <2>3, <3>2 DEF Core, LostByFaultOnly
      <4>2. i \in 1 .. L /\ i \in r.taken + 1 .. Len(r.stream)
        BY <1>4, <1>6, <1>7, <2>2
      <4>3. r.stream[i] = old[i]
        BY <1>6, <1>7, <4>2
      <4> QED
        BY <3>1, <4>1, <4>2, <4>3
    <3>3. CASE m \notin conns[socket].whole
      <4>1. n = 2 /\ m = h
        BY <1>7, <2>3, <3>3
      <4>2. r.stream[L + 1] = <<"body", m>>
        BY <1>6, <1>7, <4>1 DEF cell
      <4>3. L + 1 \in r.taken + 1 .. Len(r.stream)
        BY <1>4, <1>6, <1>7, <2>2
      <4> QED
        BY <3>1, <4>2, <4>3
    <3> QED
      BY <3>2, <3>3
  <2> SUFFICES ASSUME NEW c \in DOMAIN conns, NEW m \in conns'[c].whole,
                      m \notin Executed, ~conns'[c].broken
               PROVE  /\ conns'[c].reader # "closed"
                      /\ \E i \in conns'[c].taken + 1 .. Len(conns'[c].stream) :
                           conns'[c].stream[i] = <<"body", m>>
    BY <1>10, <2>1 DEF LostByFaultOnly
  <2>4. CASE c = socket
    BY <1>10, <2>3, <2>4
  <2>5. CASE c # socket
    <3>1. conns'[c] = conns[c]
      BY <1>10, <2>5
    <3>2. /\ conns[c].reader # "closed"
          /\ \E i \in conns[c].taken + 1 .. Len(conns[c].stream) :
               conns[c].stream[i] = <<"body", m>>
      BY <3>1 DEF Core, LostByFaultOnly
    <3> QED
      BY <3>1, <3>2
  <2> QED
    BY <2>4, <2>5
<1>20. WrittenInOrder'
  <2>1. \A i \in DOMAIN r.stream : i % 2 = 0 => r.stream[i][2] \in r.whole
    <3> SUFFICES ASSUME NEW i \in 1 .. L + 1, i % 2 = 0
                 PROVE  r.stream[i][2] \in r.whole
      BY <1>6, <1>7
    <3>1. CASE i \in 1 .. L
      <4>1. old[i][2] \in conns[socket].whole
        BY <1>4, <3>1 DEF Core, WrittenInOrder
      <4> QED
        BY <1>6, <1>7, <3>1, <4>1
    <3>2. CASE i = L + 1
      <4>3. (L + 1) % 2 = 0
        BY <3>2
      <4>4. L % 2 = 1
        BY <1>4, <4>3, Parity
      <4>1. call.written = 1
        BY <1>11, <4>4
      <4>2. n = 2 /\ r.stream[i] = cell
        BY <1>2, <1>6, <1>7, <3>2, <4>1
      <4> QED
        BY <1>7, <4>2 DEF cell
    <3>3. i \in 1 .. L \/ i = L + 1
      BY <1>4
    <3> QED
      BY <3>1, <3>2, <3>3
  <2>2. \A m \in conns[socket].whole : m < h
    <3>1. call.written # 2 /\ ToWrite(h)
      BY <1>2, <1>3 DEF ToWrite
    <3> QED
      BY <1>3, <1>4, <3>1 DEF Core, WrittenInOrder
  <2>3. \A i, j \in DOMAIN r.stream :
          i % 2 = 0 /\ j % 2 = 0 /\ i < j => r.stream[i][2] < r.stream[j][2]
    <3> SUFFICES ASSUME NEW i \in 1 .. L + 1, NEW j \in 1 .. L + 1,
                        i % 2 = 0, j % 2 = 0, i < j
                 PROVE  r.stream[i][2] < r.stream[j][2]
      BY <1>6, <1>7
    <3>5. i \in 1 .. L
      BY <1>4
    <3>1. i \in 1 .. L /\ r.stream[i] = old[i]
      BY <1>6, <1>7, <3>5
    <3>2. CASE j \in 1 .. L
      <4>1. old[i][2] < old[j][2]
        BY <1>4, <3>1, <3>2 DEF Core, WrittenInOrder
      <4> QED
        BY <1>6, <1>7, <3>1, <3>2, <4>1
    <3>3. CASE j = L + 1
      <4>1. r.stream[j][2] = h
        BY <1>6, <1>7, <3>3 DEF cell
      <4>2. old[i][2] \in conns[socket].whole
        BY <1>4, <3>1 DEF Core, WrittenInOrder
      <4> QED
        BY <2>2, <3>1, <4>1, <4>2
    <3>4. j \in 1 .. L \/ j = L + 1
      BY <1>4
    <3> QED
      BY <3>2, <3>3, <3>4
  <2>4. \A k \in Messages : ToWrite(k)' <=> ToWrite(k)
    BY <1>1 DEF ToWrite
  <2>5. \A m \in r.whole : \A k \in Messages :
          ToWrite(k) => m < k \/ (k = m /\ call'.written = 2 /\ Head(lock') = m)
    <3> SUFFICES ASSUME NEW m \in r.whole, NEW k \in Messages, ToWrite(k)
                 PROVE  m < k \/ (k = m /\ call'.written = 2 /\ Head(lock') = m)
      OBVIOUS
    <3>1. CASE m \in conns[socket].whole
      <4>1. call.written # 2
        BY <1>2
      <4> QED
        BY <1>4, <3>1, <4>1 DEF Core, WrittenInOrder
    <3>2. CASE m \notin conns[socket].whole
      <4>1. n = 2 /\ m = h
        BY <1>7, <3>2
      <4>2. call'.written = 2 /\ Head(lock') = m
        BY <1>1, <1>9, <4>1
      <4> QED
        BY <1>3, <4>1, <4>2
    <3> QED
      BY <3>1, <3>2
  <2>6. ASSUME NEW c \in DOMAIN conns, c # socket
        PROVE  c < socket /\ \A m \in conns[c].whole : m < h
    <3>1. c < socket
      BY <1>4, <2>6, Connections DEF Core
    <3>2. call.written # 2 /\ ToWrite(h)
      BY <1>2, <1>3 DEF ToWrite
    <3> QED
      BY <1>3, <3>1, <3>2 DEF Core, WrittenInOrder
  <2>7. \A c, d \in DOMAIN conns' : c < d =>
          \A m \in conns'[c].whole : \A k \in conns'[d].whole : m < k
    <3> SUFFICES ASSUME NEW c \in DOMAIN conns, NEW d \in DOMAIN conns, c < d,
                        NEW m \in conns'[c].whole, NEW k \in conns'[d].whole
                 PROVE  m < k
      BY <1>10
    <3>1. c # socket
      BY <1>4, Connections DEF Core
    <3>2. conns'[c] = conns[c]
      BY <1>10, <3>1
    <3>3. CASE k \in conns[d].whole
      BY <3>2, <3>3 DEF Core, WrittenInOrder
    <3>4. CASE k \notin conns[d].whole
      <4>1. d = socket /\ k = h
        BY <1>7, <1>10, <3>4
      <4> QED
        BY <2>6, <3>1, <3>2, <4>1
    <3> QED
      BY <3>3, <3>4
  <2>8. ASSUME NEW c \in DOMAIN conns, c # socket
        PROVE  \A m \in conns[c].whole : \A k \in Messages : ToWrite(k) => m < k
    <3>1. call.written # 2
      BY <1>2
    <3> QED
      BY <3>1 DEF Core, WrittenInOrder
  <2>9. ASSUME NEW c \in DOMAIN conns'
        PROVE  /\ \A i \in DOMAIN conns'[c].stream :
                    i % 2 = 0 => conns'[c].stream[i][2] \in conns'[c].whole
               /\ \A i, j \in DOMAIN conns'[c].stream :
                    i % 2 = 0 /\ j % 2 = 0 /\ i < j
                      => conns'[c].stream[i][2] < conns'[c].stream[j][2]
               /\ \A m \in conns'[c].whole : \A k \in Messages :
                    ToWrite(k) => m < k \/ (k = m /\ call'.written = 2 /\ Head(lock') = m)
    <3>1. CASE c = socket
      BY <1>10, <2>1, <2>3, <2>5, <3>1
    <3>2. CASE c # socket
      <4>1. c \in DOMAIN conns /\ conns'[c] = conns[c]
        BY <1>10, <3>2
      <4> QED
        BY <2>8, <3>2, <4>1 DEF Core, WrittenInOrder
    <3> QED
      BY <3>1, <3>2
  <2> QED
    BY <2>4, <2>7, <2>9 DEF WrittenInOrder
<1> QED
  BY <1>12, <1>13, <1>14, <1>15, <1>16, <1>17, <1>18, <1>19, <1>20 DEF Core

-----------------------------------------------------------------------------
(* What happens to the connections and at their other ends.                *)
Elsewhere ==
  /\ UNCHANGED sending
  /\ listener' \in {"new", "accepting", "raised", "ended"}
  /\ faults' \in Nat
  /\ executed' \in Seq([message : Messages, conn : Nat])
  /\ conns' \in Seq(Connection) /\ Len(conns') = Len(conns)
  /\ OnlyCut
  /\ \A c \in DOMAIN conns :
       /\ conns[c].broken => conns'[c].broken
       /\ conns'[c].left => conns[c].left \/ conns'[c].broken
       /\ conns'[c].reader = "closed" =>
            conns[c].reader = "closed" \/ conns[c].left \/ conns'[c].broken
       /\ ~conns'[c].left => ~conns[c].left /\ conns'[c].stream = conns[c].stream

LEMMA ElsewhereKeeps ==
  ASSUME Core, Elsewhere
  PROVE  TypeOK' /\ Queueing' /\ Calling' /\ Framing' /\ Failures' /\ Boundary' /\ WrittenInOrder'
<1>1. UNCHANGED <<writer, lock, socket, call, node>>
  BY DEF Elsewhere, sending
<1>2. /\ conns' \in Seq(Connection) /\ Len(conns') = Len(conns)
      /\ DOMAIN conns' = DOMAIN conns /\ OnlyCut
  BY DEF Elsewhere, OnlyCut
<1>3. TypeOK'
  BY <1>1, <1>2 DEF Core, TypeOK, Elsewhere
<1>4. Queueing' /\ Calling'
  BY <1>1 DEF Core, Queueing, Calling
<1>5. Framing'
  <2>1. \A c \in DOMAIN conns : conns'[c] \in Connection
    BY <1>2, LenProperties, ElementOfSeq
  <2>2. \A c \in DOMAIN conns : conns'[c].stream \in Seq(Cells)
    BY <2>1 DEF Connection
  <2> QED
    BY <1>2, <2>2, FramingKept
<1>6. socket # 0 => socket \in DOMAIN conns
  BY Connections DEF Core
<1>7. Failures'
  <2>1. \A c \in DOMAIN conns' : c < Len(conns') => conns'[c].broken
    BY <1>2 DEF Core, Failures, Elsewhere
  <2>2. conns' # <<>> /\ socket' = 0 => conns'[Len(conns')].broken \/ node'.disconnected
    <3> SUFFICES ASSUME conns' # <<>>, socket' = 0
                 PROVE  conns'[Len(conns')].broken \/ node'.disconnected
      OBVIOUS
    <3>1. Len(conns) # 0 /\ Len(conns) \in DOMAIN conns
      <4>1. Len(conns') \in Nat \ {0} /\ DOMAIN conns' = 1 .. Len(conns')
        BY <1>2, EmptySeq, LenProperties
      <4> QED
        BY <1>2, <4>1
    <3>2. conns # <<>>
      BY <3>1, EmptySeq
    <3>3. conns[Len(conns)].broken \/ node.disconnected
      BY <1>1, <3>2 DEF Core, Failures
    <3> QED
      BY <1>1, <1>2, <3>1, <3>3 DEF Elsewhere
  <2>3. socket' # 0 /\ ~conns'[socket'].broken =>
          ~conns'[socket'].left /\ conns'[socket'].reader # "closed" /\ call'.result # "error"
    BY <1>1, <1>6 DEF Core, Failures, Elsewhere
  <2> QED
    BY <2>1, <2>2, <2>3 DEF Failures
<1>8. Boundary'
  BY <1>1, <1>6 DEF Core, Boundary, Elsewhere
<1>9. WrittenInOrder'
  BY <1>1, <1>2, OrderKept DEF ToWrite
<1> QED
  BY <1>3, <1>4, <1>5, <1>7, <1>8, <1>9

LEMMA ListenKeeps ==
  ASSUME Core, Listen \/ Cancel
  PROVE  Core' /\ Elsewhere
<1>1. /\ UNCHANGED sending /\ UNCHANGED <<conns, faults, executed>> /\ SameConns
      /\ listener' \in {"new", "accepting", "raised", "ended"}
  BY UntouchedSame DEF Listen, Cancel
<1>2. OnlyCut
  BY <1>1, SameKept
<1>3. Elsewhere
  BY <1>1, <1>2 DEF Elsewhere, Core, TypeOK
<1> QED
  BY <1>1, <1>3, ElsewhereKeeps, SameKept DEF Core

(* A connection is accepted, or closed before it was.                      *)
LEMMA AcceptKeeps ==
  ASSUME Core, Accept
  PROVE  Core' /\ Elsewhere
<1>1. /\ UNCHANGED sending /\ UNCHANGED <<listener, faults, executed>>
  BY DEF Accept
<1>2. PICK c \in DOMAIN conns : conns' = [conns EXCEPT ![c].reader = "reading"]
  BY DEF Accept
<1> DEFINE r == [conns[c] EXCEPT !.reader = "reading"]
<1>3. /\ r \in Connection /\ r.stream = conns[c].stream /\ r.whole = conns[c].whole
      /\ r.taken = conns[c].taken /\ r.broken = conns[c].broken /\ r.left = conns[c].left
      /\ r.reader = "reading"
  BY Connections DEF Core, Connection
<1>4. conns' = [conns EXCEPT ![c] = r]
  BY <1>2
<1> HIDE DEF r
<1>5. /\ conns' \in Seq(Connection) /\ Len(conns') = Len(conns) /\ DOMAIN conns' = DOMAIN conns
      /\ conns'[c] = r
      /\ \A d \in DOMAIN conns \ {c} : conns'[d] = conns[d]
  BY <1>3, <1>4, OneChanged DEF Core
<1>6. OnlyCut
  BY <1>3, <1>5 DEF OnlyCut
<1>7. Elsewhere
  BY <1>1, <1>3, <1>5, <1>6 DEF Elsewhere, Core, TypeOK
<1>8. ExecutedAsRead'
  <2>1. \A d \in DOMAIN conns : conns'[d].taken = conns[d].taken /\ conns'[d].stream = conns[d].stream
    BY <1>3, <1>5
  <2>2. \A d \in DOMAIN conns : conns[d].taken \in 0 .. Len(conns[d].stream)
    BY DEF Core, ExecutedAsRead
  <2>3. \A d \in DOMAIN conns : conns[d].taken <= conns[d].taken
    BY <2>2
  <2> QED
    BY <1>1, <1>5, <2>1, <2>2, <2>3, ReadKept
<1>9. LostByFaultOnly'
  <2>1. Executed' = Executed
    BY <1>1 DEF Executed
  <2> QED
    BY <1>3, <1>5, <2>1, LossKept
<1> QED
  BY <1>7, <1>8, <1>9, ElsewhereKeeps DEF Core

LEMMA AcceptThrowsKeeps ==
  ASSUME Core, AcceptThrows
  PROVE  Core' /\ Elsewhere
<1>1. /\ UNCHANGED sending /\ UNCHANGED <<faults, executed>> /\ listener' = "ended"
      /\ conns' = [c \in DOMAIN conns |->
                     IF conns[c].reader # "backlog" THEN conns[c]
                     ELSE [conns[c] EXCEPT !.reader = "closed", !.broken = TRUE]]
  BY DEF AcceptThrows
<1>2. ASSUME NEW c \in DOMAIN conns
      PROVE  /\ conns'[c] \in Connection
             /\ conns'[c].stream = conns[c].stream /\ conns'[c].whole = conns[c].whole
             /\ conns'[c].taken = conns[c].taken /\ conns'[c].left = conns[c].left
             /\ conns[c].broken => conns'[c].broken
             /\ conns'[c].broken \/ conns'[c].reader = conns[c].reader
  <2>1. conns[c] \in Connection
    BY Connections DEF Core
  <2>2. CASE conns[c].reader # "backlog"
    BY <1>1, <2>1, <2>2
  <2>3. CASE conns[c].reader = "backlog"
    <3>1. conns'[c] = [conns[c] EXCEPT !.reader = "closed", !.broken = TRUE]
      BY <1>1, <2>3
    <3> QED
      BY <2>1, <3>1 DEF Connection
  <2> QED
    BY <2>2, <2>3
<1>3. conns' \in Seq(Connection) /\ Len(conns') = Len(conns) /\ DOMAIN conns' = DOMAIN conns
  <2>1. Len(conns) \in Nat /\ DOMAIN conns = 1 .. Len(conns)
    BY Connections DEF Core
  <2>2. conns' \in [1 .. Len(conns) -> Connection]
    BY <1>1, <1>2, <2>1
  <2> QED
    BY <2>1, <2>2, LenProperties
<1>4. OnlyCut
  BY <1>2, <1>3 DEF OnlyCut
<1>5. Elsewhere
  BY <1>1, <1>2, <1>3, <1>4 DEF Elsewhere, Core, TypeOK
<1>6. ExecutedAsRead'
  <2>1. \A d \in DOMAIN conns : conns[d].taken \in 0 .. Len(conns[d].stream)
    BY DEF Core, ExecutedAsRead
  <2>2. \A d \in DOMAIN conns : conns[d].taken <= conns[d].taken
    BY <2>1
  <2> QED
    BY <1>1, <1>2, <1>3, <2>1, <2>2, ReadKept
<1>7. LostByFaultOnly'
  <2>1. Executed' = Executed
    BY <1>1 DEF Executed
  <2> QED
    BY <1>2, <1>3, <2>1, LossKept
<1> QED
  BY <1>5, <1>6, <1>7, ElsewhereKeeps DEF Core

(* What did not arrive is lost, and the connection has failed.             *)
LEMMA GiveUpKeeps ==
  ASSUME Core, NEW c \in DOMAIN conns, GiveUp(c)
  PROVE  Core' /\ Elsewhere
<1>1. /\ UNCHANGED sending /\ UNCHANGED <<listener, executed>> /\ faults' = faults + 1
  BY DEF GiveUp
<1> DEFINE old == conns[c].stream
<1>2. PICK n \in conns[c].taken .. Len(old) :
        conns' = [conns EXCEPT ![c].left = TRUE, ![c].broken = TRUE, ![c].stream = SubSeq(@, 1, n)]
  BY DEF GiveUp
<1>3. /\ old \in Seq(Cells) /\ Len(old) \in Nat /\ DOMAIN old = 1 .. Len(old)
      /\ \A i \in 1 .. Len(old) : old[i] \in Cells
      /\ conns[c] \in Connection
  BY Connections DEF Core, Connection
<1>4. /\ conns[c].taken \in 0 .. Len(old) /\ n \in 0 .. Len(old) /\ n \in Nat
      /\ conns[c].taken <= n
  <2>1. conns[c].taken \in 0 .. Len(old)
    BY DEF Core, ExecutedAsRead
  <2> QED
    BY <1>3, <2>1
<1>5. /\ SubSeq(old, 1, n) \in Seq(Cells) /\ Len(SubSeq(old, 1, n)) = n
      /\ \A i \in 1 .. n : SubSeq(old, 1, n)[i] = old[i]
      /\ DOMAIN SubSeq(old, 1, n) = 1 .. n
  <2>1. \A i \in 1 .. n : old[i] \in Cells
    BY <1>3, <1>4
  <2>2. /\ SubSeq(old, 1, n) \in Seq(Cells)
        /\ Len(SubSeq(old, 1, n)) = IF 1 <= n THEN n - 1 + 1 ELSE 0
        /\ \A i \in 1 .. n - 1 + 1 : SubSeq(old, 1, n)[i] = old[1 + i - 1]
    BY <1>4, <2>1, SubSeqProperties
  <2>3. Len(SubSeq(old, 1, n)) = n
    BY <1>4, <2>2
  <2> QED
    BY <1>4, <2>2, <2>3, LenProperties
<1> DEFINE r == [conns[c] EXCEPT !.left = TRUE, !.broken = TRUE, !.stream = SubSeq(old, 1, n)]
<1>6. /\ r \in Connection /\ r.stream = SubSeq(old, 1, n) /\ r.whole = conns[c].whole
      /\ r.taken = conns[c].taken /\ r.broken /\ r.left /\ r.reader = conns[c].reader
  BY <1>3, <1>5 DEF Connection
<1>7. conns' = [conns EXCEPT ![c] = r]
  BY <1>2
<1> HIDE DEF r
<1>8. /\ conns' \in Seq(Connection) /\ Len(conns') = Len(conns) /\ DOMAIN conns' = DOMAIN conns
      /\ conns'[c] = r
      /\ \A d \in DOMAIN conns \ {c} : conns'[d] = conns[d]
  BY <1>6, <1>7, OneChanged DEF Core
<1>9. OnlyCut
  <2>1. DOMAIN r.stream \subseteq DOMAIN old /\ \A i \in DOMAIN r.stream : r.stream[i] = old[i]
    BY <1>3, <1>4, <1>5, <1>6
  <2> QED
    BY <1>6, <1>8, <2>1 DEF OnlyCut
<1>10. Elsewhere
  <2>2. faults \in Nat /\ faults' = faults + 1
    BY <1>1 DEF Core, TypeOK
  <2>1. faults' \in Nat
    BY <2>2
  <2> QED
    BY <1>1, <1>6, <1>8, <1>9, <2>1 DEF Elsewhere, Core, TypeOK
<1>11. ExecutedAsRead'
  <2>1. \A d \in DOMAIN conns : conns'[d].taken \in 0 .. Len(conns'[d].stream)
    <3>1. r.taken \in 0 .. Len(r.stream)
      BY <1>4, <1>5, <1>6
    <3> QED
      BY <1>8, <3>1 DEF Core, ExecutedAsRead
  <2>2. \A d \in DOMAIN conns :
          /\ conns[d].taken <= conns'[d].taken
          /\ \A i \in 1 .. conns[d].taken : conns'[d].stream[i] = conns[d].stream[i]
    <3>1. \A d \in DOMAIN conns : conns[d].taken \in Nat
      BY DEF Core, ExecutedAsRead
    <3>2. \A i \in 1 .. conns[c].taken : r.stream[i] = old[i]
      BY <1>4, <1>5, <1>6
    <3> QED
      BY <1>6, <1>8, <3>1, <3>2
  <2> QED
    BY <1>1, <1>8, <2>1, <2>2, ReadKept
<1>12. LostByFaultOnly'
  <2>1. Executed' = Executed
    BY <1>1 DEF Executed
  <2> QED
    BY <1>6, <1>8, <2>1, LossKept
<1> QED
  BY <1>10, <1>11, <1>12, ElsewhereKeeps DEF Core

LEMMA ReadSizeKeeps ==
  ASSUME Core, NEW c \in DOMAIN conns, ReadSize(c)
  PROVE  Core' /\ Elsewhere
<1>1. /\ UNCHANGED sending /\ UNCHANGED <<listener, faults, executed>>
      /\ conns' = [conns EXCEPT ![c].taken = @ + 1]
      /\ conns[c].taken < Len(conns[c].stream) /\ conns[c].taken % 2 = 0
  BY DEF ReadSize, Readable
<1>2. /\ conns[c].taken \in Nat /\ Len(conns[c].stream) \in Nat
      /\ DOMAIN conns[c].stream = 1 .. Len(conns[c].stream) /\ conns[c] \in Connection
  BY Connections DEF Core, ExecutedAsRead
<1> DEFINE t == conns[c].taken + 1
           r == [conns[c] EXCEPT !.taken = t]
<1>3. t \in 1 .. Len(conns[c].stream) /\ conns[c].stream[t][1] = "size"
  <2>1. t \in 1 .. Len(conns[c].stream)
    BY <1>1, <1>2
  <2>2. t % 2 = 1
    BY <1>1, <1>2, Parity
  <2>3. conns[c].stream[t] = <<"size", conns[c].stream[t][2]>>
    BY <1>2, <2>1, <2>2 DEF Core, Framing
  <2> QED
    BY <2>1, <2>3
<1>4. /\ r \in Connection /\ r.stream = conns[c].stream /\ r.whole = conns[c].whole
      /\ r.taken = t /\ r.broken = conns[c].broken /\ r.left = conns[c].left
      /\ r.reader = conns[c].reader
  BY <1>2 DEF Connection
<1>5. conns' = [conns EXCEPT ![c] = r]
  BY <1>1
<1> HIDE DEF r
<1>6. /\ conns' \in Seq(Connection) /\ Len(conns') = Len(conns) /\ DOMAIN conns' = DOMAIN conns
      /\ conns'[c] = r
      /\ \A d \in DOMAIN conns \ {c} : conns'[d] = conns[d]
  BY <1>4, <1>5, OneChanged DEF Core
<1>7. OnlyCut
  BY <1>4, <1>6 DEF OnlyCut
<1>8. Elsewhere
  BY <1>1, <1>4, <1>6, <1>7 DEF Elsewhere, Core, TypeOK
<1>9. ExecutedAsRead'
  <2>1. \A d \in DOMAIN conns : conns'[d].taken \in 0 .. Len(conns'[d].stream)
    <3>1. r.taken \in 0 .. Len(r.stream)
      BY <1>2, <1>3, <1>4
    <3> QED
      BY <1>6, <3>1 DEF Core, ExecutedAsRead
  <2>2. \A d \in DOMAIN conns :
          /\ conns[d].taken <= conns'[d].taken
          /\ \A i \in 1 .. conns[d].taken : conns'[d].stream[i] = conns[d].stream[i]
    <3>1. \A d \in DOMAIN conns : conns[d].taken \in Nat
      BY DEF Core, ExecutedAsRead
    <3>2. conns[c].taken <= r.taken
      BY <1>2, <1>4
    <3> QED
      BY <1>4, <1>6, <3>1, <3>2
  <2> QED
    BY <1>1, <1>6, <2>1, <2>2, ReadKept
<1>10. LostByFaultOnly'
  <2>1. Executed' = Executed
    BY <1>1 DEF Executed
  <2>2. \A i \in conns[c].taken + 1 .. Len(conns[c].stream) :
           i \in r.taken + 1 .. Len(conns[c].stream) \/ conns[c].stream[i][1] = "size"
    <3> TAKE i \in conns[c].taken + 1 .. Len(conns[c].stream)
    <3>1. i = t \/ i \in t + 1 .. Len(conns[c].stream)
      BY <1>2
    <3> QED
      BY <1>3, <1>4, <3>1
  <2> QED
    BY <1>4, <1>6, <2>1, <2>2, LossKept
<1> QED
  BY <1>8, <1>9, <1>10, ElsewhereKeeps DEF Core

LEMMA ReadFailsKeeps ==
  ASSUME Core, NEW c \in DOMAIN conns, ReadFails(c)
  PROVE  Core' /\ Elsewhere
<1>1. /\ UNCHANGED sending /\ UNCHANGED <<listener, faults, executed>>
      /\ conns' = [conns EXCEPT ![c].reader = "closed"]
      /\ conns[c].left /\ AllRead(c)
  BY DEF ReadFails
<1> DEFINE r == [conns[c] EXCEPT !.reader = "closed"]
<1>3. /\ r \in Connection /\ r.stream = conns[c].stream /\ r.whole = conns[c].whole
      /\ r.taken = conns[c].taken /\ r.broken = conns[c].broken /\ r.left = conns[c].left
      /\ r.reader = "closed"
  BY Connections DEF Core, Connection
<1>4. conns' = [conns EXCEPT ![c] = r]
  BY <1>1
<1> HIDE DEF r
<1>5. /\ conns' \in Seq(Connection) /\ Len(conns') = Len(conns) /\ DOMAIN conns' = DOMAIN conns
      /\ conns'[c] = r
      /\ \A d \in DOMAIN conns \ {c} : conns'[d] = conns[d]
  BY <1>3, <1>4, OneChanged DEF Core
<1>6. OnlyCut
  BY <1>3, <1>5 DEF OnlyCut
<1>7. Elsewhere
  BY <1>1, <1>3, <1>5, <1>6 DEF Elsewhere, Core, TypeOK
<1>8. ExecutedAsRead'
  <2>1. \A d \in DOMAIN conns : conns'[d].taken = conns[d].taken /\ conns'[d].stream = conns[d].stream
    BY <1>3, <1>5
  <2>2. \A d \in DOMAIN conns : conns[d].taken \in 0 .. Len(conns[d].stream)
    BY DEF Core, ExecutedAsRead
  <2>3. \A d \in DOMAIN conns : conns[d].taken <= conns[d].taken
    BY <2>2
  <2> QED
    BY <1>1, <1>5, <2>1, <2>2, <2>3, ReadKept
<1>9. LostByFaultOnly'
  <2>1. Executed' = Executed
    BY <1>1 DEF Executed
  <2> QED
    BY <1>1, <1>3, <1>5, <2>1, LossKept
<1> QED
  BY <1>7, <1>8, <1>9, ElsewhereKeeps DEF Core

(* A body is executed behind those that were read before it.               *)
LEMMA ReadBodyKeeps ==
  ASSUME Core, NEW c \in DOMAIN conns, ReadBody(c)
  PROVE  Core' /\ Elsewhere
<1> DEFINE old == conns[c].stream
           t == conns[c].taken + 1
           b == old[t][2]
           e == [message |-> b, conn |-> c]
           N == Len(executed)
<1>1. /\ UNCHANGED sending /\ UNCHANGED listener /\ executed' = Append(executed, e)
      /\ conns[c].taken < Len(old) /\ conns[c].taken % 2 = 1
  BY DEF ReadBody, Readable
<1>2. /\ conns[c].taken \in Nat /\ Len(old) \in Nat /\ DOMAIN old = 1 .. Len(old)
      /\ conns[c] \in Connection /\ c \in Nat /\ \A i \in DOMAIN old : old[i] \in Cells
  BY Connections DEF Core, ExecutedAsRead
<1>3. PICK throws \in BOOLEAN :
        /\ faults' = IF throws THEN faults + 1 ELSE faults
        /\ conns' = [conns EXCEPT ![c].taken = t,
                                  ![c].reader = IF throws THEN "closed" ELSE @,
                                  ![c].broken = @ \/ throws]
  BY DEF ReadBody
<1>4. /\ t \in 1 .. Len(old) /\ t % 2 = 0 /\ old[t] = <<"body", b>> /\ b \in Messages
  <2>1. t \in 1 .. Len(old)
    BY <1>1, <1>2
  <2>2. t % 2 = 0
    BY <1>1, <1>2, Parity
  <2>5. old[t] = IF t % 2 = 1 THEN <<"size", old[t][2]>> ELSE <<"body", old[t - 1][2]>>
    BY <1>2, <2>1 DEF Core, Framing
  <2>6. t % 2 # 1
    <3>1. t \in Nat
      BY <1>2
    <3> HIDE DEF t
    <3> QED
      BY <2>2, <3>1
  <2>3. old[t] = <<"body", old[t - 1][2]>>
    BY <2>5, <2>6
  <2>4. b \in Messages
    BY <1>2, <2>1 DEF Cells
  <2> QED
    BY <2>1, <2>2, <2>3, <2>4
<1> DEFINE reader == IF throws THEN "closed" ELSE conns[c].reader
           broken == conns[c].broken \/ throws
           r == [conns[c] EXCEPT !.taken = t, !.reader = reader, !.broken = broken]
<1>13. reader \in {"backlog", "reading", "closed"} /\ broken \in BOOLEAN /\ t \in Nat
  BY <1>2 DEF Connection
<1>14. /\ conns[c].broken => broken
       /\ reader = conns[c].reader \/ broken
  OBVIOUS
<1>5. /\ r \in Connection /\ r.stream = old /\ r.whole = conns[c].whole
      /\ r.taken = t /\ r.left = conns[c].left
      /\ r.broken = broken /\ r.reader = reader
  <2> HIDE DEF reader, broken, t
  <2> QED
    BY <1>2, <1>13 DEF Connection
<1>6. conns' = [conns EXCEPT ![c] = r]
  BY <1>3
<1> HIDE DEF r, reader, broken
<1>7. /\ conns' \in Seq(Connection) /\ Len(conns') = Len(conns) /\ DOMAIN conns' = DOMAIN conns
      /\ conns'[c] = r
      /\ \A d \in DOMAIN conns \ {c} : conns'[d] = conns[d]
  BY <1>5, <1>6, OneChanged DEF Core
<1>8. OnlyCut
  BY <1>5, <1>7 DEF OnlyCut
<1>9. /\ executed' \in Seq([message : Messages, conn : Nat])
      /\ N \in Nat /\ DOMAIN executed = 1 .. N /\ DOMAIN executed' = 1 .. N + 1
      /\ executed'[N + 1] = e /\ \A i \in 1 .. N : executed'[i] = executed[i]
  <2>1. executed \in Seq([message : Messages, conn : Nat])
    BY DEF Core, TypeOK
  <2>2. e \in [message : Messages, conn : Nat]
    BY <1>2, <1>4
  <2> HIDE DEF e
  <2>3. executed' \in Seq([message : Messages, conn : Nat]) /\ Len(executed') = N + 1
    BY <1>1, <2>1, <2>2, AppendProperties
  <2>4. N \in Nat /\ DOMAIN executed = 1 .. N /\ DOMAIN executed' = 1 .. N + 1
    BY <2>1, <2>3, LenProperties
  <2> QED
    BY <1>1, <2>1, <2>2, <2>3, <2>4, AppendProperties
<1>10. Elsewhere
  <2>1. faults' \in Nat
    <3>1. faults \in Nat
      BY DEF Core, TypeOK
    <3>2. faults + 1 \in Nat
      BY <3>1
    <3> QED
      BY <1>3, <3>1, <3>2
  <2>2. /\ conns[c].broken => r.broken
        /\ r.left = conns[c].left /\ r.stream = conns[c].stream
        /\ r.reader = conns[c].reader \/ r.broken
    BY <1>5, <1>14
  <2>3. \A d \in DOMAIN conns :
          /\ conns[d].broken => conns'[d].broken
          /\ conns'[d].left = conns[d].left /\ conns'[d].stream = conns[d].stream
          /\ conns'[d].reader = conns[d].reader \/ conns'[d].broken
    BY <1>7, <2>2
  <2>4. listener' \in {"new", "accepting", "raised", "ended"}
    BY <1>1 DEF Core, TypeOK
  <2> QED
    BY <1>1, <1>7, <1>8, <1>9, <2>1, <2>3, <2>4 DEF Elsewhere
<1>11. ExecutedAsRead'
  <2>1. \A d \in DOMAIN conns : conns'[d].taken \in 0 .. Len(conns'[d].stream)
    <3>1. r.taken \in 0 .. Len(r.stream)
      BY <1>2, <1>4, <1>5
    <3> QED
      BY <1>7, <3>1 DEF Core, ExecutedAsRead
  <2>2. \A d \in DOMAIN conns :
          conns'[d].stream = conns[d].stream /\ 1 .. conns[d].taken \subseteq 1 .. conns'[d].taken
    <3>1. 1 .. conns[c].taken \subseteq 1 .. r.taken
      BY <1>2, <1>5
    <3> QED
      BY <1>5, <1>7, <3>1
  <2>3. ASSUME NEW i \in DOMAIN executed'
        PROVE  /\ executed'[i].conn \in DOMAIN conns'
               /\ \E k \in 1 .. conns'[executed'[i].conn].taken :
                    conns'[executed'[i].conn].stream[k] = <<"body", executed'[i].message>>
    <3>1. CASE i \in 1 .. N
      <4>1. executed'[i] = executed[i] /\ i \in DOMAIN executed
        BY <1>9, <3>1
      <4> QED
        BY <1>7, <2>2, <4>1 DEF Core, ExecutedAsRead
    <3>2. CASE i = N + 1
      <4>1. executed'[i].conn = c /\ executed'[i].message = b
        BY <1>9, <3>2
      <4>2. t \in 1 .. conns'[c].taken /\ conns'[c].stream[t] = <<"body", b>>
        BY <1>4, <1>5, <1>7
      <4> QED
        BY <1>7, <4>1, <4>2
    <3>3. i \in 1 .. N \/ i = N + 1
      BY <1>9
    <3> QED
      BY <3>1, <3>2, <3>3
  <2>4. ASSUME NEW i \in 1 .. N, executed[i].conn = c
        PROVE  executed[i].message < b
    <3>1. PICK k \in 1 .. conns[c].taken : old[k] = <<"body", executed[i].message>>
      BY <1>9, <2>4 DEF Core, ExecutedAsRead
    <3>2. k \in DOMAIN old /\ t \in DOMAIN old /\ k < t /\ k \in Nat
      BY <1>2, <1>4
    <3>3. k % 2 # 1
      <4>1. old[k] = IF k % 2 = 1 THEN <<"size", old[k][2]>> ELSE <<"body", old[k - 1][2]>>
        BY <3>2 DEF Core, Framing
      <4>2. old[k][1] # "size"
        BY <3>1
      <4> QED
        BY <4>1, <4>2
    <3>4. k % 2 = 0
      BY <3>2, <3>3
    <3>5. old[k][2] < b
      BY <1>4, <3>2, <3>4 DEF Core, WrittenInOrder
    <3> QED
      BY <3>1, <3>5
  <2>5. ASSUME NEW i \in DOMAIN executed', NEW j \in DOMAIN executed',
               i < j, executed'[i].conn = executed'[j].conn
        PROVE  executed'[i].message < executed'[j].message
    <3>1. i \in 1 .. N /\ executed'[i] = executed[i]
      BY <1>9, <2>5
    <3>2. CASE j \in 1 .. N
      <4>1. executed'[j] = executed[j]
        BY <1>9, <3>2
      <4> QED
        BY <1>9, <2>5, <3>1, <3>2, <4>1 DEF Core, ExecutedAsRead
    <3>3. CASE j = N + 1
      <4>1. executed'[j].conn = c /\ executed'[j].message = b
        BY <1>9, <3>3
      <4> QED
        BY <2>4, <2>5, <3>1, <4>1
    <3> QED
      BY <1>9, <3>2, <3>3
  <2> QED
    BY <1>7, <2>1, <2>3, <2>5 DEF ExecutedAsRead
<1>12. LostByFaultOnly'
  <2>1. Executed \subseteq Executed' /\ b \in Executed'
    <3>1. Executed \subseteq Executed'
      BY <1>9 DEF Executed
    <3>2. N + 1 \in DOMAIN executed' /\ executed'[N + 1].message = b
      BY <1>9
    <3> QED
      BY <3>1, <3>2 DEF Executed
  <2>2. \A i \in conns[c].taken + 1 .. Len(old) :
           i \in r.taken + 1 .. Len(old) \/ old[i][2] \in Executed'
    <3> TAKE i \in conns[c].taken + 1 .. Len(old)
    <3>1. i = t \/ i \in t + 1 .. Len(old)
      BY <1>2
    <3> QED
      BY <1>5, <2>1, <3>1
  <2> QED
    BY <1>5, <1>7, <1>14, <2>1, <2>2, LossKept
<1> QED
  BY <1>10, <1>11, <1>12, ElsewhereKeeps DEF Core

-----------------------------------------------------------------------------
LEMMA Starts == Init => Core
<1> SUFFICES ASSUME Init PROVE Core
  OBVIOUS
<1>1. /\ conns = <<>> /\ executed = <<>> /\ lock = <<>> /\ socket = 0 /\ listener = "new"
      /\ writer = [m \in Messages |-> "none"] /\ faults = 0
      /\ node = [listed |-> TRUE, present |-> TRUE, disconnected |-> FALSE]
  BY DEF Init
<1>2. \A S : <<>> \in Seq(S) /\ Len(<<>>) = 0 /\ DOMAIN <<>> = {}
  <2> TAKE S
  <2>1. <<>> \in Seq(S) /\ Len(<<>>) = 0
    BY EmptySeq
  <2> QED
    BY <2>1, LenProperties
<1>3. /\ call \in CallType /\ call.op = "none" /\ call.result = ""
      /\ call.written \in Nat /\ call.written = 0
  <2>1. call = [op |-> "none", written |-> 0, result |-> ""]
    BY DEF Init, NoCall
  <2>2. call.written = 0
    BY <2>1
  <2>3. call.written \in Nat
    BY <2>2
  <2>4. call.op = "none" /\ call.result = ""
    BY <2>1
  <2>5. call \in CallType
    <3>1. NoCall \in CallType
      BY DEF NoCall, CallType
    <3> QED
      BY <3>1 DEF Init
  <2> QED
    BY <2>2, <2>3, <2>4, <2>5
<1>4. TypeOK
  BY <1>1, <1>2, <1>3 DEF TypeOK, CallType
<1>5. Queueing
  BY <1>1, <1>2 DEF Queueing
<1>6. Calling
  <2>1. ~(call.written > 0)
    <3>1. call.written \in Nat /\ call.written = 0
      BY <1>3
    <3> QED
      BY <3>1
  <2>2. call.op = "none" /\ call.result = "" /\ ~node.disconnected
    BY <1>1, <1>3
  <2> QED
    BY <1>1, <2>1, <2>2 DEF Calling
<1>7. Framing /\ Failures /\ Boundary /\ WrittenInOrder /\ ExecutedAsRead /\ LostByFaultOnly
  <2>1. DOMAIN conns = {} /\ DOMAIN executed = {}
    BY <1>1, <1>2
  <2> QED
    BY <1>1, <2>1 DEF Framing, Failures, Boundary, WrittenInOrder, ExecutedAsRead, LostByFaultOnly
<1> QED
  BY <1>4, <1>5, <1>6, <1>7 DEF Core

LEMMA StepKeeps ==
  ASSUME Core, [Next]_vars
  PROVE  Core'
<1>1. CASE UNCHANGED vars
  <2>1. UNCHANGED <<writer, lock, socket, call, node, listener, conns, faults, executed>>
    BY <1>1 DEF vars
  <2>2. TypeOK'
    BY <2>1 DEF Core, TypeOK
  <2>3. Queueing' /\ Calling' /\ Framing' /\ Failures' /\ Boundary'
    <3>1. Queueing'
      BY <2>1 DEF Core, Queueing
    <3>2. Calling'
      BY <2>1 DEF Core, Calling
    <3>3. Framing'
      BY <2>1 DEF Core, Framing
    <3>4. Failures'
      BY <2>1 DEF Core, Failures
    <3>5. Boundary'
      BY <2>1 DEF Core, Boundary
    <3> QED
      BY <3>1, <3>2, <3>3, <3>4, <3>5
  <2>4. WrittenInOrder'
    BY <2>1 DEF Core, WrittenInOrder, ToWrite
  <2>5. ExecutedAsRead' /\ LostByFaultOnly'
    BY <2>1, UntouchedSame, SameKept
  <2> QED
    BY <2>2, <2>3, <2>4, <2>5 DEF Core
<1>2. CASE Next
  BY <1>2, BroadcastKeeps, SendKeeps, WrittenKeeps, FailedKeeps, ConnectedKeeps, TransferKeeps,
     WriteFailsKeeps, ConnectEndsKeeps, RemovalKeeps, ListenKeeps, AcceptKeeps, AcceptThrowsKeeps,
     GiveUpKeeps, ReadSizeKeeps, ReadBodyKeeps, ReadFailsKeeps
     DEF Next, Sender, System, Reader
<1> QED
  BY <1>1, <1>2

LEMMA CoreInvariant == Spec => []Core
<1>1. Core /\ [Next]_vars => Core'
  BY StepKeeps
<1> QED
  BY Starts, <1>1, PTL DEF Spec

(* An executed message was written whole on the connection it was read     *)
(* from.                                                                   *)
LEMMA ExecutedWhole ==
  ASSUME Core, NEW i \in DOMAIN executed
  PROVE  /\ executed[i].conn \in DOMAIN conns
         /\ executed[i].message \in conns[executed[i].conn].whole
<1> DEFINE c == executed[i].conn
           m == executed[i].message
           stream == conns[c].stream
<1>1. c \in DOMAIN conns
  BY DEF Core, ExecutedAsRead
<1>2. PICK k \in 1 .. conns[c].taken : stream[k] = <<"body", m>>
  BY DEF Core, ExecutedAsRead
<1>3. k \in DOMAIN stream /\ k \in Nat
  <2>1. conns[c].taken \in 0 .. Len(stream)
    BY <1>1 DEF Core, ExecutedAsRead
  <2>2. DOMAIN stream = 1 .. Len(stream) /\ Len(stream) \in Nat
    BY <1>1, Connections DEF Core
  <2> QED
    BY <2>1, <2>2
<1>4. k % 2 # 1
  <2>1. stream[k] = IF k % 2 = 1 THEN <<"size", stream[k][2]>> ELSE <<"body", stream[k - 1][2]>>
    BY <1>1, <1>3 DEF Core, Framing
  <2>2. stream[k][1] # "size"
    BY <1>2
  <2> QED
    BY <2>1, <2>2
<1>5. k % 2 = 0
  BY <1>3, <1>4
<1>6. stream[k][2] \in conns[c].whole
  BY <1>1, <1>3, <1>5 DEF Core, WrittenInOrder
<1> QED
  BY <1>1, <1>2, <1>6

LEMMA CoreSuffices ==
  ASSUME Core
  PROVE  NetworkInv
<1>1. ASSUME NEW i \in DOMAIN executed, NEW j \in DOMAIN executed,
             executed[i].conn < executed[j].conn
      PROVE  executed[i].message < executed[j].message
  BY <1>1, ExecutedWhole DEF Core, WrittenInOrder
<1>2. /\ Len(conns) \in Nat /\ DOMAIN conns = 1 .. Len(conns)
      /\ Len(executed) \in Nat /\ DOMAIN executed = 1 .. Len(executed)
      /\ \A i \in DOMAIN executed : executed[i].message \in Nat /\ executed[i].conn \in Nat
  <2>1. executed \in Seq([message : Messages, conn : Nat])
    BY DEF Core, TypeOK
  <2>2. Len(executed) \in Nat /\ DOMAIN executed = 1 .. Len(executed)
    BY <2>1, LenProperties
  <2>3. \A i \in DOMAIN executed : executed[i] \in [message : Messages, conn : Nat]
    BY <2>1, <2>2, ElementOfSeq
  <2> QED
    BY <2>2, <2>3, Connections DEF Core
<1>3. AtMostOnce
  <2> SUFFICES ASSUME NEW i \in DOMAIN executed, NEW j \in DOMAIN executed,
                      executed[i].message = executed[j].message
               PROVE  i = j
    BY DEF AtMostOnce
  <2>1. executed[i].conn = executed[j].conn
    <3>1. ~(executed[i].conn < executed[j].conn) /\ ~(executed[j].conn < executed[i].conn)
      BY <1>1, <1>2
    <3> QED
      BY <1>2, <3>1
  <2>2. ~(i < j) /\ ~(j < i)
    <3>1. \A a, b \in DOMAIN executed :
            a < b /\ executed[a].conn = executed[b].conn
              => executed[a].message < executed[b].message
      BY DEF Core, ExecutedAsRead
    <3>2. executed[i].message \in Nat /\ executed[j].message \in Nat
      BY <1>2
    <3>3. ~(executed[i].message < executed[j].message) /\ ~(executed[j].message < executed[i].message)
      BY <3>2
    <3> QED
      BY <2>1, <3>1, <3>3
  <2> QED
    BY <1>2, <2>2
<1>4. OvertakenByFaultOnly
  <2> SUFFICES ASSUME NEW i \in DOMAIN executed, NEW j \in DOMAIN executed,
                      i < j, executed[j].message < executed[i].message
               PROVE  executed[j].conn < executed[i].conn /\ conns[executed[j].conn].broken
    BY DEF OvertakenByFaultOnly
  <2>1. executed[i].conn # executed[j].conn
    <3>1. ~(executed[i].message < executed[j].message)
      BY <1>2
    <3> QED
      BY <3>1 DEF Core, ExecutedAsRead
  <2>2. ~(executed[i].conn < executed[j].conn)
    BY <1>1, <1>2
  <2>3. executed[j].conn < executed[i].conn
    BY <1>2, <2>1, <2>2
  <2>4. executed[i].conn \in DOMAIN conns /\ executed[j].conn \in DOMAIN conns
    BY ExecutedWhole
  <2>5. executed[j].conn < Len(conns)
    BY <1>2, <2>3, <2>4
  <2> QED
    BY <2>3, <2>4, <2>5 DEF Core, Failures
<1> QED
  BY <1>3, <1>4 DEF Core, NetworkInv

(* Whatever connections fail and whoever leaves when, for any number of    *)
(* messages and faults: writers do not mix on a connection, nothing that   *)
(* was executed is executed again after an error, and only with a          *)
(* connection that failed is a message lost or overtaken.                  *)
THEOREM PacketsHold == Spec => []NetworkInv
BY CoreInvariant, CoreSuffices, PTL

(* After Nodes::remove() or cleanup() nothing is written and no connection *)
(* is opened, also by the writers that were in the middle of it.           *)
THEOREM RemovedIsSilent == Spec => SilentAfterRemove
<1> DEFINE Silent == node.disconnected =>
                       /\ Len(conns') = Len(conns)
                       /\ \A c \in DOMAIN conns : Len(conns'[c].stream) <= Len(conns[c].stream)
<1>1. ASSUME Core, Core', [Next]_vars, node.disconnected
      PROVE  /\ Len(conns') = Len(conns)
             /\ \A c \in DOMAIN conns : Len(conns'[c].stream) <= Len(conns[c].stream)
  <2>1. \A c \in DOMAIN conns : Len(conns[c].stream) \in Nat
    BY <1>1, Connections DEF Core
  <2>2. CASE SameConns
    BY <2>1, <2>2 DEF SameConns
  <2>3. CASE Elsewhere
    <3> SUFFICES ASSUME NEW c \in DOMAIN conns
                 PROVE  Len(conns'[c].stream) <= Len(conns[c].stream)
      BY <2>3 DEF Elsewhere
    <3>1. /\ Len(conns[c].stream) \in Nat
          /\ DOMAIN conns[c].stream = 1 .. Len(conns[c].stream)
      BY <1>1, Connections DEF Core
    <3>2. conns'[c].stream \in Seq(Cells)
      <4>1. conns' \in Seq(Connection) /\ c \in 1 .. Len(conns')
        BY <1>1, <2>3, Connections DEF Core, Elsewhere
      <4>2. conns'[c] \in Connection
        BY <4>1, ElementOfSeq
      <4> QED
        BY <4>2 DEF Connection
    <3>3. /\ Len(conns'[c].stream) \in Nat
          /\ DOMAIN conns'[c].stream = 1 .. Len(conns'[c].stream)
      BY <3>2, LenProperties
    <3>4. 1 .. Len(conns'[c].stream) \subseteq 1 .. Len(conns[c].stream)
      BY <2>3, <3>1, <3>3 DEF Elsewhere, OnlyCut
    <3> QED
      BY <3>1, <3>3, <3>4
  <2>4. ~Transfer /\ ~ConnectEnds
    BY <1>1 DEF Core, Calling, Transfer, ConnectEnds
  <2>5. ASSUME UNCHANGED conns
        PROVE  SameConns
    BY <1>1, <2>5, UntouchedSame
  <2>6. CASE \/ UNCHANGED vars \/ \E m \in Messages : Broadcast(m) \/ Send(m)
             \/ Written \/ Connected \/ WriteFails \/ RemoveNode \/ Cleanup
    <3>1. UNCHANGED conns
      BY <1>1, <2>6 DEF vars, Broadcast, Send, Written, Connected, WriteFails, RemoveNode, Cleanup,
                        Disconnect
    <3> QED
      BY <2>2, <2>5, <3>1
  <2>7. CASE Failed
    <3>1. SameConns
      BY <1>1, <2>7, CloseSame DEF Failed
    <3> QED
      BY <2>2, <3>1
  <2>8. CASE \/ Listen \/ Accept \/ Cancel \/ AcceptThrows
             \/ \E c \in DOMAIN conns : GiveUp(c) \/ Reader(c)
    <3>1. Elsewhere
      BY <1>1, <2>8, ListenKeeps, AcceptKeeps, AcceptThrowsKeeps, GiveUpKeeps, ReadSizeKeeps,
         ReadBodyKeeps, ReadFailsKeeps DEF Reader
    <3> QED
      BY <2>3, <3>1
  <2> QED
    BY <1>1, <2>4, <2>6, <2>7, <2>8 DEF Next, Sender, System
<1>2. Core /\ Core' /\ [Next]_vars => [Silent]_vars
  BY <1>1
<1>3. Spec => []Core
  BY CoreInvariant
<1> QED
  BY <1>2, <1>3, PTL DEF Spec, SilentAfterRemove
=============================================================================
