-------------------------- MODULE NetworkProperties --------------------------
(***************************************************************************)
(* What a node may rely on when it broadcasts to another one.              *)
(***************************************************************************)
EXTENDS Network

Executed == {executed[i].message : i \in DOMAIN executed}
Waits(m) == writer[m] \in {"started", "locking"}
Ended(m) == writer[m] \in {"returned", "threw", "skipped"}

(* Every variable has its type.                                            *)
Connection ==
  [stream : Seq(Cells), taken : Nat, reader : {"backlog", "reading", "closed"},
   left : BOOLEAN, whole : SUBSET Messages, broken : BOOLEAN]

TypeOK ==
  /\ writer \in [Messages -> {"none", "started", "skipped", "locking", "returned", "threw"}]
  /\ lock \in Seq(Messages)
  /\ socket \in {0, Len(conns)}
  /\ call \in [op : {"none", "write", "connect"}, written : 0 .. 2, result : {"", "ok", "error"}]
  /\ node \in [listed : BOOLEAN, present : BOOLEAN, disconnected : BOOLEAN]
  /\ listener \in {"new", "accepting", "raised", "ended"}
  /\ conns \in Seq(Connection)
  /\ faults \in Nat
  /\ executed \in Seq([message : Messages, conn : Nat])

(* On every connection a size is followed by the body it belongs to:       *)
(* writers do not mix, and an interrupted packet is never continued.       *)
Framing ==
  \A c \in DOMAIN conns : \A i \in DOMAIN conns[c].stream :
    conns[c].stream[i] = IF i % 2 = 1 THEN <<"size", conns[c].stream[i][2]>>
                                      ELSE <<"body", conns[c].stream[i - 1][2]>>

(* A packet that is written again after an error was not executed before.  *)
AtMostOnce ==
  \A i, j \in DOMAIN executed : executed[i].message = executed[j].message => i = j

(* A later message overtakes an earlier one only on a newer connection,    *)
(* when the earlier one's was given up.                                    *)
OvertakenByFaultOnly ==
  \A i, j \in DOMAIN executed :
    (i < j /\ executed[j].message < executed[i].message)
      => executed[j].conn < executed[i].conn /\ conns[executed[j].conn].broken

(* write() has returned: the message was executed or waits to be read, or  *)
(* its connection failed.  A removal of the node loses none of them.       *)
LostByFaultOnly ==
  \A c \in DOMAIN conns : \A m \in conns[c].whole :
    \/ m \in Executed
    \/ conns[c].broken
    \/ /\ conns[c].reader # "closed"
       /\ \E i \in conns[c].taken + 1 .. Len(conns[c].stream) : conns[c].stream[i] = <<"body", m>>

SameObject ==
  \A obj \in Objects(MaxSize), from, to \in {1, Half - 1} :
    Deserialize(Serialize(obj, from), to) = CopyOf(obj, to)

(* Whatever object a message is, what is executed is a copy of it,         *)
(* wherever the buffers of both ends are: what is written over the second  *)
(* copy was compared before.                                               *)
RoundTrip == executed # <<>> => SameObject

(* After Nodes::remove() or cleanup() no connection is opened and nothing  *)
(* is written, whatever the writers were doing.                            *)
SilentAfterRemove ==
  [][node.disconnected => /\ Len(conns') = Len(conns)
                          /\ \A c \in DOMAIN conns : Len(conns'[c].stream) <= Len(conns[c].stream)
    ]_vars

(* A writer ends, unless the other node does not listen any more and was   *)
(* not removed: then it tries for ever.                                    *)
WriteEnds ==
  \A m \in Messages :
    Waits(m) ~> Ended(m) \/ (listener = "ended" /\ ~node.disconnected)

(* What was written whole is executed, or its connection failed.           *)
Delivered ==
  \A m \in Messages :
    (\E c \in DOMAIN conns : m \in conns[c].whole)
      ~> (m \in Executed \/ \E c \in DOMAIN conns : m \in conns[c].whole /\ conns[c].broken)

(* Who reads is not cancelled by its own node (the TODO of listener.cpp),  *)
(* it ends when the other node removes this one or shuts down: until then  *)
(* waitForAll() of this node waits.                                        *)
ReadersEnd ==
  node.disconnected ~> \A c \in DOMAIN conns : conns[c].reader = "closed"

-----------------------------------------------------------------------------
(* What these rest on.  The writers come to the mutex in their order.      *)
Queueing ==
  /\ \A k, m \in Messages : writer[k] # "none" /\ writer[m] = "none" => k < m
  /\ \A i, j \in DOMAIN lock : i < j => lock[i] < lock[j]
  /\ \A m \in Messages : writer[m] = "locking" <=> \E i \in DOMAIN lock : lock[i] = m
  /\ \A i \in DOMAIN lock : \A m \in Messages : writer[m] \in {"none", "started"} => lock[i] < m

(* A call is in progress while somebody owns the mutex, it needs an open   *)
(* socket, and there is none after the removal.                            *)
Calling ==
  /\ call.op = "none" <=> lock = <<>>
  /\ call.op = "none" => call.result = ""
  /\ call.written > 0 => call.op = "write"
  /\ call.op = "write" => (call.result = "ok" <=> call.written = 2)
  /\ call.op = "write" /\ call.result = "" => socket # 0
  /\ call.op = "connect" /\ call.result # "ok" => socket = 0
  /\ node.disconnected => socket = 0 /\ (call.op # "none" => call.result # "")

(* A connection is replaced only when it has failed.                       *)
Failures ==
  /\ \A c \in DOMAIN conns : c < Len(conns) => conns[c].broken
  /\ conns # <<>> /\ socket = 0 => conns[Len(conns)].broken \/ node.disconnected
  /\ socket # 0 /\ ~conns[socket].broken =>
       ~conns[socket].left /\ conns[socket].reader # "closed" /\ call.result # "error"

(* Between two calls the stream that is written to ends with a packet.     *)
Boundary ==
  socket # 0 /\ ~conns[socket].left =>
    LET stream == conns[socket].stream
    IN  IF call.written = 1
          THEN Len(stream) % 2 = 1 /\ stream[Len(stream)] = <<"size", Head(lock)>>
          ELSE Len(stream) % 2 = 0

(* What was written whole was written in order, the newer connections      *)
(* behind the older ones, before whatever is still to be written.          *)
ToWrite(k) == writer[k] \in {"none", "started", "locking"}

WrittenInOrder ==
  \A c \in DOMAIN conns :
    /\ \A i \in DOMAIN conns[c].stream : i % 2 = 0 => conns[c].stream[i][2] \in conns[c].whole
    /\ \A i, j \in DOMAIN conns[c].stream :
         i % 2 = 0 /\ j % 2 = 0 /\ i < j => conns[c].stream[i][2] < conns[c].stream[j][2]
    /\ \A m \in conns[c].whole :
         /\ \A d \in DOMAIN conns : c < d => \A k \in conns[d].whole : m < k
         /\ \A k \in Messages :
              ToWrite(k) => m < k \/ (k = m /\ call.written = 2 /\ Head(lock) = m)

(* What was executed was read from a connection, in the order of that.     *)
ExecutedAsRead ==
  /\ \A c \in DOMAIN conns : conns[c].taken \in 0 .. Len(conns[c].stream)
  /\ \A i \in DOMAIN executed :
       /\ executed[i].conn \in DOMAIN conns
       /\ \E k \in 1 .. conns[executed[i].conn].taken :
            conns[executed[i].conn].stream[k] = <<"body", executed[i].message>>
  /\ \A i, j \in DOMAIN executed :
       i < j /\ executed[i].conn = executed[j].conn => executed[i].message < executed[j].message

(* Whatever fails on the way, the packets on a connection are whole, none  *)
(* is executed twice, and only with a connection that fails one is lost or *)
(* overtaken.                                                              *)
NetworkInv ==
  /\ TypeOK /\ Framing /\ AtMostOnce /\ OvertakenByFaultOnly /\ LostByFaultOnly
  /\ Queueing /\ Calling /\ Failures /\ Boundary /\ WrittenInOrder /\ ExecutedAsRead

(* Everybody ends, writers and readers, and what was written is executed.  *)
Progress == WriteEnds /\ Delivered /\ ReadersEnd
=============================================================================
