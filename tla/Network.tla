------------------------------- MODULE Network -------------------------------
(***************************************************************************)
(* A node that sends to another one: broadcast() and Nodes of node.cpp,    *)
(* Connector, the waiting around a call of Socket in network.cpp, and the  *)
(* MsgListener of the other node.  The event loop of a node has one thread *)
(* (server.h), so a coroutine runs until it waits in one action.           *)
(*                                                                         *)
(* A packet is two cells, the size and the body, since these are what the  *)
(* other end reads.  The system between the nodes (boost::asio and TCP)    *)
(* takes the cells of a write one by one and completes it with an error    *)
(* only while cells are left; it may give up a connection at any moment,   *)
(* and then what did not arrive is lost and what arrived can be read.      *)
(***************************************************************************)
EXTENDS Serialization, FiniteSets

CONSTANTS
  Messages,   \* what is broadcast, numbered in this order
  MaxFaults,  \* bound on the connections given up and handlers that throw
  MaxSize     \* bound on the objects whose bytes are checked

ASSUME NetworkAssumption == Messages \subseteq Nat /\ MaxFaults \in Nat

VARIABLES
  writer,    \* writer[m]: the coroutine that sends m
  lock,      \* the Mutex write_: its owner and those who wait, in order
  socket,    \* the connection of socket_, 0 when it is not open
  call,      \* the call of the socket in progress: op "none", "write" or
             \* "connect", the cells written, and its result: "" until it is
             \* complete, "ok" or "error"
  node,      \* of Nodes and NodesConfig: who is left of the other node, and
             \* the disconnected_ of its Connector
  listener,  \* the coroutine that accepts: "new", "accepting", "raised" once
             \* it was cancelled, and "ended"
  conns,     \* the connections, in the order they were opened
  faults,    \* how many faults there were
  executed   \* the messages that were executed, each with its connection

sending == <<writer, lock, socket, call, node>>
vars == <<writer, lock, socket, call, node, listener, conns, faults, executed>>

-----------------------------------------------------------------------------
Cells == {"size", "body"} \X Messages
Packet(m) == <<<<"size", m>>, <<"body", m>>>>

NoCall == [op |-> "none", written |-> 0, result |-> ""]

(* What was written to a connection and arrives, how much of it was read,  *)
(* who reads, and whether the end that writes has left it; the messages    *)
(* that were written whole, and whether anything of it may be lost.        *)
NewConn == [stream |-> <<>>, taken |-> 0, reader |-> "backlog", left |-> FALSE,
            whole |-> {}, broken |-> FALSE]

Init ==
  /\ writer = [m \in Messages |-> "none"]
  /\ lock = <<>>
  /\ socket = 0
  /\ call = NoCall
  /\ node = [listed |-> TRUE, present |-> TRUE, disconnected |-> FALSE]
  /\ listener = "new"
  /\ conns = <<>>
  /\ faults = 0
  /\ executed = <<>>

-----------------------------------------------------------------------------
(* The calls of the socket.                                                *)

(* Socket::write(): fails at once when the socket is not open.             *)
Write(open) ==
  [op |-> "write", written |-> 0, result |-> IF open = 0 THEN "error" ELSE ""]
Connect == [op |-> "connect", written |-> 0, result |-> ""]

(* networkRetry() writes the whole packet again.                           *)
WriteAgain == Write(socket)

(* What was written still arrives when its socket is closed.               *)
Left(c) == [conns EXCEPT ![c].left = TRUE]

(* A call in progress is aborted, one that is complete keeps its result.   *)
Aborted ==
  IF call.op # "none" /\ call.result = "" THEN [call EXCEPT !.result = "error"] ELSE call

(* Socket::close().                                                        *)
Close ==
  /\ socket' = 0
  /\ conns' = IF socket # 0 THEN Left(socket) ELSE conns

-----------------------------------------------------------------------------
(* The node that sends.                                                    *)

InOrder(m, where) == writer[m] = where /\ \A k \in Messages : k < m => writer[k] # where

(* broadcast(): a coroutine for each other node that is still listed.  The *)
(* loop of a single thread starts coroutines in this order.                *)
Broadcast(m) ==
  /\ InOrder(m, "none")
  /\ writer' = [writer EXCEPT ![m] = IF node.listed THEN "started" ELSE "skipped"]
  /\ UNCHANGED <<lock, socket, call, node, listener, conns, faults, executed>>

(* A slip: the mutex of the connector is not locked.                       *)
OwnerAnyway(m) == TRUE

Owner(m) == lock = <<>>

Queued(m) == Append(lock, m)

(* Nodes::get() throws when the connector was reset.                       *)
Got == node.present

(* Nodes::send(): Connector::write() locks the mutex, and writes if nobody *)
(* else does.                                                              *)
Send(m) ==
  /\ InOrder(m, "started")
  /\ IF Got
       THEN /\ writer' = [writer EXCEPT ![m] = "locking"]
            /\ lock' = Queued(m)
            /\ call' = IF Owner(m) THEN Write(socket) ELSE call
       ELSE /\ writer' = [writer EXCEPT ![m] = "threw"]
            /\ UNCHANGED <<lock, call>>
  /\ UNCHANGED <<socket, node, listener, conns, faults, executed>>

(* The writer leaves, and the mutex is handed to the next, who writes.     *)
Leaves(how, open) ==
  /\ writer' = [writer EXCEPT ![Head(lock)] = how]
  /\ lock' = Tail(lock)
  /\ call' = IF Len(lock) > 1 THEN Write(open) ELSE NoCall

Written ==
  /\ call.op = "write" /\ call.result = "ok"
  /\ Leaves("returned", socket)
  /\ UNCHANGED <<socket, node, listener, conns, faults, executed>>

(* A slip: reconnect() does not look at disconnected_.                     *)
MayConnectAnyway == TRUE

MayConnect == ~node.disconnected

(* The socket is closed and NetworkError is thrown; performOp() catches it *)
(* and calls reconnect(), which tries as often as it takes, but throws     *)
(* ConnectorError when the node was disconnected.                          *)
Failed ==
  /\ call.result = "error"
  /\ Close
  /\ IF MayConnect
       THEN call' = Connect /\ UNCHANGED <<writer, lock>>
       ELSE Leaves("threw", 0)
  /\ UNCHANGED <<node, listener, faults, executed>>

Connected ==
  /\ call.op = "connect" /\ call.result = "ok"
  /\ call' = WriteAgain
  /\ UNCHANGED <<writer, lock, socket, node, listener, conns, faults, executed>>

(* A slip: the socket stays open until it is used again.                   *)
DisconnectLate == UNCHANGED <<socket, conns, call>>

(* Connector::disconnect().                                                *)
Disconnect ==
  IF node.disconnected
    THEN UNCHANGED <<socket, conns, call>>
    ELSE Close /\ call' = Aborted

(* Nodes::remove() of a node that was not removed yet.                     *)
RemoveNode ==
  /\ node.present /\ node.listed
  /\ node' = [node EXCEPT !.listed = FALSE, !.disconnected = TRUE]
  /\ Disconnect
  /\ UNCHANGED <<writer, lock, listener, faults, executed>>

(* Nodes::cleanup().                                                       *)
Cleanup ==
  /\ node.present
  /\ node' = [node EXCEPT !.present = FALSE, !.disconnected = TRUE]
  /\ Disconnect
  /\ UNCHANGED <<writer, lock, listener, faults, executed>>

-----------------------------------------------------------------------------
(* Between the nodes.                                                      *)

Pending == call.result = ""

(* The next cell is taken.  When the other end has closed the connection   *)
(* that is not known at once.                                              *)
Transfer ==
  /\ call.op = "write" /\ call.result = "" /\ socket # 0
  /\ ~conns[socket].left
  /\ LET n == call.written + 1
     IN  /\ conns' = [conns EXCEPT ![socket].stream = Append(@, Packet(Head(lock))[n]),
                                   ![socket].whole = IF n = 2 THEN @ \cup {Head(lock)} ELSE @]
         /\ call' = [call EXCEPT !.written = n, !.result = IF n = 2 THEN "ok" ELSE ""]
  /\ UNCHANGED <<writer, lock, socket, node, listener, faults, executed>>

(* The connection was given up, or closed by the other end.                *)
WriteFails ==
  /\ call.op = "write" /\ Pending /\ socket # 0
  /\ conns[socket].left \/ conns[socket].reader = "closed"
  /\ call' = [call EXCEPT !.result = "error"]
  /\ UNCHANGED <<writer, lock, socket, node, listener, conns, faults, executed>>

(* A connection waits to be accepted; it is refused when nobody listens.   *)
ConnectEnds ==
  /\ call.op = "connect" /\ call.result = ""
  /\ IF listener \in {"accepting", "raised"}
       THEN /\ conns' = Append(conns, NewConn)
            /\ socket' = Len(conns')
            /\ call' = [call EXCEPT !.result = "ok"]
       ELSE /\ call' = [call EXCEPT !.result = "error"]
            /\ UNCHANGED <<conns, socket>>
  /\ UNCHANGED <<writer, lock, node, listener, faults, executed>>

(* A connection is given up: some of what is on its way does not arrive.   *)
GiveUp(c) ==
  /\ faults < MaxFaults
  /\ ~conns[c].left /\ conns[c].reader # "closed"
  /\ faults' = faults + 1
  /\ \E n \in conns[c].taken .. Len(conns[c].stream) :
       conns' = [conns EXCEPT ![c].left = TRUE, ![c].broken = TRUE, ![c].stream = SubSeq(@, 1, n)]
  /\ UNCHANGED <<sending, listener, executed>>

-----------------------------------------------------------------------------
(* The node that listens.                                                  *)
Listen ==
  /\ listener = "new"
  /\ listener' = "accepting"
  /\ UNCHANGED <<sending, conns, faults, executed>>

(* Acceptor::goAccept(): a coroutine reads from the next connection.  A    *)
(* cancelled one still does when it was told about a connection before.    *)
Accept ==
  /\ listener \in {"accepting", "raised"}
  /\ \E c \in DOMAIN conns :
       /\ conns[c].reader = "backlog"
       /\ \A b \in 1 .. c - 1 : conns[b].reader # "backlog"
       /\ conns' = [conns EXCEPT ![c].reader = "reading"]
  /\ UNCHANGED <<sending, listener, faults, executed>>

(* MsgListener::cancel(): nobody else is accepted, but who reads goes on.  *)
Cancel ==
  /\ listener = "accepting"
  /\ listener' = "raised"
  /\ UNCHANGED <<sending, conns, faults, executed>>

AcceptThrows ==
  /\ listener = "raised"
  /\ listener' = "ended"
  /\ conns' = [c \in DOMAIN conns |->
                 IF conns[c].reader # "backlog" THEN conns[c]
                 ELSE [conns[c] EXCEPT !.reader = "closed", !.broken = TRUE]]
  /\ UNCHANGED <<sending, faults, executed>>

Readable(c) == conns[c].reader = "reading" /\ conns[c].taken < Len(conns[c].stream)

ReadSize(c) ==
  /\ Readable(c) /\ conns[c].taken % 2 = 0
  /\ conns' = [conns EXCEPT ![c].taken = @ + 1]
  /\ UNCHANGED <<sending, listener, faults, executed>>

(* The body is read and its message is executed in place; when that throws *)
(* the coroutine ends and its socket is closed.                            *)
ReadBody(c) ==
  /\ Readable(c) /\ conns[c].taken % 2 = 1
  /\ executed' = Append(executed, [message |-> conns[c].stream[conns[c].taken + 1][2], conn |-> c])
  /\ \E throws \in {FALSE} \cup (IF faults < MaxFaults THEN {TRUE} ELSE {}) :
       /\ faults' = IF throws THEN faults + 1 ELSE faults
       /\ conns' = [conns EXCEPT ![c].taken = @ + 1,
                                 ![c].reader = IF throws THEN "closed" ELSE @,
                                 ![c].broken = @ \/ throws]
  /\ UNCHANGED <<sending, listener>>

AllRead(c) == conns[c].taken = Len(conns[c].stream)

ReadFails(c) ==
  /\ conns[c].reader = "reading" /\ conns[c].left
  /\ AllRead(c)
  /\ conns' = [conns EXCEPT ![c].reader = "closed"]
  /\ UNCHANGED <<sending, listener, faults, executed>>

-----------------------------------------------------------------------------
Sender == (\E m \in Messages : Send(m)) \/ Written \/ Failed \/ Connected
System == Transfer \/ WriteFails \/ ConnectEnds
Reader(c) == ReadSize(c) \/ ReadBody(c) \/ ReadFails(c)

Next ==
  \/ \E m \in Messages : Broadcast(m)
  \/ Sender \/ System
  \/ RemoveNode \/ Cleanup
  \/ Listen \/ Accept \/ Cancel \/ AcceptThrows
  \/ \E c \in DOMAIN conns : GiveUp(c) \/ Reader(c)

(* The loops of both nodes run what is ready, and a call of the system     *)
(* ends.  Nobody has to broadcast, to remove or to cancel.                 *)
Fairness ==
  /\ WF_vars(Sender)
  /\ WF_vars(System)
  /\ WF_vars(Listen)
  /\ WF_vars(Accept \/ AcceptThrows)
  /\ WF_vars(\E c \in DOMAIN conns : Reader(c))

Spec == Init /\ [][Next]_vars /\ Fairness
=============================================================================
