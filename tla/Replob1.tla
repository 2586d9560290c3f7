------------------------------- MODULE Replob1 -------------------------------
(***************************************************************************)
(* The first version of the replication protocol: struct Replob of         *)
(* src/replob.cpp with the step table it keeps itself.  A process votes    *)
(* once in each step, for the first message it learns of; a step is        *)
(* decided when there are as many votes as NodesConfig has nodes; who did  *)
(* not vote in time is taken out of NodesConfig.                           *)
(*                                                                         *)
(* As in Voting, a process has one event-loop thread and no handler        *)
(* yields: a handler with all it calls is one action, and chan[m][n] is    *)
(* the TCP stream from m to n.                                             *)
(***************************************************************************)
EXTENDS Integers, FiniteSets, Sequences

CONSTANTS
  Node,     \* the NodeIds of the cluster
  MaxStep,  \* bound: step ids 0 .. MaxStep-1 are used
  MaxMsg,   \* bound: how many messages are proposed
  MaxStop,  \* bound: how many processes die or clean up
  Timely    \* TRUE: 200 ms is longer than any message takes to arrive

ASSUME Replob1Assumption ==
  /\ IsFiniteSet(Node)
  /\ MaxStep \in Nat
  /\ MaxMsg \in Nat
  /\ MaxStop \in Nat
  /\ Timely \in BOOLEAN

VARIABLES
  mode,       \* mode[n]: "up" or "stopped" (it died, or cleanup() ran)
  config,     \* config[n]: the nodes of NodesConfig
  next,       \* next[n]: nextStepId_
  commiting,  \* commiting[n]: commitingStepId_
  steps,      \* steps[n][s]: the StepData of s, Fresh if there is none
  timer,      \* timer[n][s]: the availabilityTimer of that StepData is armed
  chan,       \* chan[m][n]: messages on their way from m to n
  started,    \* started[n][k]: the step in which n proposed its k-th message
  log         \* log[n][s+1]: the batch that n executed in step s

vars == <<mode, config, next, commiting, steps, timer, chan, started, log>>

Step == 0 .. MaxStep - 1

(* votedNodes as the set of pairs of a message and a node that voted for   *)
(* it.  A std::map executes a batch in the order of the ids, the same      *)
(* everywhere, so a batch is a set.                                        *)
Fresh == [state |-> "Initial", votes |-> {}, msgs |-> {}]

VotedNodesSet(d) == {v[2] : v \in d.votes}

VoteMsg(s, x) == [type |-> "vote", step |-> s, msgs |-> {x}]
CommitMsg(s, batch) == [type |-> "commit", step |-> s, msgs |-> batch]
LeaveMsg(nodes) == [type |-> "leave", nodes |-> nodes]

Submitted == UNION {{n} \X DOMAIN started[n] : n \in Node}

(* broadcast(): to the other nodes of NodesConfig; what is written to a    *)
(* process that stopped is lost.                                           *)
Broadcast(c, n, msg) ==
  [c EXCEPT ![n] = [m \in Node |->
     IF m \in config'[n] \ {n} /\ mode[m] = "up"
       THEN Append(c[n][m], msg) ELSE c[n][m]]]

(* The streams out when those of n to the nodes S are closed: of each a    *)
(* part, from the front, still arrives.                                    *)
Closed(c, n, S) ==
  LET Prefixes(q) == {SubSeq(q, 1, k) : k \in 0 .. Len(q)}
  IN  {out \in [Node -> UNION {Prefixes(c[n][m]) : m \in Node}] :
         \A m \in Node : out[m] \in IF m \in S THEN Prefixes(c[n][m])
                                              ELSE {c[n][m]}}

-----------------------------------------------------------------------------
Init ==
  /\ mode = [n \in Node |-> "up"]
  /\ config = [n \in Node |-> Node]
  /\ next = [n \in Node |-> 0]
  /\ commiting = [n \in Node |-> 0]
  /\ steps = [n \in Node |-> [s \in Step |-> Fresh]]
  /\ timer = [n \in Node |-> [s \in Step |-> FALSE]]
  /\ chan = [m \in Node |-> [n \in Node |-> <<>>]]
  /\ started = [n \in Node |-> <<>>]
  /\ log = [n \in Node |-> <<>>]

(* tryProcess() runs the steps s .. k - 1: they are completed, and k is    *)
(* not or is no step yet.                                                  *)
ProcessesUpTo(k, s, d) ==
  /\ \A i \in s .. k - 1 : d[i].state = "Completed"
  /\ k < MaxStep => d[k].state # "Completed"

Due(n, s) == s = commiting[n]

(* tryProcess(s) of n, whose table is d.                                   *)
TryProcess(n, s, d, t) ==
  \/ /\ ~Due(n, s)
     /\ steps' = [steps EXCEPT ![n] = d]
     /\ timer' = [timer EXCEPT ![n] = t]
     /\ UNCHANGED <<commiting, log>>
  \/ /\ Due(n, s)
     /\ \E k \in s + 1 .. MaxStep :
          /\ ProcessesUpTo(k, s, d)
          /\ commiting' = [commiting EXCEPT ![n] = k]
          /\ log' = [log EXCEPT ![n] =
                       @ \o [i \in 1 .. k - s |-> d[s + i - 1].msgs]]
          /\ steps' = [steps EXCEPT ![n] =
                         [i \in Step |-> IF i < k THEN Fresh ELSE d[i]]]
          /\ timer' = [timer EXCEPT ![n] = [i \in Step |-> i >= k /\ t[i]]]

(* commit(): the step is Completed, its timer reset, the others are told.  *)
Commit(n, s, batch, c) ==
  /\ chan' = Broadcast(c, n, CommitMsg(s, batch))
  /\ TryProcess(n, s,
       [steps[n] EXCEPT ![s] = [state |-> "Completed", votes |-> {}, msgs |-> batch]],
       [timer[n] EXCEPT ![s] = FALSE])

(* Slips in mayCommit(): a majority of the votes is enough; all must have  *)
(* voted for the same message.                                             *)
MayCommitMajority(d, n) == 2 * Cardinality(d.votes) > Cardinality(config[n])
MayCommitSame(d, n) ==
  \E x \in {v[1] : v \in d.votes} :
    Cardinality({v \in d.votes : v[1] = x}) = Cardinality(config[n])

(* As many votes as NodesConfig has nodes, whoever they are of.            *)
MayCommit(d, n) == Cardinality(d.votes) = Cardinality(config[n])

(* A slip in vote(): a process votes for each message it hears of.         *)
VotedForAll(n, s, x, voted) ==
  [steps[n][s] EXCEPT !.state = "Voted", !.votes = @ \cup {<<x, voted>>, <<x, n>>}]

(* The vote of a node for message x, and this process's own vote if it has *)
(* none in this step.                                                      *)
Voted(n, s, x, voted) ==
  [steps[n][s] EXCEPT
     !.state = "Voted",
     !.votes = @ \cup {<<x, voted>>}
                 \cup (IF steps[n][s].state = "Initial" THEN {<<x, n>>} ELSE {})]

(* The messages of a step that is decided: all that got a vote.            *)
Msgs(d) == {v[1] : v \in d.votes}

(* vote() on a step that getStep() has; the timer is armed with the first  *)
(* vote of this process.                                                   *)
Vote(n, s, x, voted, c) ==
  LET d == Voted(n, s, x, voted)
      first == steps[n][s].state = "Initial"
  IN  \/ /\ MayCommit(d, n)
         /\ Commit(n, s, Msgs(d), c)
      \/ /\ ~MayCommit(d, n)
         /\ steps' = [steps EXCEPT ![n][s] = d]
         /\ timer' = [timer EXCEPT ![n][s] = @ \/ first]
         /\ chan' = IF first THEN Broadcast(c, n, VoteMsg(s, x)) ELSE c
         /\ UNCHANGED <<commiting, log>>

-----------------------------------------------------------------------------
NextStepId(n) == next[n]

(* apply(): the next step is proposed.                                     *)
Apply(n) ==
  LET s == NextStepId(n)
  IN  /\ mode[n] = "up"
      /\ s < MaxStep
      /\ Cardinality(Submitted) < MaxMsg
      /\ next' = [next EXCEPT ![n] = s + 1]
      /\ started' = [started EXCEPT ![n] = Append(@, s)]
      /\ UNCHANGED <<mode, config>>
      /\ Vote(n, s, <<n, Len(started[n]) + 1>>, n, chan)

Receives(m, n) == mode[n] = "up" /\ chan[m][n] # <<>>
Popped(m, n) == [chan EXCEPT ![m][n] = Tail(@)]

(* getStep() knows no step that was executed or completed here.            *)
HasStep(n, s) == s >= commiting[n] /\ steps[n][s].state # "Completed"

RecvStale(m, n) ==
  /\ Receives(m, n)
  /\ Head(chan[m][n]).type \in {"vote", "commit"}
  /\ ~HasStep(n, Head(chan[m][n]).step)
  /\ chan' = Popped(m, n)
  /\ UNCHANGED <<mode, config, next, commiting, steps, timer, started, log>>

UpdateCurrentStepId(n, s) ==
  next' = [next EXCEPT ![n] = IF @ <= s THEN s + 1 ELSE @]

Recv(m, n) ==
  /\ Receives(m, n)
  /\ LET msg == Head(chan[m][n])
     IN  /\ msg.type \in {"vote", "commit"}
         /\ HasStep(n, msg.step)
         /\ UpdateCurrentStepId(n, msg.step)
         /\ UNCHANGED <<mode, config, started>>
         /\ IF msg.type = "vote"
              THEN \E x \in msg.msgs : Vote(n, msg.step, x, m, Popped(m, n))
              ELSE Commit(n, msg.step, msg.msgs, Popped(m, n))

(* disconnectNodes(): those that Nodes::remove() still finds leave         *)
(* NodesConfig, their connectors are closed, the others are told.  The     *)
(* steps that wait for them are not looked at again.                       *)
DisconnectNodes(n, nodes, c) ==
  LET gone == nodes \cap config[n]
  IN  /\ config' = [config EXCEPT ![n] = @ \ gone]
      /\ \E out \in Closed(c, n, gone) :
           chan' = IF gone = {} THEN c
                ELSE Broadcast([c EXCEPT ![n] = out], n, LeaveMsg(gone))

RecvLeave(m, n) ==
  /\ Receives(m, n)
  /\ Head(chan[m][n]).type = "leave"
  /\ UNCHANGED <<mode, next, commiting, steps, timer, started, log>>
  /\ DisconnectNodes(n, Head(chan[m][n]).nodes, Popped(m, n))

(* onTimeout(): who did not vote in the step is disconnected.              *)
OnTimeout(n, s) ==
  /\ mode[n] = "up"
  /\ timer[n][s]
  /\ Timely => \A m, k \in Node : mode[k] # "up" \/ chan[m][k] = <<>>
  /\ timer' = [timer EXCEPT ![n][s] = FALSE]
  /\ UNCHANGED <<mode, next, commiting, steps, started, log>>
  /\ DisconnectNodes(n, config[n] \ VotedNodesSet(steps[n][s]), chan)

(* A process dies, or cleanupAll() runs cleanup() and closes the           *)
(* connectors: it keeps no step and takes part in none any more.           *)
Stop(n) ==
  /\ mode[n] = "up"
  /\ Cardinality({m \in Node : mode[m] # "up"}) < MaxStop
  /\ mode' = [mode EXCEPT ![n] = "stopped"]
  /\ commiting' = [commiting EXCEPT ![n] = MaxStep]
  /\ steps' = [steps EXCEPT ![n] = [s \in Step |-> Fresh]]
  /\ timer' = [timer EXCEPT ![n] = [s \in Step |-> FALSE]]
  /\ \E out \in Closed(chan, n, Node) :
       chan' = [m \in Node |-> IF m = n THEN out ELSE [chan[m] EXCEPT ![n] = <<>>]]
  /\ UNCHANGED <<config, next, started, log>>

-----------------------------------------------------------------------------
Receive(m, n) == RecvStale(m, n) \/ Recv(m, n) \/ RecvLeave(m, n)

Next ==
  \/ \E n \in Node : Apply(n) \/ Stop(n)
  \/ \E m, n \in Node : Receive(m, n)
  \/ \E n \in Node : \E s \in Step : OnTimeout(n, s)

Spec == Init /\ [][Next]_vars

(* As long as there is something to read, somebody reads.                  *)
Fairness == WF_vars(\E m, n \in Node : Receive(m, n))

FairSpec == Spec /\ Fairness
=============================================================================
