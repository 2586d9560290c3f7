------------------------------- MODULE Voting -------------------------------
(***************************************************************************)
(* The replication protocol of include/synca/once/replob.h (Voting,        *)
(* Replob2) together with the step table it lives in (Phantom, phantom.h), *)
(* the timer it arms (Timer, core.cpp) and the broadcast it sends with     *)
(* (node.cpp, broadcast.h).                                                *)
(*                                                                         *)
(* Each process runs one event-loop thread (ThreadPool tp{1} in server.h), *)
(* and neither vote() nor commit() yields, so one call of a handler, with  *)
(* everything it calls, is one action.  Two processes are connected by a   *)
(* TCP stream per direction: chan[m][n] holds what m wrote to n and n has  *)
(* not yet read.  It stays in order because broadcast() starts one         *)
(* coroutine per destination and these queue up on the connector's mutex.  *)
(***************************************************************************)
EXTENDS Integers, FiniteSets, Sequences

CONSTANTS
  Node,      \* the NodeIds of NodesConfig, the same on every process
  MaxStep,   \* bound: step ids 0 .. MaxStep-1 are used
  MaxMsg,    \* bound: how many messages are proposed
  MaxCrash,  \* bound: how many processes may die
  Timely,    \* TRUE: 500 ms is longer than any message takes to arrive
  Reuse      \* TRUE: a destroyed Voting's memory may hold a newer one

ASSUME VotingAssumption ==
  /\ Node \subseteq Nat
  /\ IsFiniteSet(Node)
  /\ Node # {}
  /\ MaxStep \in Nat
  /\ MaxMsg \in Nat
  /\ MaxCrash \in Nat
  /\ Timely \in BOOLEAN
  /\ Reuse \in BOOLEAN

VARIABLES
  mode,     \* mode[n]: "up", "closing" (fail() ran), "closed", "crashed"
  next,     \* next[n]: Phantom::nextStepId_
  current,  \* current[n]: Phantom::currentStepId_
  voting,   \* voting[n][s]: the Voting object of step s, Fresh if there is none
  timer,    \* timer[n][s]: the timer_ of that object
  chan,     \* chan[m][n]: messages on their way from m to n
  started,  \* started[n][k]: the step in which n proposed its k-th message
  log       \* log[n][s+1]: the batch that n executed in step s

vars == <<mode, next, current, voting, timer, chan, started, log>>

-----------------------------------------------------------------------------
Step == 0 .. MaxStep - 1

(* genUniqueId(): the node and its running number.  The payload is a       *)
(* function of the id, and a std::set ordered by id is executed in an      *)
(* order that only depends on its elements, so a batch is a set of ids.    *)
MsgId == Node \X Nat

(* A default-constructed Voting.  The phantom's completed_ flag is set in  *)
(* the call that sets state_ to Completed and never reset, so the state    *)
(* stands for both.                                                        *)
Fresh == [state |-> "Initial", nodes |-> {}, voted |-> {}, carries |-> {}]

VoteMsg(s, carries, nodes) ==
  [type |-> "vote", step |-> s, carries |-> carries, nodes |-> nodes]

CommitMsg(s, carries) ==
  [type |-> "commit", step |-> s, carries |-> carries, nodes |-> {}]

Alive(n) == mode[n] \in {"up", "closing"}

(* The messages proposed so far, and those proposed in step s.             *)
Submitted == UNION {{n} \X DOMAIN started[n] : n \in Node}

Proposed(s) == {x \in Submitted : started[x[1]][x[2]] = s}

(* broadcast(): one message to every other node; what is written to a dead *)
(* process is lost.                                                        *)
Broadcast(c, n, msg) ==
  [c EXCEPT ![n] = [m \in Node |-> IF m = n \/ mode[m] = "crashed"
                                     THEN c[n][m] ELSE Append(c[n][m], msg)]]

(* What readers may still get of what n wrote when its sockets go away:    *)
(* of each stream that is not empty some part, from the front.             *)
CutStreams(n) ==
  LET busy == {m \in Node : chan[n][m] # <<>>}
      cuts == {k \in [busy -> UNION {0 .. Len(chan[n][m]) : m \in busy}] :
                 \A m \in busy : k[m] <= Len(chan[n][m])}
  IN  {[m \in Node |-> IF m \in busy THEN SubSeq(chan[n][m], 1, k[m]) ELSE <<>>] :
         k \in cuts}

-----------------------------------------------------------------------------
Init ==
  /\ mode = [n \in Node |-> "up"]
  /\ next = [n \in Node |-> 0]
  /\ current = [n \in Node |-> 0]
  /\ voting = [n \in Node |-> [s \in Step |-> Fresh]]
  /\ timer = [n \in Node |-> [s \in Step |-> "off"]]
  /\ chan = [m \in Node |-> [n \in Node |-> <<>>]]
  /\ started = [n \in Node |-> <<>>]
  /\ log = [n \in Node |-> <<>>]

(* Slips in Phantom::complete(): it runs steps that are not completed, it  *)
(* stops after the first.                                                  *)
RunsUpToAny(k, s, v, last) == TRUE
RunsUpToOne(k, s, v, last) == k = s + 1

(* The loop of Phantom::complete() runs the steps from s to k - 1: they    *)
(* are completed, and k is not or is no step yet.                          *)
RunsUpTo(k, s, v, last) ==
  /\ \A i \in s .. k - 1 : v[i].state = "Completed"
  /\ k < last => v[k].state # "Completed"

Batches(k, s, v) == [i \in 1 .. k - s |-> v[s + i - 1].carries]

(* Phantom::complete() for step s of n, whose table is v once s is         *)
(* Completed: execute every completed step up to the first that is not.    *)
(* An executed object is erased: its armed timer is cancelled, but one     *)
(* that has already been queued stays queued.                              *)
Complete(n, s, v, t) ==
  \/ /\ s # current[n]
     /\ voting' = [voting EXCEPT ![n] = v]
     /\ timer' = t
     /\ UNCHANGED <<current, log>>
  \/ /\ s = current[n]
     /\ \E k \in s + 1 .. next'[n] :
          /\ RunsUpTo(k, s, v, next'[n])
          /\ current' = [current EXCEPT ![n] = k]
          /\ log' = [log EXCEPT ![n] = @ \o Batches(k, s, v)]
          /\ voting' = [voting EXCEPT ![n] =
                          [i \in Step |-> IF i < k THEN Fresh ELSE v[i]]]
          /\ timer' = [t EXCEPT ![n] =
                         [i \in Step |-> IF i < k /\ t[n][i] = "armed"
                                           THEN "off" ELSE t[n][i]]]

InState(state, w, carries) ==
  [state |-> state, nodes |-> w.nodes, voted |-> w.voted, carries |-> carries]

(* Voting::commit() on the object w.                                       *)
Commit(n, s, w, carries, c, t) ==
  /\ chan' = Broadcast(c, n, CommitMsg(s, carries))
  /\ Complete(n, s, [voting[n] EXCEPT ![s] = InState("Completed", w, carries)], t)

(* Slips in vote(): what others carry replaces what this process carries,  *)
(* a new ballot is not voted in.                                           *)
MergedReplacing(w, n, carries, src, nodes) ==
  [state |-> w.state, nodes |-> nodes,
   voted |-> w.voted \cup {src, n}, carries |-> carries]

MergedSilent(w, n, carries, src, nodes) ==
  [state   |-> w.state,
   nodes   |-> IF w.nodes = {} THEN nodes ELSE w.nodes \cap nodes,
   voted   |-> (IF w.nodes \in {{}, nodes} THEN w.voted ELSE {}) \cup {src, n},
   carries |-> w.carries \cup carries]

(* The object after the first half of vote(): a different set of nodes     *)
(* restarts the ballot within the intersection.                            *)
Merged(w, n, carries, src, nodes) ==
  LET changed == w.nodes # {} /\ w.nodes # nodes
  IN  [state   |-> IF changed THEN "Initial" ELSE w.state,
       nodes   |-> IF changed THEN w.nodes \cap nodes ELSE nodes,
       voted   |-> (IF changed THEN {} ELSE w.voted) \cup {src, n},
       carries |-> w.carries \cup carries]

(* Voting::vote(), on channels c and timers t.                             *)
Vote(n, s, carries, src, nodes, c, t) ==
  LET w == Merged(voting[n][s], n, carries, src, nodes)
  IN  \/ /\ voting[n][s].state = "Completed"
         /\ chan' = c
         /\ timer' = t
         /\ UNCHANGED <<current, voting, log>>
      \/ /\ voting[n][s].state # "Completed"
         /\ w.voted = w.nodes
         /\ Commit(n, s, w, w.carries, c, t)
      \/ /\ voting[n][s].state # "Completed"
         /\ w.voted # w.nodes
         /\ voting' = [voting EXCEPT ![n][s] = InState("Voted", w, w.carries)]
         /\ chan' = IF w.state = "Initial"
                      THEN Broadcast(c, n, VoteMsg(s, w.carries, w.nodes))
                      ELSE c
         /\ timer' = t
         /\ UNCHANGED <<current, log>>

-----------------------------------------------------------------------------
(* Replob2::apply(): take the next step id, arm the timer, vote.           *)
Apply(n) ==
  LET s == next[n]
      k == Len(started[n]) + 1
  IN  /\ Alive(n)
      /\ s < MaxStep
      /\ Cardinality(Submitted) < MaxMsg
      /\ next' = [next EXCEPT ![n] = s + 1]
      /\ started' = [started EXCEPT ![n] = Append(@, s)]
      /\ Vote(n, s, {<<n, k>>}, n, Node, chan, [timer EXCEPT ![n][s] = "armed"])
      /\ UNCHANGED mode

(* The listener of n takes the next message of m off the socket.           *)
Receives(m, n) == mode[n] # "crashed" /\ chan[m][n] # <<>>

Popped(m, n) == [chan EXCEPT ![m][n] = Tail(@)]

(* phantomPtr() of a step that was executed here is null.                  *)
RecvStale(m, n) ==
  /\ Receives(m, n)
  /\ Head(chan[m][n]).step < current[n]
  /\ chan' = Popped(m, n)
  /\ UNCHANGED <<mode, next, current, voting, timer, started, log>>

(* Otherwise getPtr() creates the object if need be and moves              *)
(* nextStepId_ past it.                                                    *)
Reaches(n, s) ==
  /\ s >= current[n]
  /\ next' = [next EXCEPT ![n] = IF @ <= s THEN s + 1 ELSE @]

RecvVote(m, n) ==
  /\ Receives(m, n)
  /\ LET msg == Head(chan[m][n])
     IN  /\ msg.type = "vote"
         /\ Reaches(n, msg.step)
         /\ Vote(n, msg.step, msg.carries, m, msg.nodes, Popped(m, n), timer)
  /\ UNCHANGED <<mode, started>>

RecvCommit(m, n) ==
  /\ Receives(m, n)
  /\ LET msg == Head(chan[m][n])
         w == voting[n][msg.step]
     IN  /\ msg.type = "commit"
         /\ Reaches(n, msg.step)
         /\ IF w.state = "Completed"
              THEN /\ chan' = Popped(m, n)
                   /\ UNCHANGED <<current, voting, timer, log>>
              ELSE Commit(n, msg.step, w, msg.carries, Popped(m, n), timer)
  /\ UNCHANGED <<mode, started>>

(* A process dies.  What it wrote arrives in part, nothing reaches it.     *)
Crash(n) ==
  /\ mode[n] # "crashed"
  /\ Cardinality({m \in Node : mode[m] = "crashed"}) < MaxCrash
  /\ mode' = [mode EXCEPT ![n] = "crashed"]
  /\ \E out \in CutStreams(n) :
       chan' = [m \in Node |-> IF m = n THEN out
                                        ELSE [chan[m] EXCEPT ![n] = <<>>]]
  /\ UNCHANGED <<next, current, voting, timer, started, log>>

-----------------------------------------------------------------------------
(* Timers of one process run out in the order in which they were armed,    *)
(* and the event loop runs their handlers in that order.                   *)
Earliest(n, s, phase) ==
  /\ timer[n][s] = phase
  /\ \A r \in 0 .. s - 1 : timer[n][r] # phase

(* The 500 ms of the timer of step s have passed: its handler is queued.   *)
(* A Timely network has delivered everything by then.                      *)
Expire(n, s) ==
  /\ Alive(n)
  /\ Earliest(n, s, "armed")
  /\ Timely => \A m, k \in Node : mode[k] = "crashed" \/ chan[m][k] = <<>>
  /\ timer' = [timer EXCEPT ![n][s] = "queued"]
  /\ UNCHANGED <<mode, next, current, voting, chan, started, log>>

(* Slips in isConsistent(): any half is enough, or anybody.                *)
IsConsistentHalf(w) == 2 * Cardinality(w.voted) >= Cardinality(w.nodes)
IsConsistentAny(w) == w.voted # {}

(* isConsistent(): a majority of the ballot's nodes, or half of them       *)
(* with the smallest id, voted.                                            *)
Least(S) == CHOOSE n \in S : \A m \in S : n <= m

IsConsistent(w) ==
  \/ 2 * Cardinality(w.voted) > Cardinality(w.nodes)
  \/ /\ 2 * Cardinality(w.voted) = Cardinality(w.nodes)
     /\ Least(w.voted) = Least(w.nodes)

(* fail(): cleanupAll() only schedules the clean-up.                       *)
Fail(n, t) ==
  /\ mode' = [mode EXCEPT ![n] = "closing"]
  /\ timer' = t
  /\ UNCHANGED <<current, voting, chan, log>>

(* timeout() on the object of step s.                                      *)
Timeout(n, s, t) ==
  LET w == voting[n][s]
  IN  \/ /\ IsConsistent(w)
         /\ Vote(n, s, w.carries, n, w.voted, chan, t)
         /\ UNCHANGED mode
      \/ /\ ~IsConsistent(w)
         /\ Fail(n, t)

Dequeued(n, s) == [timer EXCEPT ![n][s] = "off"]

RunTimeout(n, s) ==
  /\ Alive(n)
  /\ Earliest(n, s, "queued")
  /\ s >= current[n]
  /\ UNCHANGED <<next, started>>
  /\ Timeout(n, s, Dequeued(n, s))

(* The handler of an object that complete() has destroyed since it was     *)
(* queued reads freed memory: the remains of a completed object, or one    *)
(* of the objects allocated later.                                         *)
DanglingTimeout(n, s) ==
  /\ Alive(n)
  /\ Earliest(n, s, "queued")
  /\ s < current[n]
  /\ UNCHANGED <<next, started>>
  /\ \/ /\ timer' = Dequeued(n, s)
        /\ UNCHANGED <<mode, current, voting, chan, log>>
     \/ Fail(n, Dequeued(n, s))
     \/ /\ Reuse
        /\ \E r \in Step : /\ voting[n][r] # Fresh
                           /\ Timeout(n, r, Dequeued(n, s))

(* The clean-up coroutine runs: Phantom::cleanup() clears the table (the   *)
(* largest step id stands for numeric_limits::max()) and the connectors    *)
(* are closed.                                                             *)
CleanupRun(n) ==
  /\ mode[n] = "closing"
  /\ mode' = [mode EXCEPT ![n] = "closed"]
  /\ current' = [current EXCEPT ![n] = MaxStep]
  /\ voting' = [voting EXCEPT ![n] = [s \in Step |-> Fresh]]
  /\ timer' = [timer EXCEPT ![n] = [s \in Step |-> "off"]]
  /\ \E out \in CutStreams(n) : chan' = [chan EXCEPT ![n] = out]
  /\ UNCHANGED <<next, started, log>>

-----------------------------------------------------------------------------
Quiet ==
  \/ \E n \in Node : Apply(n) \/ Crash(n)
  \/ \E m, n \in Node : RecvStale(m, n) \/ RecvVote(m, n) \/ RecvCommit(m, n)

Late ==
  \E n \in Node :
    \/ CleanupRun(n)
    \/ \E s \in Step : Expire(n, s) \/ RunTimeout(n, s) \/ DanglingTimeout(n, s)

Next == Quiet \/ Late

SpecQuiet == Init /\ [][Quiet]_vars
Spec == Init /\ [][Next]_vars

(* The event loop runs every queued handler, a reader keeps reading its    *)
(* socket, and time passes.                                                *)
Receive(m, n) == RecvStale(m, n) \/ RecvVote(m, n) \/ RecvCommit(m, n)

Fairness ==
  /\ \A m, n \in Node : WF_vars(Receive(m, n))
  /\ \A n \in Node : WF_vars(CleanupRun(n))
  /\ \A n \in Node : \A s \in Step : WF_vars(Expire(n, s) \/ RunTimeout(n, s))

FairSpec == Spec /\ Fairness
=============================================================================
