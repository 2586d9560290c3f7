-------------------------- MODULE Replob1Properties --------------------------
(***************************************************************************)
(* What the first version of the protocol guarantees.                      *)
(***************************************************************************)
EXTENDS Replob1

MsgId == Node \X (1 .. MaxMsg)
Batch == SUBSET MsgId

StepData == [state : {"Initial", "Voted", "Completed"},
             votes : SUBSET (MsgId \X Node), msgs : Batch]

Message == [type : {"vote", "commit"}, step : Step, msgs : Batch]
             \cup [type : {"leave"}, nodes : SUBSET Node]

(* Every variable has its type.                                            *)
TypeOK ==
  /\ mode \in [Node -> {"up", "stopped"}]
  /\ config \in [Node -> SUBSET Node]
  /\ next \in [Node -> 0 .. MaxStep]
  /\ commiting \in [Node -> 0 .. MaxStep]
  /\ steps \in [Node -> [Step -> StepData]]
  /\ timer \in [Node -> [Step -> BOOLEAN]]
  /\ chan \in [Node -> [Node -> Seq(Message)]]
  /\ started \in [Node -> Seq(Step)]
  /\ log \in [Node -> Seq(Batch)]

(* Steps are decided in order: tryProcess() meets the future step of its   *)
(* comment only behind a step that waits for a process that was taken out  *)
(* of NodesConfig.  Whoever proposes the next step has voted in this one   *)
(* before, and the streams keep that order.                                *)
DecidedInOrder ==
  (\E n \in Node : \E s \in Step : steps[n][s].state = "Completed") =>
    \E m \in Node : config[m] # Node

(* A process has one vote in a step, and it is for the same message in     *)
(* whatever process's votedNodes it is found: the count in mayCommit() is  *)
(* a count of processes.                                                   *)
OneVote ==
  \A m, n \in Node : \A s \in Step :
    \A v \in steps[m][s].votes : \A w \in steps[n][s].votes :
      v[2] = w[2] => v[1] = w[1]

(* The messages of one process are executed everywhere in the order in     *)
(* which it proposed them and without a gap.                               *)
SenderOrder ==
  \A r, n \in Node : \A p \in DOMAIN log[r] : \A j \in DOMAIN started[n] :
    <<n, j>> \in log[r][p] =>
      \A i \in 1 .. j - 1 : \E q \in 1 .. p - 1 : <<n, i>> \in log[r][q]

(* Nobody can still propose in a step that was executed.                   *)
StepClosed ==
  \A r, n \in Node : mode[n] = "up" => next[n] >= Len(log[r])

(* The processes execute the same batches, each message once, although a   *)
(* step is decided by whoever counts its votes first, although one of them *)
(* may die with the decision on its way, and although the number that the  *)
(* votes are compared with shrinks at different moments.                   *)
Abstract == INSTANCE AtomicBroadcast
              WITH Replica <- Node, submitted <- Submitted, executed <- log

Refines == Abstract!Spec

(* Everything proposed is executed everywhere, unless a process stopped:   *)
(* then the step that waits for its vote stays undecided for ever, for     *)
(* disconnectNodes() does not evaluate mayCommit() again.                  *)
Executed(x, n) == \E p \in DOMAIN log[n] : x \in log[n][p]

Delivery ==
  []<>(\/ \E n \in Node : mode[n] # "up"
       \/ \A x \in Submitted : \A n \in Node : Executed(x, n))

-----------------------------------------------------------------------------
(* Why that is so.  A process that is up has voted in all steps below the  *)
(* next one, and the executed ones are those below commiting.              *)
Up(n) == mode[n] = "up"

Voters(n, s) == VotedNodesSet(steps[n][s])

Within ==
  \A n \in Node : Up(n) =>
    /\ Len(log[n]) = commiting[n] /\ commiting[n] <= next[n]
    /\ \A s \in Step :
         /\ s < commiting[n] => steps[n][s] = Fresh
         /\ s < next[n] <=> s < commiting[n] \/ steps[n][s].state # "Initial"
         /\ steps[n][s].state = "Initial" => steps[n][s] = Fresh
         /\ steps[n][s].state = "Voted" <=> n \in Voters(n, s)
         /\ steps[n][s].state = "Voted" => steps[n][s].msgs = {}
         /\ steps[n][s].state = "Completed" => steps[n][s].votes = {}
         /\ timer[n][s] => steps[n][s].state = "Voted"

(* One that stopped has nothing and is sent nothing.  Nobody sends to      *)
(* itself.                                                                 *)
Stopped ==
  /\ \A n \in Node : ~Up(n) => steps[n] = [s \in Step |-> Fresh]
  /\ \A m, n \in Node : ~Up(n) \/ m = n => chan[m][n] = <<>>

(* Of the messages of some kinds in a stream: which steps they are about,  *)
(* and that none is ahead of one for an earlier step, but those known.     *)
About(msg, kinds, s) == msg.type \in kinds /\ msg.step = s

Sent(q, kinds, s) == \E i \in DOMAIN q : About(q[i], kinds, s)

InSequence(q, kinds, known) ==
  \A i \in DOMAIN q : \A s, t \in Step :
    About(q[i], kinds, s) /\ t < s =>
      t \in known \/ \E j \in 1 .. i - 1 : About(q[j], kinds, t)

Ballots == {"vote", "commit"}

(* n has counted the vote of m in step t, or needs it no more.             *)
Heard(n, m, t) ==
  \/ t < commiting[n]
  \/ steps[n][t].state = "Completed"
  \/ m \in Voters(n, t)

(* Who has voted in a step has told the others, in the order of the steps. *)
Told ==
  \A m, n \in Node : Up(n) /\ m # n =>
    /\ Up(m) => \A t \in Step : t < next[m] =>
         Heard(n, m, t) \/ Sent(chan[m][n], Ballots, t)
    /\ InSequence(chan[m][n], Ballots, {t \in Step : Heard(n, m, t)})

InTurn ==
  \A m, n \in Node : \A s, t \in Step : m \in Voters(n, s) /\ t < s => Heard(n, m, t)

-----------------------------------------------------------------------------
(* A vote of n for message x in step s is counted or on its way somewhere. *)
HasVote(n, s, x) ==
  \/ \E m \in Node : <<x, n>> \in steps[m][s].votes
  \/ \E m \in Node : \E i \in DOMAIN chan[n][m] :
       /\ About(chan[n][m][i], {"vote"}, s)
       /\ x \in chan[n][m][i].msgs

ProposedIn(x, s) == x[2] \in DOMAIN started[x[1]] /\ started[x[1]][x[2]] = s

(* There is one, it is for a message of this step, and for one's own if    *)
(* there is one.                                                           *)
CastOnce ==
  \A n \in Node : \A s \in Step : \A x \in MsgId : HasVote(n, s, x) =>
    /\ \A y \in MsgId : HasVote(n, s, y) => x = y
    /\ s < next[n]
    /\ ProposedIn(x, s)
    /\ \A k \in DOMAIN started[n] : started[n][k] = s => x = <<n, k>>

InSteps ==
  \A n \in Node :
    /\ \A k \in DOMAIN started[n] : started[n][k] < next[n]
    /\ \A i, k \in DOMAIN started[n] : i < k => started[n][i] < started[n][k]

(* Somebody alive can still come to know the message, or has executed it.  *)
Known(x) ==
  \/ \E n \in Node : \E s \in Step :
       x \in steps[n][s].msgs \/ \E m \in Node : <<x, m>> \in steps[n][s].votes
  \/ \E m, n \in Node : \E i \in DOMAIN chan[m][n] :
       chan[m][n][i].type # "leave" /\ x \in chan[m][n][i].msgs
  \/ \E n \in Node : \E i \in DOMAIN log[n] : x \in log[n][i]

(* A batch with all that was proposed in the step, but for messages of     *)
(* processes that stopped before anybody heard of them; everybody has      *)
(* passed the step.                                                        *)
Decided(s, batch) ==
  /\ \A x \in batch : ProposedIn(x, s)
  /\ \A n \in Node : Up(n) => s < next[n]
  /\ \A n \in Node : \A k \in DOMAIN started[n] :
       started[n][k] = s /\ <<n, k>> \notin batch =>
         ~Up(n) /\ \A j \in DOMAIN started[n] : k <= j => ~Known(<<n, j>>)

AllDecided ==
  /\ \A n \in Node : \A s \in Step :
       steps[n][s].state = "Completed" => Decided(s, steps[n][s].msgs)
  /\ \A m, n \in Node : \A i \in DOMAIN chan[m][n] :
       chan[m][n][i].type = "commit" => Decided(chan[m][n][i].step, chan[m][n][i].msgs)
  /\ \A n \in Node : \A i \in DOMAIN log[n] : i - 1 \in Step /\ Decided(i - 1, log[n][i])

-----------------------------------------------------------------------------
(* Those that are out of some NodesConfig.  They have stopped, and where   *)
(* they took part nothing happens any more: when the network is timely,    *)
(* the handler of a timer finds that all is read.                          *)
Removed == UNION {Node \ config[n] : n \in Node}

Frozen(s) ==
  \A n \in Node : Up(n) =>
    /\ s < next[n]
    /\ \A m \in Node : \A i \in DOMAIN chan[m][n] :
         chan[m][n][i].type # "leave" => s < chan[m][n][i].step

TookPart(n, s) ==
  \/ \E x \in MsgId : HasVote(n, s, x)
  \/ \E k \in DOMAIN started[n] : started[n][k] = s /\ Known(<<n, k>>)

LeftBehind ==
  /\ \A n \in Removed : ~Up(n) /\ \A s \in Step : TookPart(n, s) => Frozen(s)
  /\ \A m, n \in Node : \A i \in DOMAIN chan[m][n] :
       chan[m][n][i].type = "leave" => chan[m][n][i].nodes \subseteq Removed

(* As long as nobody is, every decision comes in its turn.                 *)
CommitsInOrder ==
  Removed = {} =>
    \A n \in Node : Up(n) =>
      /\ \A s \in Step : steps[n][s].state # "Completed" /\ Voters(n, s) # Node
      /\ \A m \in Node \ {n} :
           /\ Up(m) => \A t \in Step : t < commiting[m] =>
                t < commiting[n] \/ Sent(chan[m][n], {"commit"}, t)
           /\ InSequence(chan[m][n], {"commit"}, {t \in Step : t < commiting[n]})

(* All this is inductive when the network is timely.                       *)
Core ==
  /\ TypeOK /\ Within /\ Stopped /\ Told /\ InTurn
  /\ CastOnce /\ InSteps /\ AllDecided
  /\ LeftBehind /\ CommitsInOrder

(* Every process has one vote in a step, the steps are decided in their    *)
(* order and closed when they are executed, and no message of a process    *)
(* overtakes another one, for the reasons above.                           *)
Replob1Inv == Core /\ OneVote /\ DecidedInOrder /\ StepClosed /\ SenderOrder
=============================================================================
