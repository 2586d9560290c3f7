-------------------------- MODULE VotingProperties --------------------------
(***************************************************************************)
(* What Voting guarantees, and the invariant that shows it.                *)
(***************************************************************************)
EXTENDS Voting

-----------------------------------------------------------------------------
(* Every variable has its type.                                            *)
Batch == SUBSET MsgId

Object == [state : {"Initial", "Voted", "Completed"},
           nodes : SUBSET Node, voted : SUBSET Node, carries : Batch]

Message == [type : {"vote", "commit"}, step : Step,
            carries : Batch, nodes : SUBSET Node]

TypeOK ==
  /\ mode \in [Node -> {"up", "closing", "closed", "crashed"}]
  /\ next \in [Node -> 0 .. MaxStep]
  /\ current \in [Node -> 0 .. MaxStep]
  /\ voting \in [Node -> [Step -> Object]]
  /\ timer \in [Node -> [Step -> {"off", "armed", "queued"}]]
  /\ chan \in [Node -> [Node -> Seq(Message)]]
  /\ started \in [Node -> Seq(Step)]
  /\ log \in [Node -> Seq(Batch)]

Agree(m, n) ==
  \A i \in (DOMAIN log[m]) \cap (DOMAIN log[n]) : log[m][i] = log[n][i]

(* Any two processes, also one that has died since, executed the same      *)
(* batch in every step that both executed: commit() hands the same carries *)
(* to exec() everywhere, whoever decided first and whatever was in flight. *)
UniformAgreement == \A m, n \in Node : Agree(m, n)

(* The processes that are still there executed the same batches, whatever  *)
(* the timeouts made of the ballots of those that died.  (So it is with    *)
(* three processes.  Among five, one that is alive may be left out.)       *)
Agreement ==
  \A m, n \in Node : mode[m] # "crashed" /\ mode[n] # "crashed" => Agree(m, n)

(* The messages of one process are executed everywhere in the order in     *)
(* which it proposed them, with no gap: if the j-th was, the ones before   *)
(* were, in earlier steps - although every step is a ballot of its own     *)
(* and later ballots may be decided first.                                 *)
SenderOrder ==
  \A r, n \in Node : \A p \in DOMAIN log[r] : \A j \in DOMAIN started[n] :
    <<n, j>> \in log[r][p] =>
      \A i \in 1 .. j - 1 : \E q \in 1 .. p - 1 : <<n, i>> \in log[r][q]

(* Once a step was executed anywhere, no process can propose in it any     *)
(* more, so no later message can be missing from the executed batch.  (One *)
(* that has shut down may be behind: it drops what it is sent.)            *)
StepClosed ==
  \A r, n \in Node : Alive(n) => next[n] >= Len(log[r])

(* A decided step only waits for an earlier one that is not: when steps    *)
(* are decided out of order, whatever piled up behind the current one is   *)
(* executed as soon as that is.                                            *)
NothingHeldBack ==
  \A n \in Node : \A s \in Step :
    voting[n][s].state = "Completed" =>
      s > current[n]

(* A message is executed in the step it was proposed in, thus at most once *)
(* by each process.                                                        *)
Integrity ==
  \A r \in Node : \A p \in DOMAIN log[r] : log[r][p] \subseteq Proposed(p - 1)

(* The steps are in order, whoever dies and whatever is decided first:     *)
(* nobody can still propose in one that was executed, none waits when its  *)
(* turn has come, and what is executed was proposed in it.                 *)
VotingInv == TypeOK /\ StepClosed /\ NothingHeldBack /\ Integrity

(* No split brain: even if every timeout is a false one, two processes do  *)
(* not decide a step with nothing in common.  The ballots may shrink at    *)
(* different moments on each process, but only with a majority, or with    *)
(* the half that has the smallest id.                                      *)
NoSplitBrain ==
  \A m, n \in Node : \A i \in (DOMAIN log[m]) \cap (DOMAIN log[n]) :
    log[m][i] \cap log[n][i] # {}

(* A process that has lost the majority and has nothing left to read never *)
(* executes anything: it neither decides alone nor on what it had counted. *)
CutOff(n) ==
  /\ 2 * Cardinality({m \in Node : mode[m] # "crashed"}) < Cardinality(Node)
  /\ \A m \in Node : chan[m][n] = <<>>

NoMinorityDecision == [][\A n \in Node : CutOff(n) => log'[n] = log[n]]_vars

-----------------------------------------------------------------------------
Executed(x, n) == \E p \in DOMAIN log[n] : x \in log[n][p]

(* What apply() leaves behind when a proposer goes: some process waits for *)
(* a vote or a decision in a step in which one proposed that died or shut  *)
(* down, nothing that is about this step is on its way, and nobody has a   *)
(* timer for it - apply() is the only place that arms one.                 *)
Abandoned(s) ==
  /\ \E n \in Node : mode[n] # "up" /\ \E k \in DOMAIN started[n] : started[n][k] = s
  /\ \E n \in Node : mode[n] = "up" /\ current[n] <= s /\ voting[n][s].voted # {}
  /\ \A n \in Node : mode[n] = "up" =>
       /\ timer[n][s] = "off"
       /\ \A m \in Node : \A i \in DOMAIN chan[m][n] : chan[m][n][i].step # s

(* What a process proposes that stays up, every process that stays up      *)
(* executes in the end, even if others die at any point of the ballot -    *)
(* unless a step was abandoned.                                            *)
Delivery ==
  \A x \in Node \X (1 .. MaxStep) :
    x \in Submitted ~>
      \/ mode[x[1]] # "up"
      \/ \E s \in Step : Abandoned(s)
      \/ \A n \in Node : mode[n] = "up" => Executed(x, n)

-----------------------------------------------------------------------------
(* Voting implements AtomicBroadcast: the messages given to apply() are    *)
(* what was submitted, the batches that exec() ran what was executed.      *)
Abstract == INSTANCE AtomicBroadcast
              WITH Replica <- Node, submitted <- Submitted, executed <- log

Refines == Abstract!Spec

-----------------------------------------------------------------------------
(* The invariant behind these, as long as no timer expires.                *)

(* m is past step s, and what it proposed in s is in the batch.            *)
Counted(m, s, batch) ==
  /\ s < next[m]
  /\ \A k \in DOMAIN started[m] : started[m][k] = s => <<m, k>> \in batch

(* Nobody can propose in s any more, and the batch is all they did.        *)
Decided(s, batch) ==
  /\ \A m \in Node : s < next[m]
  /\ batch = Proposed(s)

StartedInOrder ==
  \A n \in Node :
    /\ \A k \in DOMAIN started[n] : started[n][k] < next[n]
    /\ \A j, k \in DOMAIN started[n] : j < k => started[n][j] < started[n][k]

OwnCarried ==
  \A n \in Node : \A k \in DOMAIN started[n] :
    started[n][k] >= current[n] => <<n, k>> \in voting[n][started[n][k]].carries

ObjectOK(n, s) ==
  LET w == voting[n][s]
  IN  /\ w.nodes \in {{}, Node}
      /\ w.carries \subseteq Proposed(s)
      /\ \A m \in w.voted : Counted(m, s, w.carries)
      /\ w.state = "Completed" => Decided(s, w.carries)

MessageOK(m, msg) ==
  IF msg.type = "commit"
    THEN Decided(msg.step, msg.carries)
    ELSE /\ msg.nodes = Node
         /\ msg.carries \subseteq Proposed(msg.step)
         /\ Counted(m, msg.step, msg.carries)

ObjectsOK == \A n \in Node : \A s \in Step : ObjectOK(n, s)

MessagesOK ==
  \A m, n \in Node : \A i \in DOMAIN chan[m][n] : MessageOK(m, chan[m][n][i])

LogOK ==
  \A n \in Node :
    /\ Len(log[n]) = current[n]
    /\ \A i \in DOMAIN log[n] : Decided(i - 1, log[n][i])

(* The ballots, the messages and the executed batches tell one story: a    *)
(* vote counts for all that its sender proposed in the step, and a step is *)
(* decided with all that anybody proposed in it.                           *)
IInv ==
  /\ TypeOK
  /\ StartedInOrder
  /\ OwnCarried
  /\ ObjectsOK
  /\ MessagesOK
  /\ LogOK

-----------------------------------------------------------------------------
(* The invariant behind VotingInv, timers included.                        *)

(* Nobody proposes in step s any more.                                     *)
Passed(s) == \A n \in Node : Alive(n) => s < next[n]

(* A ballot among fewer nodes comes from a timer that has run out.  When   *)
(* the network is Timely and the handler runs on its own object, everybody *)
(* has passed the step by then.                                            *)
Trusted == Timely /\ ~Reuse

Shrunk(nodes) == nodes \notin {{}, Node}

ObjectFits(w, s) ==
  /\ w.carries \subseteq Proposed(s)
  /\ Trusted => /\ \A m \in w.voted : s < next[m]
                /\ Shrunk(w.nodes) \/ w.state = "Completed" => Passed(s)

MessageFits(m, msg) ==
  /\ msg.carries \subseteq Proposed(msg.step)
  /\ Trusted => /\ msg.step < next[m]
                /\ Shrunk(msg.nodes) \/ msg.type = "commit" => Passed(msg.step)

ObjectsFit == \A n \in Node : \A s \in Step : ObjectFits(voting[n][s], s)

MessagesFit ==
  \A m, n \in Node : \A i \in DOMAIN chan[m][n] : MessageFits(m, chan[m][n][i])

LogsFit ==
  \A n \in Node : \A i \in DOMAIN log[n] :
    log[n][i] \subseteq Proposed(i - 1) /\ (Trusted => Passed(i - 1))

(* What is in the table lies between the current and the next step; what   *)
(* has been executed are the steps below the current one.                  *)
Within ==
  \A n \in Node :
    /\ Alive(n) => Len(log[n]) = current[n] /\ current[n] <= next[n]
    /\ mode[n] = "closed" => current[n] = MaxStep
    /\ \A s \in Step :
         voting[n][s] # Fresh => current[n] <= s /\ s < next[n]

(* The process that armed a timer has told the others of the step: who has *)
(* not passed it has not yet read that.                                    *)
Told(p, s) ==
  \A q \in Node \ {p} : Alive(q) =>
    s < next[q] \/ \E i \in DOMAIN chan[p][q] : chan[p][q][i].step = s

TimersFit ==
  \A p \in Node : \A s \in Step : Alive(p) =>
    /\ timer[p][s] # "off" => s < next[p]
    /\ Trusted /\ timer[p][s] = "armed" => Told(p, s)
    /\ Trusted /\ timer[p][s] = "queued" => Passed(s)

TimedInv ==
  /\ TypeOK
  /\ Within
  /\ NothingHeldBack
  /\ ObjectsFit
  /\ MessagesFit
  /\ LogsFit
  /\ TimersFit

-----------------------------------------------------------------------------
(* The invariant behind Agreement among three processes, timers included.  *)

(* What n has done about step s: it has decided it; it has voted in it at  *)
(* least; it is still there and has not decided.                           *)
Finished(n, s) == s < current[n] \/ voting[n][s].state = "Completed"
Acted(n, s) == Finished(n, s) \/ voting[n][s].state = "Voted"
Waiting(n, s) == Alive(n) /\ ~Finished(n, s)

(* n has counted a vote of m, or a timer or a decision has closed that     *)
(* ballot.                                                                 *)
Heard(n, m, s) ==
  \/ Finished(n, s)
  \/ Shrunk(voting[n][s].nodes)
  \/ m \in voting[n][s].voted

(* What is on its way from m to n, what n has decided, whether n knows of  *)
(* a proposal or will read of it, and whether anybody does.                *)
MailOf(c, m, n) == {c[m][n][i] : i \in DOMAIN c[m][n]}
Mail(m, n) == MailOf(chan, m, n)

Results(n) ==
  {<<i - 1, log[n][i]>> : i \in DOMAIN log[n]} \cup
  {<<s, voting[n][s].carries>> :
     s \in {r \in Step : voting[n][r].state = "Completed"}}

Knows(n, x) ==
  \/ \E d \in Results(n) : x \in d[2]
  \/ \E s \in Step : x \in voting[n][s].carries
  \/ \E m \in Node : \E msg \in Mail(m, n) : x \in msg.carries

Known(x) == \E n \in Node : mode[n] # "crashed" /\ Knows(n, x)

(* A batch without proposals that nobody can ever learn of any more.       *)
Final(s, batch) == \A x \in Proposed(s) : Known(x) => x \in batch

(* n is alone and has nothing left to read.                                *)
Hopeless(n) ==
  /\ \A m \in Node \ {n} : ~Alive(m)
  /\ \A m \in Node : Mail(m, n) = {}

OwnHeld ==
  \A n \in Node : \A k \in DOMAIN started[n] :
    Finished(n, started[n][k]) \/ <<n, k>> \in voting[n][started[n][k]].carries

BallotOK(n, s, w) ==
  /\ w.state = "Initial" => w = Fresh
  /\ w.state = "Voted" => n \in w.voted /\ w.voted # w.nodes /\ w.nodes # {}
  /\ \A m \in w.voted : Counted(m, s, w.carries)

BallotsOK ==
  \A n \in Node : \A s \in Step : Finished(n, s) \/ BallotOK(n, s, voting[n][s])

VoteOK(m, msg) ==
  msg.type = "vote" => msg.nodes # {} /\ Counted(m, msg.step, msg.carries)

VotesOK ==
  \A m, n \in Node :
    /\ \A msg \in Mail(m, n) : VoteOK(m, msg)
    /\ Mail(n, n) = {}

(* A proposal that reached a ballot in somebody else's vote was counted by *)
(* whoever passed it on.                                                   *)
Relayed(x, s) == \E m \in Node \ {x[1]} : Heard(m, x[1], s)

RelaysOK ==
  \A n \in Node :
    /\ \A s \in Step : \A x \in voting[n][s].carries :
         x[1] = n \/ Finished(n, s) \/ Relayed(x, s)
    /\ \A m \in Node : \A msg \in Mail(n, m) : \A x \in msg.carries :
         msg.type = "vote" /\ msg.nodes = Node /\ x[1] # n => Relayed(x, msg.step)

(* Nobody skips a step, nor will by what it reads.                         *)
NoneSkipped ==
  \A n \in Node : Alive(n) =>
    /\ \A r \in Step : r < next[n] => Acted(n, r)
    /\ \A m \in Node : \A i \in DOMAIN chan[m][n] : \A r \in Step :
         r < chan[m][n][i].step =>
           Acted(n, r) \/ \E j \in 1 .. i - 1 : chan[m][n][j].step = r

(* The votes and decisions of those that are still there have arrived or   *)
(* will.                                                                   *)
AllTold ==
  \A m, n \in Node : Alive(m) /\ Alive(n) /\ m # n =>
    \A s \in Step :
      /\ s < next[m] => Heard(n, m, s) \/ \E msg \in Mail(m, n) : msg.step = s
      /\ Finished(m, s) =>
           \/ Finished(n, s)
           \/ \E msg \in Mail(m, n) : msg.type = "commit" /\ msg.step = s

ResultsFinal ==
  \A n \in Node : mode[n] # "crashed" =>
    /\ \A d \in Results(n) : Final(d[1], d[2])
    /\ \A m \in Node : \A msg \in Mail(m, n) :
         msg.type = "commit" => Final(msg.step, msg.carries)

(* Who shuts down does so because another has died or shut down.           *)
OthersGone ==
  \A n \in Node : mode[n] \in {"closing", "closed"} =>
    \E m \in Node \ {n} : ~Alive(m)

(* Enough time has passed for all votes in s to be read.  Whoever has not  *)
(* decided has counted everybody who is still there, and carries all that  *)
(* anybody knows of.                                                       *)
Settled(s) ==
  /\ \E m \in Node : ~Alive(m)
  /\ Passed(s)
  /\ \A n \in Node : Waiting(n, s) =>
       /\ \A m \in Node : \A msg \in Mail(m, n) :
            msg.type = "vote" /\ msg.step = s => msg.nodes # Node
       /\ \A x \in Proposed(s) :
            Known(x) => x \in voting[n][s].carries \/ Hopeless(n)
       /\ \A m \in Node : Alive(m) =>
            \/ m = n
            \/ m \in voting[n][s].voted
            \/ Shrunk(voting[n][s].nodes) /\ m \in voting[n][s].nodes

(* So it is when a timer has run out, and wherever a ballot has shrunk.    *)
Urgent(n, s) ==
  \/ timer[n][s] = "queued"
  \/ ~Finished(n, s) /\ Shrunk(voting[n][s].nodes)
  \/ \E m \in Node : \E msg \in Mail(m, n) :
       msg.step = s /\ msg.type = "vote" /\ msg.nodes # Node

UrgentSettled ==
  \A n \in Node : \A s \in Step : Alive(n) /\ Urgent(n, s) => Settled(s)

(* A ballot shrinks to two processes: the one whose timer ran out and the  *)
(* one whose vote it had counted, which is in the same position.           *)
PairOK(n, s, w) ==
  /\ Shrunk(w.nodes) => w.voted = {n} /\ n \in w.nodes
  /\ \A m \in Node : \A msg \in Mail(m, n) :
       msg.type = "vote" /\ msg.step = s /\ msg.nodes # Node =>
         /\ msg.nodes = {m, n}
         /\ w.nodes = {m, n} \/ (w.nodes = Node /\ m \in w.voted)

PairsOK ==
  \A n \in Node : \A s \in Step : Waiting(n, s) =>
    /\ PairOK(n, s, voting[n][s])
    /\ Shrunk(voting[n][s].nodes) => timer[n][s] = "off"

(* A timer that has not run out belongs to a step that was not executed.   *)
ArmedAhead ==
  \A n \in Node : \A s \in Step :
    Alive(n) /\ timer[n][s] = "armed" => current[n] <= s

(* In a ballot every process speaks for its own proposals, those of the    *)
(* dead have been passed on by whoever counted them, and when a timer runs *)
(* out the two that may be left know the same.                             *)
ThreeInv ==
  /\ StartedInOrder
  /\ OwnHeld
  /\ BallotsOK
  /\ VotesOK
  /\ RelaysOK
  /\ NoneSkipped
  /\ AllTold
  /\ ResultsFinal
  /\ OthersGone
  /\ UrgentSettled
  /\ PairsOK
  /\ ArmedAhead
-----------------------------------------------------------------------------
(* The invariant behind NoSplitBrain between two processes, of which only  *)
(* the one with the smaller id decides when its timer runs out.            *)
TwoBallots ==
  \A n \in Node : \A s \in Step :
    \/ voting[n][s] = Fresh
    \/ voting[n][s].state = "Completed"
    \/ /\ voting[n][s].state = "Voted"
       /\ voting[n][s].nodes = Node
       /\ voting[n][s].voted = {n}
       /\ voting[n][s].carries # {}

(* A timer that is not off belongs to a ballot in which its process voted, *)
(* or to a step that was executed.                                         *)
TimersVoted ==
  \A n \in Node : \A s \in Step :
    Alive(n) /\ timer[n][s] # "off" /\ current[n] <= s => voting[n][s] # Fresh

(* What m sends in a step that it has not decided is its own vote, and     *)
(* what it decides includes that, until the other has decided.             *)
LetterOK(m, n, msg) ==
  /\ msg.carries # {}
  /\ msg.type = "vote" => msg.nodes = Node
  /\ Waiting(m, msg.step) =>
       /\ msg.type = "vote"
       /\ voting[m][msg.step].state = "Voted"
       /\ voting[m][msg.step].carries = msg.carries
  /\ \A d \in Results(m) :
       d[1] = msg.step /\ Waiting(n, d[1]) => msg.carries \subseteq d[2]

LettersOK ==
  \A m, n \in Node :
    /\ \A msg \in Mail(m, n) : LetterOK(m, n, msg)
    /\ Mail(n, n) = {}

(* The one that may decide alone will do so with what the other, if it was *)
(* first, has decided on.                                                  *)
FirstFollows ==
  \A m, n \in Node : n = Least(Node) /\ m # n =>
    \A s \in Step : \A d \in Results(m) : d[1] = s /\ Waiting(n, s) =>
      voting[n][s].state = "Voted" /\ voting[n][s].carries \subseteq d[2]

ResultsMeet ==
  \A m, n \in Node : \A d \in Results(m) : \A e \in Results(n) :
    d[1] = e[1] => d[2] \cap e[2] # {}

(* Two processes never decide independently of each other.                 *)
TwoInv ==
  /\ TwoBallots
  /\ TimersVoted
  /\ LettersOK
  /\ FirstFollows
  /\ ResultsMeet
=============================================================================
