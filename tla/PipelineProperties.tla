------------------------- MODULE PipelineProperties -------------------------
(***************************************************************************)
(* What those rely on who build a pipeline.                                *)
(***************************************************************************)
EXTENDS Pipeline

Last == Len(shape)
In(k) == {chan[k][i] : i \in DOMAIN chan[k]}
Single == \A k \in Stages : shape[k] = 1

Waited == feeder \in {"closeAndWait", "waiting", "returned"}

(* The types, and that a worker has a value only while it deals with it.   *)
TypeOK ==
  /\ closed \subseteq 0 .. Last
  /\ fed \in 0 .. MaxValues
  /\ \A w \in Workers :
       /\ worker[w].at \in {"new", "get", "wait", "given", "work", "put", "left"}
       /\ worker[w].value # 0 <=> worker[w].at \in {"given", "work", "put"}
       /\ worker[w].left > 0 <=> worker[w].at = "put"
  /\ pending \subseteq {w \in Workers : worker[w].at # "left"}

(* A value is lost on its way only to an event, or because a worker of the *)
(* same stage has come to the end and closed the channel it is put into;   *)
(* that does not happen behind closeAndWait() if nobody is cancelled.      *)
LostToSiblings ==
  \A l \in lost :
    \/ l.why = "event" /\ cancels > 0
    \/ l.why = "closed" /\ shape[l.stage] > 1 /\ (Waited => cancels > 0)

(* With one worker in each stage the values come out in their order.       *)
InOrder ==
  Single => \A i, j \in DOMAIN chan[Last] : i < j => chan[Last][i] <= chan[Last][j]

(* Whoever sees the end of a channel has seen all: nobody is at work any   *)
(* more in the stages before, with one worker in each or closeAndWait().   *)
EndIsLast ==
  (Single \/ Waited) /\ cancels = 0 =>
    \A k \in closed \ {0} :
      /\ k - 1 \in closed /\ chan[k - 1] = <<>>
      /\ \A w \in Workers : w[1] = k => worker[w].value = 0

(* closeAndWait() returns when every worker has ended, also one that was   *)
(* cancelled.                                                              *)
ReturnMeansDone ==
  feeder = "returned" => \A w \in Workers : worker[w].at = "left"

(* The end of the first channel reaches every worker, whoever is cancelled *)
(* and whatever a handler throws.                                          *)
AllLeave == <>(\A w \in Workers : worker[w].at = "left")

(* Every value comes out, or some handler made nothing of it, or it was    *)
(* lost as above, or is left in front of a worker that was cancelled.      *)
Arrives ==
  \A v \in 1 .. MaxValues :
    <>(v \in In(Last) \cup skipped \/ cancels > 0 \/ \E l \in lost : l.value = v)

-----------------------------------------------------------------------------
(* What comes out of a pipeline, in which order, what is lost on the way,  *)
(* and what its end means.                                                 *)
PipelineInv == TypeOK /\ LostToSiblings /\ InOrder /\ EndIsLast /\ ReturnMeansDone

(* Everybody leaves, and nothing stays behind.                             *)
Progress == AllLeave /\ Arrives
=============================================================================
