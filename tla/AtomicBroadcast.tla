--------------------------- MODULE AtomicBroadcast ---------------------------
(***************************************************************************)
(* What replobApply() promises its callers: the processes execute batches  *)
(* of submitted messages in one common order, no message twice.  Nothing   *)
(* is said of steps, ballots or channels.                                  *)
(***************************************************************************)
EXTENDS Integers, Sequences

CONSTANT Replica

VARIABLES
  submitted,  \* the messages handed to replobApply() so far
  executed    \* executed[r]: the sequence of batches that r executed

abVars == <<submitted, executed>>

-----------------------------------------------------------------------------
Init ==
  /\ submitted = {}
  /\ executed = [r \in Replica |-> <<>>]

Submit == \E x \in submitted' : /\ x \notin submitted
                                /\ submitted' = submitted \cup {x}

(* r executes some more batches.  Each holds only submitted messages that  *)
(* r has not executed before, and where another replica has been already,  *)
(* it is the batch that that one executed.                                 *)
Execute(r) ==
  LET old == Len(executed[r])
      seq == executed'[r]
  IN  /\ \A q \in Replica \ {r} : executed'[q] = executed[q]
      /\ Len(seq) > old
      /\ SubSeq(seq, 1, old) = executed[r]
      /\ \A i \in old + 1 .. Len(seq) :
           /\ seq[i] \subseteq submitted'
           /\ \A j \in 1 .. i - 1 : seq[i] \cap seq[j] = {}
           /\ \A q \in Replica : i <= Len(executed[q]) => seq[i] = executed[q][i]

(* A process without peers executes a message in the call that submits it. *)
Next ==
  /\ Submit \/ UNCHANGED submitted
  /\ UNCHANGED executed \/ \E r \in Replica : Execute(r)

Spec == Init /\ [][Next]_abVars
=============================================================================
