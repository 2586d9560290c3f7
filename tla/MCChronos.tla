------------------------------ MODULE MCChronos ------------------------------
(* For TLC: prompt nodes, one of which may stop; and others that execute     *)
(* late, where either calls time out or a node is suspected although it      *)
(* lives.                                                                    *)
EXTENDS ChronosProperties

CONSTANT Alone   \* the events that are added when a node is suspected

MCInit ==
  \/ Init /\ prompt
  \/ /\ New(MaxTime - 1, Events,
             [NoFaults EXCEPT !.removed = MaxRemovals, !.stopped = MaxCrashes])
     /\ ~prompt
  \/ /\ New(MaxTime - 1, Alone,
             [NoFaults EXCEPT !.late = MaxLate, !.stopped = MaxCrashes])
     /\ ~prompt

MCSpec == MCInit /\ [][Next]_vars /\ Fairness
=============================================================================
