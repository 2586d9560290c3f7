------------------------------ MODULE FairLock ------------------------------
(***************************************************************************)
(* What a mutex promises to those who use it: it is given in the order in  *)
(* which it was asked for, to one after the other.                         *)
(***************************************************************************)
EXTENDS Naturals, Sequences

CONSTANT Clients

VARIABLE queue   \* the owner, and behind it those that wait, in order

Init == queue = <<>>

Request(c) ==
  /\ \A i \in DOMAIN queue : queue[i] # c
  /\ queue' = Append(queue, c)

Release ==
  /\ queue # <<>>
  /\ queue' = Tail(queue)

Next == Release \/ \E c \in Clients : Request(c)

Spec == Init /\ [][Next]_queue
=============================================================================
