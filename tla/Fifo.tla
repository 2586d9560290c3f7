-------------------------------- MODULE Fifo --------------------------------
(***************************************************************************)
(* What a channel promises to those who use it: every value goes to one of *)
(* those that get, in the order in which the values were put.              *)
(***************************************************************************)
EXTENDS Naturals, Sequences

CONSTANTS Getters, MaxPuts

VARIABLES
  items,   \* the values put and not given to anybody yet
  given,   \* given[g]: those given to g
  made     \* how many values were put

vars == <<items, given, made>>

Init == items = <<>> /\ given = [g \in Getters |-> <<>>] /\ made = 0

Put ==
  /\ made < MaxPuts
  /\ made' = made + 1
  /\ items' = Append(items, made')
  /\ UNCHANGED given

Give(g) ==
  /\ items # <<>>
  /\ given' = [given EXCEPT ![g] = Append(@, Head(items))]
  /\ items' = Tail(items)
  /\ UNCHANGED made

(* One that waits is given the next value at once.                         *)
Pass(g) ==
  /\ items = <<>>
  /\ made < MaxPuts
  /\ made' = made + 1
  /\ given' = [given EXCEPT ![g] = Append(@, made')]
  /\ UNCHANGED items

Next == Put \/ \E g \in Getters : Give(g) \/ Pass(g)

Spec == Init /\ [][Next]_vars
=============================================================================
