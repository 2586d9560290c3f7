------------------------------ MODULE MCChannel ------------------------------
(* For TLC: an event meets values or a close with all who get, and both with *)
(* one of them; without events two closes meet one of them, one close meets  *)
(* all.                                                                      *)
EXTENDS ChannelProperties

CONSTANT Alone   \* who gets when values meet an event and a close or two closes

MCInit ==
  \/ Started(Journeys, 0) /\ (New(0, MaxCloses) \/ New(MaxPuts, MaxCloses - 1))
  \/ Started(Alone, 0) /\ New(0, MaxCloses - 1)
  \/ Started(Journeys, MaxEvents + 1) /\ New(0, MaxCloses - 1)
  \/ Started(Alone, MaxEvents + 1) /\ New(0, 0)

MCSpec == MCInit /\ [][Next]_vars /\ Fairness
=============================================================================
