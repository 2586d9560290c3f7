-------------------------- MODULE JourneyProperties --------------------------
(***************************************************************************)
(* What is true of journeys, whatever program they run.                    *)
(***************************************************************************)
EXTENDS Journey

(* The variables of Journey and the doers have their types.                *)
DoerType == [who : Journeys, counter : Nat, enabled : BOOLEAN]

JourneyTypeOK ==
  /\ flags \in [Journeys -> Flags]
  /\ phase \in [Journeys -> Phase]
  /\ seen \in [Journeys -> Flags]
  /\ ready \in [Journeys -> Nat]
  /\ kept \in [Journeys -> {"nothing", "enabled", "disabled"}]
  /\ events \in Nat

(* A coroutine is resumed once for each suspension: proceed0() is          *)
(* scheduled exactly for those that are suspended and Entered, once; so a  *)
(* coroutine never runs on two threads, nor after its journey was deleted, *)
(* and the VERIFYs in Coro::resume() and Coro::yield() hold.               *)
ResumedOnce ==
  \A j \in Journeys :
    /\ ready[j] = IF phase[j] = "suspended" /\ flags[j].entered THEN 1 ELSE 0
    /\ phase[j] # "suspended" => flags[j].entered
=============================================================================
