------------------------------- MODULE MCMutex -------------------------------
(* For TLC: the journeys of a run with events, and all of them without.      *)
EXTENDS MutexProperties

CONSTANTS
  Disturbed,   \* the journeys in a run with events
  Watched      \* the journeys followed for ever, some of the disturbed ones

MCInit == Free /\ (Started(Disturbed, 0) \/ Started(Journeys, MaxEvents + 1))

MCSpec == MCInit /\ [][Next]_vars /\ Fairness

(* Nobody sleeps through an event, and without events everybody gets the     *)
(* mutex: Wakes, see there.  The specification tells no disturbed journey    *)
(* from another one, so what is shown of one of them holds of each.          *)
Woken == \A j \in Watched : Wakes(j)
=============================================================================
