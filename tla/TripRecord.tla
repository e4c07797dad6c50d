----------------------------- MODULE TripRecord -----------------------------
(***************************************************************************)
(* What the record of a trip promises, however many requests work on it:   *)
(* the trail of its events only grows, a phase is shown only when the      *)
(* events it stands on are in the trail and the destination it needs is    *)
(* set, and neither a destination nor a completion is ever taken back.     *)
(***************************************************************************)
CONSTANTS
  Trips, Phases, Events,
  Before,     \* the events each phase stands on
  Bound,      \* the phases of a trip that must have a destination
  Start, End  \* the phases of a new and of a completed trip

VARIABLES
  phase,      \* the phase each open trip shows
  trail,      \* the events recorded for each trip
  heading,    \* the trips that have a destination
  completed   \* the trips that were completed

record == <<phase, trail, heading, completed>>

Init ==
  /\ phase = [t \in {} |-> Start]
  /\ trail = [t \in Trips |-> {}]
  /\ heading = {}
  /\ completed = {}

Earned(t, p) ==
  /\ Before[p] \subseteq trail[t]
  /\ p \in Bound => t \in heading

Open(t) ==
  /\ t \notin DOMAIN phase
  /\ phase' = [u \in DOMAIN phase \cup {t} |->
                 IF u = t THEN Start ELSE phase[u]]
  /\ heading' \in {heading, heading \cup {t}}
  /\ UNCHANGED <<trail, completed>>

Note(t, e) ==
  /\ t \in DOMAIN phase
  /\ trail' = [trail EXCEPT ![t] = @ \cup {e}]
  /\ UNCHANGED <<phase, heading, completed>>

Head(t) ==
  /\ t \in DOMAIN phase
  /\ heading' = heading \cup {t}
  /\ UNCHANGED <<phase, trail, completed>>

Show(t, p) ==
  /\ t \in DOMAIN phase
  /\ Earned(t, p)
  /\ phase' = [phase EXCEPT ![t] = p]
  /\ UNCHANGED <<trail, heading, completed>>

Complete(t) ==
  /\ t \in DOMAIN phase
  /\ Earned(t, End)
  /\ phase' = [phase EXCEPT ![t] = End]
  /\ completed' = completed \cup {t}
  /\ UNCHANGED <<trail, heading>>

Next ==
  \E t \in Trips :
    \/ Open(t) \/ Head(t) \/ Complete(t)
    \/ \E e \in Events : Note(t, e)
    \/ \E p \in Phases : Show(t, p)

Spec == Init /\ [][Next]_record
=============================================================================
