--------------------------- MODULE MCOnboarding ---------------------------
(* Onboarding for TLC: two accounts, each with a user, and the two users   *)
(* have the same subid.  Of the centers of Malambi, two share their site,  *)
(* the third has no geozone.  Account 1 has two default centers and may be *)
(* seeded twice at a time; the second account is there for its user and    *)
(* its center, and has no default centers.                                 *)
EXTENDS Onboarding

MCUsers == {[account |-> 1, subid |-> 7], [account |-> 2, subid |-> 7]}

MCDefaults ==
  [a \in {1, 2} |->
     IF a = 1 THEN <<[id |-> 11, third |-> 11, site |-> 21],
                     [id |-> 12, third |-> 12, site |-> 22]>>
     ELSE <<>>]

MCRuns == {[account |-> 1, n |-> 1], [account |-> 1, n |-> 2],
           [account |-> 2, n |-> 1]}

MCApi ==
  [a \in {1, 2} |->
     IF a = 1 THEN {[id |-> 31, third |-> 41, site |-> 51],
                    [id |-> 0,  third |-> 43, site |-> 52]}
     ELSE {[id |-> 32, third |-> 42, site |-> 51]}]
=============================================================================
