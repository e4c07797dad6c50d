----------------------------- MODULE MCListing -----------------------------
(* Listing, with all it builds on, for TLC.                                *)
EXTENDS Listing

Interchangeable ==
  UNION {Permutations(S) : S \in {Vehicles, Centers, Agents, Requests}}
=============================================================================
