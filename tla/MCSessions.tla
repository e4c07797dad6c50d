---------------------------- MODULE MCSessions ----------------------------
(* Sessions for TLC: request slots and users are interchangeable.  Tokens  *)
(* are not, since StoreToken picks among them.                             *)
EXTENDS Sessions, TLC

Interchangeable == Permutations(Requests) \cup Permutations(Users)
=============================================================================
