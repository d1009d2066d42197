---------------------------- MODULE MCClientPool ----------------------------
(* Small instances of ClientPool for TLC. *)
EXTENDS ClientPool, TLC

\* Nothing tells the clients, or the requests, from one another.
Symmetry == Permutations(Clients) \cup Permutations(Requests)
=============================================================================
