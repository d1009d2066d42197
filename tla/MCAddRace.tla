------------------------------ MODULE MCAddRace ------------------------------
(* A small instance of AddRace for TLC. *)
EXTENDS AddRace
=============================================================================
