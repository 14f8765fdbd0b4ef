---------------------------- MODULE MCSchedules ----------------------------
(* Small instances of Schedules for TLC: the requests are interchangeable. *)
EXTENDS Schedules, TLC

Symmetry == Permutations(Reqs)
=============================================================================
