------------------------- MODULE SessionObserversMC -------------------------
(* Small instances of SessionObservers for TLC. *)
EXTENDS SessionObservers, TLC

Alike == Permutations(Instruments)
=============================================================================
