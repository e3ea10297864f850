-------------------------- MODULE ReconcileCacheMC --------------------------
(* Three people, of whom either pinned rule keeps two. *)
EXTENDS ReconcileCache

CONSTANTS a, b, c, p1

PinnedRules == {[name |-> "pair", keeps |-> {a, b}], [name |-> "other", keeps |-> {b, c}]}
=============================================================================
