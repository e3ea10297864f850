----------------------------- MODULE RostersMC -----------------------------
(* Two people at two addresses with two accounts, rosters of two rows.     *)
EXTENDS Rosters

Alike == Permutations(Names) \cup Permutations(Accounts) \cup Permutations(Requests)

\* The bound that keeps the run small: of the requests waiting at once, one
\* is an upload.
OneUpload == Cardinality({q \in Requests : request[q] # None
                            /\ request[q].op \in {"replace", "append", "merge"}}) <= 1
=============================================================================
