------------------------ MODULE WorkspaceAccountsMC -------------------------
(* A small instance of WorkspaceAccounts: the env vars make one account an  *)
(* admin, and the other has the roles it is given.                          *)
EXTENDS WorkspaceAccounts, TLC

CONSTANTS a, b

AdminA == [u \in Users |-> IF u = a THEN Roles ELSE {}]

Interchangeable == Permutations(Requests) \cup Permutations(Sessions)
=============================================================================
