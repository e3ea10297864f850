------------------------------ MODULE PeopleMC ------------------------------
(***************************************************************************)
(* The people of a session and of the workspace, in one run: the two       *)
(* rosters (Rosters), and accounts, roles and owners (WorkspaceAccounts).  *)
(* They share no state: a behaviour is of the one `which` names, and the   *)
(* other is parked.                                                        *)
(***************************************************************************)
EXTENDS Rosters

CONSTANTS Users, SuperAdmins, Bootstrap, Sessions, u1, u2     \* WorkspaceAccounts

VARIABLES which, account, created, owners, ask      \* WorkspaceAccounts

accountVars == <<account, created, owners, ask>>

Alike == Permutations(Names) \cup Permutations(Accounts) \cup Permutations(Requests)

\* The bound that keeps the run small: of the requests waiting at once, one
\* is an upload.
OneUpload == Cardinality({q \in Requests : request[q] # None
                            /\ request[q].op \in {"replace", "append", "merge"}}) <= 1

(* WorkspaceAccounts: two accounts, of which the env vars make one an      *)
(* admin; the other has the roles it is given.                             *)
AdminA == [u \in {u1, u2} |-> IF u = u1 THEN {"operator", "admin"} ELSE {}]
Workspace == INSTANCE WorkspaceAccounts WITH
    NoOne <- None, request <- ask

ASSUME WorkspaceAssumption == Workspace!AccountsAssumption

-----------------------------------------------------------------------------
RostersParked ==
    /\ roster = [k \in Kinds |-> << >>] /\ mirrors = << >> /\ symmetric = FALSE
    /\ request = [q \in Requests |-> None] /\ answered = << >>
    /\ shared = {} /\ split = {} /\ stale = {} /\ unmirrored = FALSE /\ writes = 0
AccountsParked == account = << >> /\ created = {} /\ owners = {} /\ ask = << >>

InitPeople ==
    \/ which = "rosters" /\ Init /\ AccountsParked
    \/ which = "accounts" /\ RostersParked /\ Workspace!Init

InRosters(A) == which = "rosters" /\ A /\ UNCHANGED <<which, accountVars>>
InAccounts(A) == which = "accounts" /\ A /\ UNCHANGED <<which, vars>>

NextRosters ==
    \/ InRosters(\E ad \in Addresses, n \in Names, o \in Outcome : CreateReviewer(ad, n, o))
    \/ InRosters(\E ad \in Addresses, n \in Names, o \in Outcome : CreateReviewee(ad, n, o))
    \/ InRosters(\E k \in Kinds, ids \in SUBSET Ids : BulkDelete(k, ids))
    \/ InRosters(DeleteAllReviewers)
    \/ \E q \in Requests :
         \/ InRosters(DropRequest(q))
         \/ InRosters(BeginDeleteAllReviewees(q)) \/ InRosters(DeleteAllReviewees(q))
         \/ \E k \in Kinds :
              \/ InRosters(\E i \in Ids : BeginEdit(q, k, i))
              \/ InRosters(\E ad \in Addresses, n \in Names, o \in Outcome : SaveEdit(q, k, ad, n, o))
              \/ InRosters(SaveReplace(q, k)) \/ InRosters(SaveAppend(q, k))
              \/ InRosters(SaveMerge(q, k)) \/ InRosters(Recheck(q, k))
              \/ InRosters(\E mode \in {"replace", "append", "merge"}, file \in Files :
                             \E answers \in Lookups(DOMAIN file) :
                                BeginUpload(q, k, mode, file, answers))
              \/ InRosters(\E as \in SUBSET Addresses \ {{}} :
                             \E answers \in Lookups(as) : BeginRecheck(q, k, answers))
    \/ InRosters(TurnSymmetricOn) \/ InRosters(TurnSymmetricOff)

NextAccounts ==
    \/ \E u \in Users : InAccounts(Workspace!SignIn(u))
    \/ InAccounts(\E actor, u \in Users, asAdmin \in BOOLEAN : Workspace!Invite(actor, u, asAdmin))
    \/ \E r \in Requests :
         \/ InAccounts(\E does \in Workspace!AccountActions, actor \in Workspace!Present,
                          targets \in SUBSET Workspace!Present \ {{}} :
                          Workspace!BeginBatch(r, does, actor, targets))
         \/ InAccounts(\E does \in Workspace!OwnerActions, actor, u \in Workspace!Present, s \in Sessions :
                          Workspace!BeginOwners(r, does, actor, u, s))
         \/ InAccounts(Workspace!AccountsSettled(r)) \/ InAccounts(Workspace!SingleRow(r))
         \/ InAccounts(Workspace!OwnersManaged(r)) \/ InAccounts(Workspace!Folds(r))
         \/ InAccounts(Workspace!RequestEnds(r))

allVars == <<which, vars, accountVars>>
SpecPeople == InitPeople /\ [][NextRosters \/ NextAccounts]_allVars

-----------------------------------------------------------------------------
(* The properties of WorkspaceAccounts, on its own behaviours: what judges *)
(* under its locks takes neither a session's last owner nor the            *)
(* workspace's last admin, through any number of requests at once, and an  *)
(* owner who is neither an operator nor an admin comes only from a         *)
(* sign-in's fold.                                                         *)
LockedActionsLeaveSomeone ==
    [][which = "accounts" => /\ Workspace!LockedActionsLeaveAnOwner
                             /\ Workspace!LockedActionsLeaveAnAdmin
                             /\ Workspace!OwnersStayOperators]_allVars
=============================================================================
