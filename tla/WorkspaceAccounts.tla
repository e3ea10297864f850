------------------------- MODULE WorkspaceAccounts --------------------------
(***************************************************************************)
(* The workspace's accounts and the owners of its sessions: admins who     *)
(* admit, revoke, promote, demote, detach and delete accounts (one row at a*)
(* time or a batch), owners who add and remove owners, and sign-ins that   *)
(* create, claim and fold accounts together.                               *)
(*                                                                         *)
(* A transaction that locks what it reads (FOR SHARE, FOR NO KEY UPDATE or *)
(* FOR UPDATE) is one action.  One that reads without a lock reads in one  *)
(* action and writes in a later one, with anything in between.             *)
(***************************************************************************)
EXTENDS FiniteSets

CONSTANTS Users,        \* accounts, present or not
          SuperAdmins,  \* SUPER_ADMIN_EMAILS
          Sessions,
          Requests,     \* requests under way at the same time
          Bootstrap,    \* [Users -> SUBSET Roles]: the roles the env vars seed
          NoOne

Roles == {"operator", "admin"}

AccountsAssumption ==
  /\ SuperAdmins \subseteq Users
  /\ Bootstrap \in [Users -> SUBSET Roles]
  /\ NoOne \notin Users \cup Sessions

VARIABLES account,   \* the users table, present or not
          created,   \* the sessions that exist
          owners,    \* the session_operators rows, <<session, user>>
          request    \* each request under way, and what it has read

vars == <<account, created, owners, request>>

-----------------------------------------------------------------------------
(* roles: is_operator, is_sys_admin; claimed: a principal id is recorded;  *)
(* acted: named by an audit row or as a session's creator (_has_history).  *)
AccountRows == [present: BOOLEAN, roles: SUBSET Roles, claimed: BOOLEAN, acted: BOOLEAN]

Absent == [present |-> FALSE, roles |-> {}, claimed |-> FALSE, acted |-> FALSE]

Grants == {"admit", "promote"}
AccountActions == Grants \cup {"revoke", "demote", "detach", "delete"}
OwnerActions == {"create", "add", "remove"}

Asks == [does: AccountActions \cup OwnerActions \cup {"absorb", "idle"},
         batch: BOOLEAN, step: {"begun", "checked"},
         actor: Users \cup {NoOne}, targets: SUBSET Users,
         session: Sessions \cup {NoOne},
         gain: SUBSET Roles, rows: SUBSET (Sessions \X Users)]

Idle == [does |-> "idle", batch |-> FALSE, step |-> "begun", actor |-> NoOne,
         targets |-> {}, session |-> NoOne, gain |-> {}, rows |-> {}]

Present == {u \in Users : account[u].present}
HasRole(role) == {u \in Users : role \in account[u].roles}
Eligible == {u \in Present : account[u].roles # {}}
OwnersOf(s) == {u \in Users : <<s, u>> \in owners}
RowsOf(us) == {row \in owners : row[2] \in us}

Init ==
  /\ account \in [Users -> {Absent} \cup [present: {TRUE}, roles: SUBSET Roles,
                                          claimed: {TRUE}, acted: {FALSE}]]
  /\ \A u \in Users : account[u].present =>
       account[u].roles = IF u \in SuperAdmins THEN Roles ELSE Bootstrap[u]
  /\ created = {}
  /\ owners = {}
  /\ request = [r \in Requests |-> Idle]

-----------------------------------------------------------------------------
(* A sign-in finds the account or creates it with the roles the env vars   *)
(* seed, records the principal id, and gives a super-admin every role back.*)
SignedIn(u) ==
  LET old == IF account[u].present THEN account[u]
             ELSE [Absent EXCEPT !.present = TRUE, !.roles = Bootstrap[u]]
  IN [old EXCEPT !.claimed = TRUE,
                 !.roles = IF u \in SuperAdmins THEN Roles ELSE @]

SignIn(u) ==
  /\ account' = [account EXCEPT ![u] = SignedIn(u)]
  /\ account' # account
  /\ UNCHANGED <<created, owners, request>>

(* require_sys_admin and the guards that read nothing a request can change:*)
(* nobody acts on themselves, admins are made and unmade by super-admins   *)
(* once there are any, and a super-admin is nobody's target.               *)
MayAct(actor, does, targets) ==
  /\ "admin" \in account[actor].roles
  /\ actor \notin targets
  /\ does \in {"promote", "demote"} => SuperAdmins = {} \/ actor \in SuperAdmins
  /\ does \in {"revoke", "demote", "detach", "delete"} =>
       targets \cap SuperAdmins = {}

(* The gates of the owners' routes: a session is made by an operator; its  *)
(* owners add anyone and an admin adopts it; only owners remove owners.    *)
MayManage(actor, does, targets, s) ==
  CASE does = "create" -> account[actor].roles # {} /\ s \notin created /\ targets = {actor}
    [] does = "add" -> /\ s \in created
                       /\ \/ actor \in OwnersOf(s)
                          \/ "admin" \in account[actor].roles /\ targets = {actor}
    [] does = "remove" -> s \in created /\ actor \in OwnersOf(s)

(* What a single-row Admit or Promote has to write: the flag, unless the   *)
(* row it loaded has it, for then the ORM sees no change to send.          *)
Missing(does, targets) ==
  LET flag == CASE does = "admit" -> {"operator"} [] does = "promote" -> {"admin"} [] OTHER -> {}
  IN flag \ UNION {account[u].roles : u \in targets}

Begin(r, asked) ==
  /\ request[r] = Idle
  /\ account[asked.actor].claimed
  /\ asked.targets \subseteq Present
  /\ request' = [request EXCEPT ![r] = asked]
  /\ UNCHANGED <<account, created, owners>>

(* One row's Revoke and Demote lock and guard as a batch of one does.      *)
BeginBatch(r, does, actor, targets) ==
  /\ MayAct(actor, does, targets)
  /\ Begin(r, [Idle EXCEPT !.does = does, !.batch = TRUE, !.actor = actor,
                           !.targets = targets])

(* admit, promote of one row: the flag to write is judged by the row as it *)
(* was loaded.                                                             *)
BeginGrant(r, does, actor, u) ==
  /\ does \in Grants
  /\ MayAct(actor, does, {u})
  /\ Begin(r, [Idle EXCEPT !.does = does, !.actor = actor, !.targets = {u},
                           !.gain = Missing(does, {u})])

BeginOwners(r, does, actor, u, s) ==
  /\ MayManage(actor, does, {u}, s)
  /\ Begin(r, [Idle EXCEPT !.does = does, !.actor = actor, !.targets = {u}, !.session = s])

(* The request commits what it does: the audit row it writes names its     *)
(* actor, whom a foreign key keeps.                                        *)
Commit(r, newAccount) ==
  LET actor == request[r].actor IN
  /\ actor \in Present
  /\ newAccount[actor].present
  /\ account' = [newAccount EXCEPT ![actor].acted = TRUE]
  /\ request' = [request EXCEPT ![r] = Idle]

(* A refusal, an exception that rolls back, or a process that dies.        *)
RequestEnds(r) ==
  /\ request[r] # Idle
  /\ request' = [request EXCEPT ![r] = Idle]
  /\ UNCHANGED <<account, created, owners>>

Doing(r, does, step) == request[r].does = does /\ request[r].step = step

Given(us, roles) ==
  [u \in Users |-> IF u \in us THEN [account[u] EXCEPT !.roles = @ \cup roles] ELSE account[u]]

Taken(us, roles) ==
  [u \in Users |-> IF u \in us THEN [account[u] EXCEPT !.roles = @ \ roles] ELSE account[u]]

-----------------------------------------------------------------------------
(* users.invite: a row made before its person's first sign-in.  An admin   *)
(* is invited as an operator too, and by whom may promote.                 *)
Invite(actor, u, asAdmin) ==
  /\ actor \in Present /\ "admin" \in account[actor].roles
  /\ u \notin Present
  /\ asAdmin => SuperAdmins = {} \/ actor \in SuperAdmins
  /\ account' = [account EXCEPT ![actor].acted = TRUE,
       ![u] = [Absent EXCEPT !.present = TRUE,
                             !.roles = IF asAdmin THEN Roles ELSE {"operator"}]]
  /\ UNCHANGED <<created, owners, request>>

(* admit, promote: a batch reads its rows again under the lock and refuses *)
(* to promote an account with no role; one row's action does neither.      *)
Grant(r) ==
  LET q == request[r]
      gain == IF q.batch
                THEN IF q.does = "admit" THEN {"operator"} ELSE {"admin"}
                ELSE q.gain
  IN /\ q.does \in Grants
     /\ q.targets \subseteq Present
     /\ q.batch /\ q.does = "promote" => \A u \in q.targets : account[u].roles # {}
     /\ Commit(r, Given(q.targets, gain))
     /\ UNCHANGED <<created, owners>>

(* revoke: counts the sessions owned with the account locked (still_owner).*)
Revoke(r) ==
  LET q == request[r] IN
  /\ q.does = "revoke"
  /\ q.targets \subseteq Present
  /\ RowsOf(q.targets) = {}
  /\ Commit(r, Taken(q.targets, {"operator"}))
  /\ UNCHANGED <<created, owners>>

(* last_admin, over the state after the action.                            *)
LeavesAnAdmin(targets) ==
  HasRole("admin") \cap targets # {} => HasRole("admin") \ targets # {}

(* demote: every admin's row is locked with the targets', then counted.    *)
Demote(r) ==
  LET q == request[r] IN
  /\ q.does = "demote"
  /\ q.targets \subseteq Present
  /\ LeavesAnAdmin(q.targets)
  /\ RowsOf(q.targets \ HasRole("operator")) = {}
  /\ Commit(r, Taken(q.targets, {"admin"}))
  /\ UNCHANGED <<created, owners>>

(* sole_owner: a session of theirs keeps an owner outside the targets.     *)
LeavesAnOwner(targets) ==
  \A row \in RowsOf(targets) : OwnersOf(row[1]) \ targets # {}

(* The batch's Remove from all sessions locks the owner rows it counts.    *)
DetachBatch(r) ==
  LET q == request[r] IN
  /\ q.does = "detach" /\ q.batch
  /\ q.targets \subseteq Present
  /\ LeavesAnOwner(q.targets)
  /\ owners' = owners \ RowsOf(q.targets)
  /\ Commit(r, account)
  /\ UNCHANGED created

(* remove_from_all_sessions: one row's action counts with nothing locked   *)
(* and deletes, by their ids, the rows it has counted.                     *)
BeginDetach(r, actor, u) ==
  /\ MayAct(actor, "detach", {u})
  /\ RowsOf({u}) # {}
  /\ LeavesAnOwner({u})
  /\ Begin(r, [Idle EXCEPT !.does = "detach", !.step = "checked", !.actor = actor,
                           !.targets = {u}, !.rows = RowsOf({u})])

Detach(r) ==
  /\ Doing(r, "detach", "checked")
  /\ owners' = owners \ request[r].rows
  /\ Commit(r, account)
  /\ UNCHANGED created

(* owns_sessions, has_history.                                             *)
Deletable(targets) ==
  /\ targets \subseteq Present
  /\ RowsOf(targets) = {}
  /\ \A u \in targets : ~account[u].acted
  /\ LeavesAnAdmin(targets)

Without(us) == [u \in Users |-> IF u \in us THEN Absent ELSE account[u]]

DeleteBatch(r) ==
  LET q == request[r] IN
  /\ q.does = "delete" /\ q.batch
  /\ Deletable(q.targets)
  /\ Commit(r, Without(q.targets))
  /\ UNCHANGED <<created, owners>>

(* remove_user: the single row's guards read with nothing locked.  The     *)
(* delete takes along the owner rows there are by then (the relationship's *)
(* cascade); the foreign keys of history stop it.                          *)
BeginDelete(r, actor, u) ==
  /\ MayAct(actor, "delete", {u})
  /\ Deletable({u})
  /\ Begin(r, [Idle EXCEPT !.does = "delete", !.step = "checked", !.actor = actor,
                           !.targets = {u}])

Delete(r) ==
  LET q == request[r] IN
  /\ Doing(r, "delete", "checked")
  /\ q.targets \subseteq Present
  /\ \A u \in q.targets : ~account[u].acted
  /\ owners' = owners \ RowsOf(q.targets)
  /\ Commit(r, Without(q.targets))
  /\ UNCHANGED created

-----------------------------------------------------------------------------
(* create_session, clone and rehydrate: the maker, read again under the    *)
(* owner-add lock, is the first owner.  The owners staged on the form are  *)
(* then added one by one, as add_owner adds them.                          *)
CreateSession(r) ==
  LET q == request[r] IN
  /\ q.does = "create"
  /\ q.session \notin created
  /\ q.targets \subseteq Eligible
  /\ created' = created \cup {q.session}
  /\ owners' = owners \cup ({q.session} \X q.targets)
  /\ Commit(r, account)

(* add_owner: the account is locked FOR SHARE and must be an operator or   *)
(* an admin; a row there already is refused.                               *)
AddOwner(r) ==
  LET q == request[r] IN
  /\ q.does = "add"
  /\ q.targets \subseteq Eligible
  /\ q.targets \cap OwnersOf(q.session) = {}
  /\ owners' = owners \cup ({q.session} \X q.targets)
  /\ Commit(r, account)
  /\ UNCHANGED created

RemoveOwnerMutant(r) ==   \* mutant: the last owner is not refused
  LET q == request[r] IN
  /\ q.does = "remove"
  /\ q.targets \subseteq OwnersOf(q.session)
  /\ owners' = owners \ ({q.session} \X q.targets)
  /\ Commit(r, account)
  /\ UNCHANGED created

(* remove_owner: the owner rows are locked, then counted (last_owner).     *)
RemoveOwner(r) ==
  LET q == request[r] IN
  /\ q.does = "remove"
  /\ q.targets \subseteq OwnersOf(q.session)
  /\ OwnersOf(q.session) \ q.targets # {}
  /\ owners' = owners \ ({q.session} \X q.targets)
  /\ Commit(r, account)
  /\ UNCHANGED created

-----------------------------------------------------------------------------
(* find_signed_in_user with a changed email that an account h never signed *)
(* in to holds: h is folded into u.  The rows are loaded with no lock.     *)
AbsorbLoad(r, u, h) ==
  /\ request[r] = Idle
  /\ u # h /\ {u, h} \subseteq Present
  /\ account[u].claimed
  /\ ~account[h].claimed /\ ~account[h].acted
  /\ request' = [request EXCEPT ![r] =
                  [Idle EXCEPT !.does = "absorb", !.actor = u, !.targets = {h},
                               !.gain = account[h].roles \ account[u].roles]]
  /\ UNCHANGED <<account, created, owners>>

(* The DELETE of h's rows on sessions both are on starts: its snapshot has *)
(* u's rows as committed by now, though it may wait for a lock.            *)
AbsorbShared(r) ==
  LET q == request[r] IN
  /\ Doing(r, "absorb", "begun")
  /\ request' = [request EXCEPT ![r].step = "checked",
       ![r].rows = {row \in RowsOf(q.targets) : <<row[1], q.actor>> \in owners}]
  /\ UNCHANGED <<account, created, owners>>

(* h's other rows become u's; the flags u lacked are written; h is deleted.*)
(* A row both would have by now breaks uq_session_user and the sign-in     *)
(* fails, as it does if h has acted since.  No actor: u gets no history.   *)
Absorb(r) ==
  LET q == request[r]
      u == q.actor
      moved == RowsOf(q.targets) \ q.rows
      ToU(rows) == {IF row[2] \in q.targets THEN <<row[1], u>> ELSE row : row \in rows}
  IN /\ Doing(r, "absorb", "checked")
     /\ q.targets \cup {u} \subseteq Present
     /\ \A h \in q.targets : ~account[h].acted
     /\ ToU(moved) \cap owners = {}
     /\ owners' = (owners \ RowsOf(q.targets)) \cup ToU(moved)
     /\ account' = [Without(q.targets) EXCEPT ![u].roles = @ \cup q.gain]
     /\ request' = [p \in Requests |->
          IF p = r THEN Idle ELSE [request[p] EXCEPT !.rows = ToU(@)]]
     /\ UNCHANGED created

-----------------------------------------------------------------------------
AccountsSettled(r) == Grant(r) \/ Revoke(r) \/ Demote(r) \/ DetachBatch(r) \/ DeleteBatch(r)

SingleRow(r) ==
  \/ \E does \in Grants, actor, u \in Present : BeginGrant(r, does, actor, u)
  \/ \E actor, u \in Present : BeginDetach(r, actor, u) \/ BeginDelete(r, actor, u)
  \/ Detach(r)
  \/ Delete(r)

OwnersManaged(r) == CreateSession(r) \/ AddOwner(r) \/ RemoveOwner(r)

Folds(r) ==
  \/ \E u, h \in Users : AbsorbLoad(r, u, h)
  \/ AbsorbShared(r)
  \/ Absorb(r)

Next ==
  \/ \E u \in Users : SignIn(u)
  \/ \E actor, u \in Users, asAdmin \in BOOLEAN : Invite(actor, u, asAdmin)
  \/ \E r \in Requests :
       \/ \E does \in AccountActions, actor \in Present, targets \in SUBSET Present \ {{}} :
             BeginBatch(r, does, actor, targets)
       \/ \E does \in OwnerActions, actor, u \in Present, s \in Sessions :
             BeginOwners(r, does, actor, u, s)
       \/ AccountsSettled(r)
       \/ SingleRow(r)
       \/ OwnersManaged(r)
       \/ Folds(r)
       \/ RequestEnds(r)

Spec == Init /\ [][Next]_vars

-----------------------------------------------------------------------------
(* Types, and the foreign key: an owner is an account that is there.       *)
TypeOK ==
  /\ account \in [Users -> AccountRows]
  /\ created \subseteq Sessions
  /\ owners \subseteq created \X Present
  /\ request \in [Requests -> Asks]

Ends(r) == request[r].step = "checked" /\ request'[r] = Idle

(* Of every step: remove_owner, the batches and a demote judge what they   *)
(* have locked, so a session loses its last owner only by an action that   *)
(* counts first and writes later (one row's detach or delete, or a         *)
(* sign-in's fold).                                                        *)
LockedActionsLeaveAnOwner ==
  \A s \in created : OwnersOf(s) # {} /\ OwnersOf(s)' = {} =>
    \E r \in Requests : request[r].does \in {"detach", "delete", "absorb"} /\ Ends(r)

(* lock_owner_eligible against revoke and demote: an owner who is neither  *)
(* an operator nor an admin comes only from a sign-in's fold, which moves  *)
(* owner rows without that lock.                                           *)
OwnersAreOperators == \A row \in owners : row[2] \in Eligible

OwnersStayOperators ==
  OwnersAreOperators => OwnersAreOperators' \/
    \E r \in Requests : request[r].does = "absorb" /\ Ends(r)

(* last_admin: the workspace never goes without an admin through any number*)
(* of demotes and batches at once; one row's delete, and a fold of an admin*)
(* into an account demoted since, count with nothing locked.               *)
LockedActionsLeaveAnAdmin ==
  HasRole("admin") # {} /\ HasRole("admin")' = {} =>
    \E r \in Requests : request[r].does \in {"delete", "absorb"} /\ Ends(r)

(* remove_from_all_sessions: refuses to take a session's only owner, so    *)
(* that no session is left with none.                                      *)
SessionsKeepAnOwner == \A s \in created : OwnersOf(s) # {}

=============================================================================
