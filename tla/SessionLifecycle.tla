-------------------------- MODULE SessionLifecycle --------------------------
(***************************************************************************)
(* One review session's lifecycle as app/services/session_lifecycle.py     *)
(* keeps it: the session row (status, Start, End, release window), its     *)
(* instruments' accepting flags, the operator's transitions, the setup and *)
(* schedule saves, the two requests that compute a readiness report before *)
(* they lock (Prepare and Activate), and the reviewers' writes.            *)
(*                                                                         *)
(* Every transition locks the row, reads it again, decides and commits in  *)
(* one transaction, and every writer of the row takes that same lock: such *)
(* a transaction is one action here.  What is read before the lock, and    *)
(* what happens after a rollback released it, are steps of their own.  A   *)
(* reviewer's write holds the lock shared from its gate to its commit.     *)
(***************************************************************************)
EXTENDS Naturals, FiniteSets

CONSTANTS
  Instruments,    \* the session's instruments
  Reviewers,      \* the reviewers' requests
  Requests,       \* the operators' Prepare and Activate requests
  MaxTime,        \* bound: the last moment the model's time reaches
  None,           \* a datetime column that is NULL
  Starts, Ends, Releases, Untils  \* what an operator may type in each box

Moments == 0..MaxTime
MomentOrNone == Moments \cup {None}

ASSUME MaxTimeAssumption == MaxTime \in Nat
ASSUME NoneAssumption == None \notin Nat
ASSUME BoxesAssumption ==
  /\ Starts \subseteq MomentOrNone
  /\ Ends \subseteq MomentOrNone
  /\ Releases \subseteq MomentOrNone
  /\ Untils \subseteq MomentOrNone

VARIABLES
  now,        \* wall-clock time
  row,        \* the sessions row, as committed
  open,       \* instruments with accepting_responses
  stamped,    \* instruments with deadline_closed_at
  sound,      \* whether the stored setup, schedule aside, passes the check
  requests,   \* where each Prepare or Activate request is
  writing     \* reviewers holding the row's shared lock

rowVars == <<row, open, stamped>>
lifecycleVars == <<now, row, open, stamped, sound, requests, writing>>

Statuses == {"draft", "validated", "ready", "expired", "archived"}
Rows == [status : Statuses, start : MomentOrNone, end : MomentOrNone,
         releaseAt : MomentOrNone, releaseUntil : MomentOrNone]

-----------------------------------------------------------------------------
(* Predicates on a row: the committed one, or a request's loaded copy. *)

IsEditable(r) == r.status \in {"draft", "validated"}

ReviewEnd(r) == IF r.end # None THEN r.end ELSE r.releaseAt

DeadlineHasPassed(r, t) == ReviewEnd(r) # None /\ t >= ReviewEnd(r)

AcceptsResponses(r, i, t) ==
  r.status = "ready" /\ i \in open /\ ~DeadlineHasPassed(r, t)

(* validate_session_setup: the setup's errors, and the schedule's own,    *)
(* raised only before the session has opened.                             *)
EndCheckFails(r, t) ==
  /\ IsEditable(r)
  /\ \/ DeadlineHasPassed(r, t)
     \/ r.start # None /\ ReviewEnd(r) # None /\ r.start >= ReviewEnd(r)

CanActivate(r, t) == sound /\ ~EndCheckFails(r, t)

-----------------------------------------------------------------------------
(* lock_session: the exclusive lock is granted once no write holds it. *)
UnlockedMutant == TRUE   \* mutant: the writes' shared lock excludes nobody
Unlocked == writing = {}

SetStatus(s) == row' = [row EXCEPT !.status = s]

(* The writes of activate_session, shared with the scheduled trigger. *)
GoReadyMutant ==         \* mutant: the schedule is not consumed
  SetStatus("ready") /\ open' = Instruments /\ stamped' = {}
GoReady ==
  /\ row' = [row EXCEPT !.status = "ready", !.start = None]
  /\ open' = Instruments
  /\ stamped' = {}

(* The exit the operator takes: Close, Revert and Archive. *)
LeaveReadyMutant(s) ==   \* mutant: the instruments are left accepting
  SetStatus(s) /\ UNCHANGED <<open, stamped>>
LeaveReady(s) == SetStatus(s) /\ open' = {} /\ UNCHANGED stamped

(* The columns of the row and the flags of the instruments hold what the  *)
(* model's code can store in them, the release buttons' stamps included.  *)
TypeOK ==
  /\ now \in Moments
  /\ row \in Rows
  /\ open \in SUBSET Instruments
  /\ stamped \in SUBSET Instruments
  /\ sound \in BOOLEAN
  /\ requests \in [Requests -> {"idle", "validate", "mark", "activate"}]
  /\ writing \in SUBSET Reviewers

NewRow == [status |-> "draft", start |-> None, end |-> None,
           releaseAt |-> None, releaseUntil |-> None]

(* A new session; or one left "ready" by an earlier release: with an      *)
(* instrument its operator had closed by hand, or with an End a reviewer's*)
(* request had already shut, each instrument stamped, without expiring it.*)
Init ==
  /\ now = 0
  /\ sound \in BOOLEAN
  /\ requests = [q \in Requests |-> "idle"]
  /\ writing = {}
  /\ \/ row = NewRow /\ open = {} /\ stamped = {}
     \/ /\ \E e \in Ends : row = [NewRow EXCEPT !.status = "ready", !.end = e]
        /\ open \in SUBSET Instruments
        /\ stamped = {}
     \/ /\ row = [NewRow EXCEPT !.status = "ready", !.end = 0]
        /\ open = {}
        /\ stamped = Instruments

-----------------------------------------------------------------------------
(* The operator's transitions. *)

ExpireSession ==
  /\ Unlocked /\ row.status = "ready"
  /\ LeaveReady("expired")
  /\ UNCHANGED <<now, sound, requests, writing>>

(* operator_revert: the stage read under the lock picks the path, the     *)
(* invalidation or the revert that closes every instrument.               *)
OperatorRevert ==
  /\ Unlocked
  /\ \/ row.status = "validated" /\ SetStatus("draft") /\ UNCHANGED <<open, stamped>>
     \/ row.status \in {"ready", "expired"} /\ LeaveReady("draft")
  /\ UNCHANGED <<now, sound, requests, writing>>

ArchiveSession ==
  /\ Unlocked /\ row.status # "archived"
  /\ LeaveReady("archived")
  /\ UNCHANGED <<now, sound, requests, writing>>

UnarchiveSession ==
  /\ Unlocked /\ row.status = "archived"
  /\ SetStatus("draft")
  /\ UNCHANGED <<now, open, stamped, sound, requests, writing>>

(* Bound: the buttons are pressed at moments their boxes may hold. *)
ReleaseResponsesNow ==
  /\ now \in Releases
  /\ Unlocked /\ row.status # "archived"
  /\ row' = [row EXCEPT !.releaseAt = now, !.releaseUntil = None]
  /\ UNCHANGED <<now, open, stamped, sound, requests, writing>>

StopResponsesRelease ==
  /\ now \in Untils
  /\ Unlocked /\ row.status # "archived"
  /\ row' = [row EXCEPT !.releaseUntil = now]
  /\ UNCHANGED <<now, open, stamped, sound, requests, writing>>

-----------------------------------------------------------------------------
(* Saves, gated on the editable stage under the lock. *)

(* A setup service: invalidate_if_validated and the edit commit together. *)
EditSetup ==
  /\ Unlocked /\ IsEditable(row)
  /\ SetStatus("draft")
  /\ sound' \in BOOLEAN
  /\ UNCHANGED <<now, open, stamped, requests, writing>>

Precedes(a, b) == a # None /\ b # None => a < b

(* The per-pair ordering rules; a pair with neither box edited is skipped.*)
ScheduleOrdered(r) ==
  LET Edited(f, g) == r[f] # row[f] \/ r[g] # row[g] IN
  /\ Edited("start", "end") => Precedes(r.start, r.end)
  /\ Edited("end", "releaseAt") /\ r.end # None /\ r.releaseAt # None
       => r.end <= r.releaseAt
  /\ r.end = None /\ (Edited("start", "releaseAt") \/ r.end # row.end)
       => Precedes(r.start, r.releaseAt)
  /\ Edited("releaseAt", "releaseUntil") => Precedes(r.releaseAt, r.releaseUntil)

(* The details card's Save: every box holds its stored value or a typed   *)
(* one, a typed Start lies ahead (the lead-time floor), and the stage is  *)
(* left alone.                                                            *)
SaveSchedule ==
  /\ Unlocked /\ IsEditable(row)
  /\ \E s \in Starts \cup {row.start}, e \in Ends \cup {row.end},
        a \in Releases \cup {row.releaseAt}, u \in Untils \cup {row.releaseUntil} :
       /\ s # row.start /\ s # None => s > now
       /\ row' = [row EXCEPT !.start = s, !.end = e, !.releaseAt = a, !.releaseUntil = u]
       /\ ScheduleOrdered(row')
  /\ UNCHANGED <<now, open, stamped, sound, requests, writing>>

-----------------------------------------------------------------------------
(* Prepare: Generate commits under the lock, the report is computed after *)
(* that lock is gone, and mark_validated locks again.                     *)

PrepareGenerate(q) ==
  /\ requests[q] = "idle"
  /\ Unlocked /\ IsEditable(row)
  /\ SetStatus("draft")
  /\ sound' \in BOOLEAN
  /\ requests' = [requests EXCEPT ![q] = "validate"]
  /\ UNCHANGED <<now, open, stamped, writing>>

PrepareValidate(q) ==
  /\ requests[q] = "validate"
  /\ requests' = [requests EXCEPT ![q] =
                    IF CanActivate(row, now) THEN "mark" ELSE "idle"]
  /\ UNCHANGED <<now, row, open, stamped, sound, writing>>

MarkValidated(q) ==
  /\ requests[q] = "mark"
  /\ Unlocked
  /\ IF row.status = "draft" THEN SetStatus("validated") ELSE UNCHANGED row
  /\ requests' = [requests EXCEPT ![q] = "idle"]
  /\ UNCHANGED <<now, open, stamped, sound, writing>>

(* Activate: the stage and the report are read unlocked.  A report with   *)
(* warnings and no acknowledgement ends the request here too.             *)
ActivateReport(q) ==
  /\ requests[q] = "idle"
  /\ row.status = "validated" /\ CanActivate(row, now)
  /\ requests' = [requests EXCEPT ![q] = "activate"]
  /\ UNCHANGED <<now, row, open, stamped, sound, writing>>

ActivateSession(q) ==
  /\ requests[q] = "activate"
  /\ Unlocked
  /\ IF row.status = "validated" THEN GoReady ELSE UNCHANGED rowVars
  /\ requests' = [requests EXCEPT ![q] = "idle"]
  /\ UNCHANGED <<now, sound, writing>>

-----------------------------------------------------------------------------
(* The reviewers' Save, Submit, Clear and Recall: the service's gate under*)
(* the shared lock, and the commit that releases it.                      *)

GateWriteMutant(w) ==   \* mutant: the route's own check is trusted
  /\ w \notin writing
  /\ writing' = writing \cup {w}
  /\ UNCHANGED <<now, row, open, stamped, sound, requests>>

GateWrite(w) ==
  /\ w \notin writing
  /\ row.status = "ready" /\ ~DeadlineHasPassed(row, now)
  /\ writing' = writing \cup {w}
  /\ UNCHANGED <<now, row, open, stamped, sound, requests>>

CommitWrite(w) ==
  /\ w \in writing
  /\ writing' = writing \ {w}
  /\ UNCHANGED <<now, row, open, stamped, sound, requests>>

(* MaxTime bounds the model's time. *)
Tick ==
  /\ now < MaxTime
  /\ now' = now + 1
  /\ UNCHANGED <<row, open, stamped, sound, requests, writing>>

OperatorStep ==
  \/ ExpireSession \/ OperatorRevert \/ ArchiveSession \/ UnarchiveSession
  \/ ReleaseResponsesNow \/ StopResponsesRelease
  \/ EditSetup \/ SaveSchedule
  \/ \E q \in Requests :
       \/ PrepareGenerate(q) \/ PrepareValidate(q) \/ MarkValidated(q)
       \/ ActivateReport(q) \/ ActivateSession(q)

Next ==
  \/ OperatorStep
  \/ \E w \in Reviewers : GateWrite(w) \/ CommitWrite(w)
  \/ Tick

Spec == Init /\ [][Next]_lifecycleVars

-----------------------------------------------------------------------------
(* Every exit from "ready" an operator has closes every instrument, and a *)
(* setup edit opens none: nothing accepts responses on a session that is  *)
(* not open (archive_session's docstring, findings L5).                   *)
OpenOnlyWhileReady == open # {} => row.status = "ready"

(* Opening consumes the schedule and no save sets it again: a session open*)
(* or over has no Start left to fire (activate_session).                  *)
OpeningConsumesStart == row.status \in {"ready", "expired"} => row.start = None

(* What the session promises its reviewers (ReviewStages): it moves along *)
(* the lifecycle's edges only, and never while a write is under way.      *)
Stages == INSTANCE ReviewStages WITH stage <- row.status
ReviewStagesHold == Stages!Spec
=============================================================================
