------------------------- MODULE InvitationDelivery -------------------------
(***************************************************************************)
(* One reviewer's invitation and its outbox: app/services/invitations.py,  *)
(* email_dispatch.py and the per-row Send, Send reminder and Regenerate of *)
(* the Invitations page, by any number of operators' tabs.                 *)
(*                                                                         *)
(* A Send loads the invitation; it commits the new token, the stamps and a *)
(* queued row under the session lock; then, with no lock, it claims the    *)
(* row, hands it to the transport and stamps the outcome, each in a commit *)
(* of its own; and after a definite refusal it locks again to put the      *)
(* stamps back.  Between any two of these others act, or the process dies. *)
(*                                                                         *)
(* Bulk sends are off (bulk_send_enabled), and so is scheduled mail.  The  *)
(* reviewer stays active and assigned, and is not deleted.                 *)
(***************************************************************************)
EXTENDS Naturals, Sequences

CONSTANTS
  Requests,    \* the operators' requests
  Followers,   \* the reviewer's requests for the link
  MaxMails,    \* bound: the outbox rows the model lets be queued
  MaxBegun,    \* bound: the beginnings of transactions it tells apart
  MaxToken     \* bound: the tokens it lets be minted

VARIABLES
  stage,       \* the session's stage
  token,       \* the invitation's token, numbered as they are minted
  stamps,      \* its status, sent_at, opened_at and last_reminder_at
  outbox,      \* its outbox rows, in the order of their ids
  arrived,     \* the rows whose message reached the reviewer's mailbox
  requests,    \* where each operator's request is
  following    \* the followers whose token was found, not yet recorded

invitationVars == <<token, stamps, outbox>>
vars == <<stage, token, stamps, outbox, arrived, requests, following>>

Lifecycle == INSTANCE ReviewStages WITH Reviewers <- {}, writing <- {}

(* A moment is the id of the row queued at it, 0 a column that is NULL. *)
Stamps == [status : {"pending", "sent", "opened"}, sentAt : Nat,
           opened : BOOLEAN, remindedAt : Nat]
Fresh == [status |-> "pending", sentAt |-> 0, opened |-> FALSE, remindedAt |-> 0]

(* A row's created_at is when its transaction began, before the lock: its  *)
(* "began", numbered in the order of the beginnings.                       *)
Mails == [kind : {"invitation", "reminder"}, token : Nat, began : Nat,
          status : {"queued", "sending", "sent", "failed"}]

Steps == {"idle", "issue", "remind", "regenerate",
          "claim", "send", "accepted", "refused", "unknown", "restore"}
RequestStates == [step : Steps, began : Nat, mail : Nat, before : Stamps, stamped : Stamps]
Idle == [step |-> "idle", began |-> 0, mail |-> 0, before |-> Fresh, stamped |-> Fresh]

(* Statuses are of the closed sets the models name, and every row a step, *)
(* a request or a mailbox refers to exists.                               *)
TypeOK ==
  /\ stage \in Lifecycle!Stages
  /\ token \in Nat
  /\ stamps \in Stamps
  /\ outbox \in Seq(Mails)
  /\ arrived \subseteq DOMAIN outbox
  /\ requests \in [Requests -> RequestStates]
  /\ \A q \in Requests :
       requests[q].step \notin {"idle", "issue", "remind", "regenerate"} =>
         requests[q].mail \in DOMAIN outbox
  /\ following \subseteq Followers

(* Prepare has created the invitation, with a token nobody has seen. *)
Init ==
  /\ stage = "validated"
  /\ token = 0
  /\ stamps = Fresh
  /\ outbox = <<>>
  /\ arrived = {}
  /\ requests = [q \in Requests |-> Idle]
  /\ following = {}

At(q, step) == requests[q].step = step
GoTo(q, step) == requests' = [requests EXCEPT ![q].step = step]
Finish(q) == requests' = [requests EXCEPT ![q] = Idle]

IsPrepared == stage \in {"validated", "ready"}
NextId == Len(outbox) + 1

-----------------------------------------------------------------------------
(* Send and Send reminder.  The request's queries begin its transaction;   *)
(* then the gate, the stamps and the outbox row are one commit, and the    *)
(* invitation is read again under its lock.                                *)

Beginnings == {outbox[m].began : m \in DOMAIN outbox} \cup {requests[q].began : q \in Requests}

Begin(q, step) ==
  /\ At(q, "idle")
  /\ \E last \in Beginnings :
       /\ \A t \in Beginnings : t <= last
       /\ last < MaxBegun
       /\ requests' = [requests EXCEPT ![q].step = step, ![q].began = last + 1]
  /\ UNCHANGED <<stage, invitationVars, arrived, following>>

BeginSend(q) == IsPrepared /\ Begin(q, "issue")
BeginRemind(q) == stage = "ready" /\ Begin(q, "remind")

QueueMail(q, kind, stamped) ==
  /\ NextId <= MaxMails
  /\ outbox' = Append(outbox, [kind |-> kind, token |-> token',
                              began |-> requests[q].began, status |-> "queued"])
  /\ stamps' = stamped
  /\ requests' = [requests EXCEPT ![q] =
       [step |-> "claim", began |-> 0, mail |-> NextId, before |-> stamps, stamped |-> stamped]]

MintToken == token < MaxToken /\ token' = token + 1

StampedBySend == [stamps EXCEPT !.status = "sent", !.sentAt = NextId, !.opened = FALSE]

SendMutant(q) ==   \* mutant: a stale tab's second click is not refused
  /\ At(q, "issue") /\ IsPrepared
  /\ MintToken
  /\ QueueMail(q, "invitation", StampedBySend)
  /\ UNCHANGED <<stage, arrived, following>>

Send(q) ==
  /\ At(q, "issue") /\ IsPrepared /\ stamps.status = "pending"
  /\ MintToken
  /\ QueueMail(q, "invitation", StampedBySend)
  /\ UNCHANGED <<stage, arrived, following>>

(* current_invite_url: the last invitation email, by created_at, holds the *)
(* current link.                                                           *)
LinkIsCurrent ==
  \E m \in DOMAIN outbox :
    /\ outbox[m].kind = "invitation" /\ outbox[m].token = token
    /\ \A n \in DOMAIN outbox :
         outbox[n].kind = "invitation" => outbox[n].began <= outbox[m].began

(* The reminder reuses that link, or falls back to a fresh invitation. *)
Remind(q) ==
  /\ At(q, "remind") /\ stage = "ready"
  /\ \/ /\ LinkIsCurrent
        /\ UNCHANGED token
        /\ QueueMail(q, "reminder", [stamps EXCEPT !.remindedAt = NextId])
     \/ /\ ~LinkIsCurrent
        /\ MintToken
        /\ QueueMail(q, "invitation", [StampedBySend EXCEPT !.remindedAt = NextId])
  /\ UNCHANGED <<stage, arrived, following>>

-----------------------------------------------------------------------------
(* Regenerate.  The route loads the invitation; regenerate_token locks the *)
(* session and does not read the invitation again, and the ORM writes only *)
(* the columns it assigned a value other than the one loaded.              *)

SupersedeQueuedMutant == UNCHANGED outbox   \* mutant: queued rows still go out
SupersedeQueued ==
  outbox' = [m \in DOMAIN outbox |->
    IF outbox[m].status = "queued" THEN [outbox[m] EXCEPT !.status = "failed"] ELSE outbox[m]]

Written(assigned, loaded, current) == IF assigned = loaded THEN current ELSE assigned

LoadForRegenerate(q) ==
  /\ At(q, "idle") /\ IsPrepared
  /\ requests' = [requests EXCEPT ![q].step = "regenerate", ![q].before = stamps]
  /\ UNCHANGED <<stage, invitationVars, arrived, following>>

RegenerateToken(q) ==
  /\ At(q, "regenerate") /\ IsPrepared
  /\ MintToken
  /\ LET loaded == requests[q].before IN
     stamps' =
       [status |-> Written("pending", loaded.status, stamps.status),
        sentAt |-> Written(0, loaded.sentAt, stamps.sentAt),
        opened |-> Written(FALSE, loaded.opened, stamps.opened),
        remindedAt |-> Written(0, loaded.remindedAt, stamps.remindedAt)]
  /\ SupersedeQueued
  /\ Finish(q)
  /\ UNCHANGED <<stage, arrived, following>>

(* regenerate_all_tokens selects the invitations under the lock. *)
RegenerateAllTokens ==
  /\ IsPrepared
  /\ MintToken
  /\ stamps' = Fresh
  /\ SupersedeQueued
  /\ UNCHANGED <<stage, arrived, requests, following>>

-----------------------------------------------------------------------------
(* email_dispatch.dispatch, with no lock: claim, send, stamp. *)

SetMail(m, status) == outbox' = [outbox EXCEPT ![m].status = status]

Claim(q) ==
  /\ At(q, "claim")
  /\ IF outbox[requests[q].mail].status = "queued"
     THEN SetMail(requests[q].mail, "sending") /\ GoTo(q, "send")
     ELSE UNCHANGED outbox /\ Finish(q)
  /\ UNCHANGED <<stage, token, stamps, arrived, following>>

(* Accepted; refused before Graph accepted it (REFUSED_KINDS); or a 5xx or *)
(* a network failure, after which the message may have arrived.            *)
TransportSend(q) ==
  /\ At(q, "send")
  /\ \/ GoTo(q, "accepted") /\ arrived' = arrived \cup {requests[q].mail}
     \/ GoTo(q, "refused") /\ UNCHANGED arrived
     \/ GoTo(q, "unknown") /\ arrived' \in {arrived, arrived \cup {requests[q].mail}}
  /\ UNCHANGED <<stage, invitationVars, following>>

StampOutcomeMutant(q) ==   \* mutant: an unknown outcome is taken for a refusal
  /\ \/ At(q, "accepted") /\ SetMail(requests[q].mail, "sent") /\ Finish(q)
     \/ requests[q].step \in {"refused", "unknown"}
        /\ SetMail(requests[q].mail, "failed") /\ GoTo(q, "restore")
  /\ UNCHANGED <<stage, token, stamps, arrived, following>>

StampOutcome(q) ==
  /\ \/ At(q, "accepted") /\ SetMail(requests[q].mail, "sent") /\ Finish(q)
     \/ At(q, "unknown") /\ SetMail(requests[q].mail, "failed") /\ Finish(q)
     \/ At(q, "refused") /\ SetMail(requests[q].mail, "failed") /\ GoTo(q, "restore")
  /\ UNCHANGED <<stage, token, stamps, arrived, following>>

-----------------------------------------------------------------------------
(* restore_after_failed_send: under the lock, unless a newer email was     *)
(* queued, each stamp that still holds what the send wrote goes back.      *)

PutBackMutant(was, wrote, current) == was   \* mutant: not a compare-and-set
PutBack(was, wrote, current) == IF current = wrote THEN was ELSE current

RestoreMutant(q) ==   \* mutant: a newer email is not looked for
  /\ At(q, "restore")
  /\ LET r == requests[q] IN
     stamps' = [status |-> PutBack(r.before.status, r.stamped.status, stamps.status),
                sentAt |-> PutBack(r.before.sentAt, r.stamped.sentAt, stamps.sentAt),
                opened |-> PutBack(r.before.opened, r.stamped.opened, stamps.opened),
                remindedAt |-> PutBack(r.before.remindedAt, r.stamped.remindedAt,
                                       stamps.remindedAt)]
  /\ Finish(q)
  /\ UNCHANGED <<stage, token, outbox, arrived, following>>

RestoreAfterFailedSend(q) ==
  /\ At(q, "restore")
  /\ LET r == requests[q] IN
     IF outbox[r.mail].status = "failed" /\ r.mail = Len(outbox)
     THEN stamps' =
       [status |-> PutBack(r.before.status, r.stamped.status, stamps.status),
        sentAt |-> PutBack(r.before.sentAt, r.stamped.sentAt, stamps.sentAt),
        opened |-> PutBack(r.before.opened, r.stamped.opened, stamps.opened),
        remindedAt |-> PutBack(r.before.remindedAt, r.stamped.remindedAt, stamps.remindedAt)]
     ELSE UNCHANGED stamps
  /\ Finish(q)
  /\ UNCHANGED <<stage, token, outbox, arrived, following>>

(* The process dies, or the lock is not to be had, or the gate refuses: a  *)
(* row is left as it is, and only a person tries again.                    *)
RequestEnds(q) ==
  /\ ~At(q, "idle")
  /\ Finish(q)
  /\ UNCHANGED <<stage, invitationVars, arrived, following>>

-----------------------------------------------------------------------------
(* The reviewer's link, from the email or as the operator copied it from   *)
(* the outbox: looked up with no lock, recorded under it.                  *)

Follow(w) ==
  /\ w \notin following /\ stage # "archived"
  /\ \E m \in DOMAIN outbox : outbox[m].token = token
  /\ following' = following \cup {w}
  /\ UNCHANGED <<stage, invitationVars, arrived, requests>>

RecordOpen(w) ==
  /\ w \in following
  /\ stamps' = IF stamps.opened THEN stamps
               ELSE [stamps EXCEPT !.opened = TRUE, !.status = "opened"]
  /\ following' = following \ {w}
  /\ UNCHANGED <<stage, token, outbox, arrived, requests>>

FollowEnds(w) ==
  /\ w \in following
  /\ following' = following \ {w}
  /\ UNCHANGED <<stage, invitationVars, arrived, requests>>

(* The lifecycle turns the stage: ReviewStages, which it implements. *)
StageMoves == Lifecycle!Move /\ UNCHANGED <<invitationVars, arrived, requests, following>>

RequestStep(q) ==
  \/ BeginSend(q) \/ BeginRemind(q) \/ Send(q) \/ Remind(q)
  \/ LoadForRegenerate(q) \/ RegenerateToken(q)
  \/ Claim(q) \/ TransportSend(q) \/ StampOutcome(q)
  \/ RestoreAfterFailedSend(q) \/ RequestEnds(q)

Next ==
  \/ \E q \in Requests : RequestStep(q)
  \/ RegenerateAllTokens
  \/ \E w \in Followers : Follow(w) \/ RecordOpen(w) \/ FollowEnds(w)
  \/ StageMoves

Spec == Init /\ [][Next]_vars

-----------------------------------------------------------------------------
(* An invitation email brought the reviewer the current link. *)
LinkArrived == \E m \in arrived : outbox[m].kind = "invitation" /\ outbox[m].token = token

(* "pending" offers Send, which mints a new token: it must mean that no    *)
(* invitation email with the current link reached the reviewer, whatever   *)
(* refusals were undone meanwhile (send_one_invitation, REFUSED_KINDS).    *)
PendingMeansUnsent ==
  stamps.status = "pending" => ~LinkArrived

(* The rows' transactions began in the order of the rows. *)
CreatedInOrder ==
  \A m, n \in DOMAIN outbox : m < n => outbox[m].began <= outbox[n].began

(* A link an invitation email brought the reviewer dies by a Regenerate    *)
(* only: no fresh invitation, queued by a Send or for want of a link to    *)
(* remind with, takes its place (send_one_invitation, findings L1) - as    *)
(* long as no row was queued by a transaction older than the row before.   *)
FreshMailKillsNoInvitation ==
  [][token' # token /\ Len(outbox') > Len(outbox) /\ CreatedInOrder => ~LinkArrived]_vars

(* A Regenerate leaves no row queued with the link it killed: a queued row *)
(* carries the current link, unless a fresh invitation took its place      *)
(* (_supersede_queued).                                                    *)
QueuedLinksAreCurrentOrReplaced ==
  \A m \in DOMAIN outbox : outbox[m].status = "queued" =>
    \/ outbox[m].token = token
    \/ \E n \in DOMAIN outbox : n > m /\ outbox[n].kind = "invitation"

(* An email that carries the current link and is on its way, or there. *)
IsLive(m) ==
  /\ outbox[m].token = token
  /\ outbox[m].status \in {"queued", "sending", "sent"} \/ m \in arrived

(* An undo brings Send back only once no email with the link it would kill *)
(* is under way or has arrived: another operator's reminder may be         *)
(* (restore_after_failed_send, the newer email).                           *)
UndoKillsNoLiveLink ==
  [][stamps.status # "pending" /\ stamps'.status = "pending" /\ token' = token
       => \A m \in DOMAIN outbox : ~IsLive(m)]_vars

(* Whoever opened the current link stays on record as having opened it: an *)
(* undo that races the open does not take it back (record_open, Codex on   *)
(* #3664).                                                                 *)
OpensStick ==
  [][stamps.status = "opened" /\ token' = token => stamps'.status = "opened"]_vars

(* send_reminder: falls back to a fresh invitation, which mints a token,   *)
(* only when the last invitation email's link is no longer current.        *)
RemindersKeepTheLink ==
  [][token' # token /\ Len(outbox') > Len(outbox) => ~LinkArrived]_vars

(* regenerate_token: rotates the token, resets the invitation to "pending" *)
(* and clears its sent, opened and last-reminder stamps.                   *)
RegenerateResets ==
  [][token' # token /\ Len(outbox') = Len(outbox) => stamps' = Fresh]_vars

(* _supersede_queued: a send already queued cannot go out with a dead link.*)
ClaimedLinksWork ==
  [][\A m \in DOMAIN outbox :
       outbox[m].status = "queued" /\ outbox'[m].status = "sending"
         => outbox[m].token = token]_vars
=============================================================================
