---------------------- MODULE InvitationDeliveryProofs ----------------------
(***************************************************************************)
(* Proofs about InvitationDelivery, for any number of operators' tabs, of  *)
(* the reviewer's requests, of emails and of tokens.                       *)
(*                                                                         *)
(* The invariant (IInv) rests on two things no guard checks: tokens are    *)
(* minted in the order the rows are queued, so that a newer invitation     *)
(* email carries a newer link than every row before it (TokensGrow); and a *)
(* row belongs to the one request that queued it (OneRequestPerMail), so   *)
(* that nobody else hands it to the transport.                             *)
(***************************************************************************)
EXTENDS InvitationDelivery, SequenceTheorems, TLAPS

Dispatching == {"claim", "send", "accepted", "refused", "unknown", "restore"}
Working(q) == requests[q].step \in Dispatching

TokensGrow ==
  /\ \A m \in DOMAIN outbox : outbox[m].token <= token
  /\ \A m, n \in DOMAIN outbox : m < n =>
       /\ outbox[m].token <= outbox[n].token
       /\ outbox[n].kind = "invitation" => outbox[m].token < outbox[n].token

OneRequestPerMail ==
  \A p, q \in Requests :
    Working(p) /\ Working(q) /\ requests[p].mail = requests[q].mail => p = q

(* Of a row not handed over yet, or refused, no message has arrived. *)
NotArrived ==
  \A q \in Requests : requests[q].step \in {"claim", "send", "refused", "restore"} =>
    requests[q].mail \notin arrived

(* What a request remembers: only an invitation email takes the status to *)
(* "sent", a reminder leaves it.                                          *)
StampsRemembered ==
  \A q \in Requests : Working(q) =>
    \/ requests[q].stamped.status = requests[q].before.status
    \/ requests[q].stamped.status = "sent" /\ outbox[requests[q].mail].kind = "invitation"

(* While an invitation email with the current link may still arrive, the *)
(* invitation is not "pending".                                          *)
SentWhileSending ==
  stamps.status = "pending" =>
    ~ \E q \in Requests :
        /\ requests[q].step \in {"claim", "send"}
        /\ outbox[requests[q].mail].kind = "invitation"
        /\ outbox[requests[q].mail].token = token

IInv ==
  /\ TypeOK /\ TokensGrow /\ OneRequestPerMail /\ NotArrived
  /\ StampsRemembered /\ SentWhileSending /\ PendingMeansUnsent

-----------------------------------------------------------------------------
(* The outbox as a sequence, and what a step makes of it. *)

LEMMA OutboxIsSeq ==
  ASSUME TypeOK
  PROVE  /\ Len(outbox) \in Nat /\ DOMAIN outbox = 1..Len(outbox)
         /\ outbox \in [1..Len(outbox) -> Mails]
         /\ \A m \in DOMAIN outbox : outbox[m] \in Mails
  BY LenProperties DEF TypeOK

SameMails ==
  /\ outbox' \in Seq(Mails) /\ Len(outbox') = Len(outbox) /\ DOMAIN outbox' = DOMAIN outbox
  /\ \A m \in DOMAIN outbox :
       outbox'[m].kind = outbox[m].kind /\ outbox'[m].token = outbox[m].token

LEMMA UnchangedMails == TypeOK /\ UNCHANGED outbox => SameMails
  BY DEF TypeOK, SameMails

LEMMA SetMailKeeps ==
  ASSUME TypeOK, NEW m \in DOMAIN outbox, SetMail(m, "sending") \/ SetMail(m, "sent")
                                            \/ SetMail(m, "failed")
  PROVE  SameMails /\ \A n \in DOMAIN outbox : n # m => outbox'[n] = outbox[n]
<1>1. PICK s \in {"sending", "sent", "failed"} : outbox' = [outbox EXCEPT ![m].status = s]
  BY DEF SetMail
<1>2. [outbox[m] EXCEPT !.status = s] \in Mails
  BY OutboxIsSeq DEF Mails
<1>3. outbox' = [outbox EXCEPT ![m] = [outbox[m] EXCEPT !.status = s]]
  BY <1>1
<1>4. /\ outbox' \in Seq(Mails) /\ Len(outbox') = Len(outbox)
      /\ \A j \in 1..Len(outbox) :
           outbox'[j] = IF j = m THEN [outbox[m] EXCEPT !.status = s] ELSE outbox[j]
  <2> HIDE <1>3
  <2> DEFINE e == [outbox[m] EXCEPT !.status = s]
  <2>1. outbox' = [outbox EXCEPT ![m] = e] /\ e \in Mails
    BY <1>2, <1>3
  <2>2. outbox \in Seq(Mails) /\ m \in 1..Len(outbox)
    BY OutboxIsSeq DEF TypeOK
  <2> HIDE DEF e
  <2>3. /\ outbox' \in Seq(Mails) /\ Len(outbox') = Len(outbox)
        /\ \A j \in 1..Len(outbox) : outbox'[j] = IF j = m THEN e ELSE outbox[j]
    BY <2>1, <2>2, ExceptSeq
  <2> QED
    BY <2>3 DEF e
<1>5. DOMAIN outbox' = DOMAIN outbox
  BY <1>1
<1>6. \A n \in DOMAIN outbox :
        /\ outbox'[n].kind = outbox[n].kind /\ outbox'[n].token = outbox[n].token
        /\ n # m => outbox'[n] = outbox[n]
  BY <1>4, OutboxIsSeq DEF Mails
<1> QED
  BY <1>4, <1>5, <1>6 DEF SameMails

LEMMA SupersedeKeeps ==
  ASSUME TypeOK, SupersedeQueued
  PROVE  SameMails /\ \A m \in DOMAIN outbox : outbox'[m].status # "queued"
<1> DEFINE e(m) == IF outbox[m].status = "queued"
                   THEN [outbox[m] EXCEPT !.status = "failed"] ELSE outbox[m]
<1>1. outbox' = [m \in 1..Len(outbox) |-> e(m)]
  BY OutboxIsSeq DEF SupersedeQueued
<1>2. \A m \in 1..Len(outbox) :
        /\ e(m) \in Mails /\ e(m).kind = outbox[m].kind /\ e(m).token = outbox[m].token
        /\ e(m).status # "queued"
  BY OutboxIsSeq DEF Mails
<1> HIDE DEF e
<1>3. outbox' \in [1..Len(outbox) -> Mails] /\ DOMAIN outbox' = 1..Len(outbox)
  BY <1>1, <1>2
<1>4. outbox' \in Seq(Mails) /\ Len(outbox') = Len(outbox)
  BY <1>3, OutboxIsSeq
<1> QED
  BY <1>1, <1>2, <1>3, <1>4, OutboxIsSeq DEF SameMails

(* A new row at the end, and the rest as it was. *)
NewMail ==
  /\ outbox' \in Seq(Mails) /\ Len(outbox') = NextId /\ DOMAIN outbox' = 1..NextId
  /\ NextId \notin DOMAIN outbox /\ DOMAIN outbox \subseteq DOMAIN outbox'
  /\ \A m \in DOMAIN outbox : outbox'[m] = outbox[m] /\ m < NextId
  /\ outbox'[NextId].token = token'

LEMMA QueueMailAppends ==
  ASSUME TypeOK, token' \in Nat, NEW q \in Requests,
         NEW kind \in {"invitation", "reminder"}, NEW stamped, QueueMail(q, kind, stamped)
  PROVE  NewMail /\ outbox'[NextId].kind = kind /\ outbox'[NextId].status = "queued"
<1> DEFINE e == [kind |-> kind, token |-> token', began |-> requests[q].began,
                 status |-> "queued"]
<1>1. outbox' = Append(outbox, e) /\ e \in Mails
  BY DEF QueueMail, Mails, TypeOK, RequestStates
<1>2. /\ outbox' \in Seq(Mails) /\ Len(outbox') = Len(outbox) + 1
      /\ \A i \in 1..Len(outbox) : outbox'[i] = outbox[i]
      /\ outbox'[Len(outbox) + 1] = e
  <2> HIDE DEF e
  <2> QED
    BY <1>1, OutboxIsSeq, AppendProperties DEF TypeOK
<1>3. DOMAIN outbox' = 1..NextId
  BY <1>2, LenProperties DEF NextId
<1> QED
  BY <1>2, <1>3, OutboxIsSeq DEF NewMail, NextId

-----------------------------------------------------------------------------
(* Types, and the requests: which go on, with what they remember. *)

LEMMA IdleIsState == Idle \in RequestStates /\ Fresh \in Stamps
  BY DEF Idle, RequestStates, Steps, Stamps, Fresh

LEMMA QueuedState ==
  ASSUME NEW m \in Nat, NEW b \in Stamps, NEW s \in Stamps
  PROVE  [step |-> "claim", began |-> 0, mail |-> m, before |-> b, stamped |-> s] \in RequestStates
  BY DEF RequestStates, Steps

LEMMA FinishEffect ==
  ASSUME TypeOK, NEW q \in Requests, Finish(q)
  PROVE  /\ requests' \in [Requests -> RequestStates]
         /\ requests'[q].step = "idle"
         /\ \A p \in Requests : p # q => requests'[p] = requests[p]
<1>1. requests' = [requests EXCEPT ![q] = Idle] /\ requests \in [Requests -> RequestStates]
  BY DEF Finish, TypeOK
<1>2. requests'[q] = Idle /\ requests' \in [Requests -> RequestStates]
  BY <1>1, IdleIsState
<1> QED
  BY <1>1, <1>2 DEF Idle

LEMMA GoToEffect ==
  ASSUME TypeOK, NEW q \in Requests, NEW s \in Steps, GoTo(q, s)
  PROVE  /\ requests' \in [Requests -> RequestStates]
         /\ requests'[q].step = s /\ requests'[q].mail = requests[q].mail
         /\ requests'[q].before = requests[q].before
         /\ requests'[q].stamped = requests[q].stamped
         /\ \A p \in Requests : p # q => requests'[p] = requests[p]
<1>1. requests' = [requests EXCEPT ![q] = [requests[q] EXCEPT !.step = s]]
  BY DEF GoTo
<1>2. requests \in [Requests -> RequestStates] /\ requests[q] \in RequestStates
  BY DEF TypeOK
<1>3. /\ [requests[q] EXCEPT !.step = s] \in RequestStates
      /\ requests'[q] = [requests[q] EXCEPT !.step = s]
  BY <1>1, <1>2 DEF RequestStates
<1> QED
  BY <1>1, <1>2, <1>3 DEF RequestStates

(* A request at work goes on with its row and what it remembers, and steps*)
(* forward only; one that is not does not take up a row.                  *)
KeepsRequests ==
  \A p \in Requests : Working(p)' =>
    /\ Working(p)
    /\ requests'[p].mail = requests[p].mail
    /\ requests'[p].before = requests[p].before
    /\ requests'[p].stamped = requests[p].stamped
    /\ requests'[p].step \in {"claim", "send"} => requests[p].step \in {"claim", "send"}
    /\ requests'[p].step \in {"claim", "send", "refused", "restore"}
         => requests[p].step \in {"claim", "send", "refused", "restore"}

LEMMA WorkingMails ==
  ASSUME TypeOK, NEW q \in Requests
  PROVE  /\ requests[q] \in RequestStates /\ requests[q].before \in Stamps
         /\ requests[q].stamped \in Stamps
         /\ Working(q) => requests[q].mail \in DOMAIN outbox
  BY DEF TypeOK, RequestStates, Working, Dispatching

LEMMA TypesKept ==
  ASSUME TypeOK, SameMails, KeepsRequests, stage' \in Lifecycle!Stages, token' \in Nat,
         stamps' \in Stamps, arrived' \subseteq DOMAIN outbox,
         requests' \in [Requests -> RequestStates], following' \subseteq Followers
  PROVE  TypeOK'
<1>1. ASSUME NEW q \in Requests, requests'[q].step \notin {"idle", "issue", "remind", "regenerate"}
      PROVE  requests'[q].mail \in DOMAIN outbox'
  <2>1. Working(q)'
    BY <1>1 DEF Working, Dispatching, RequestStates, Steps
  <2> QED
    BY <2>1, WorkingMails DEF KeepsRequests, SameMails
<1> QED
  BY <1>1 DEF TypeOK, SameMails

LEMMA FinishKeeps ==
  ASSUME TypeOK, NEW q \in Requests, Finish(q)
  PROVE  KeepsRequests
  BY FinishEffect DEF KeepsRequests, Working, Dispatching

PutsBack(q) ==
  stamps' = [status |-> PutBack(requests[q].before.status, requests[q].stamped.status,
                                stamps.status),
             sentAt |-> PutBack(requests[q].before.sentAt, requests[q].stamped.sentAt,
                                stamps.sentAt),
             opened |-> PutBack(requests[q].before.opened, requests[q].stamped.opened,
                                stamps.opened),
             remindedAt |-> PutBack(requests[q].before.remindedAt,
                                    requests[q].stamped.remindedAt, stamps.remindedAt)]

LEMMA StampsWritten ==
  /\ \A a, l, c \in {"pending", "sent", "opened"} :
       Written(a, l, c) \in {"pending", "sent", "opened"}
       /\ PutBack(a, l, c) \in {"pending", "sent", "opened"}
  /\ \A a, l, c \in Nat : Written(a, l, c) \in Nat /\ PutBack(a, l, c) \in Nat
  /\ \A a, l, c \in BOOLEAN : Written(a, l, c) \in BOOLEAN /\ PutBack(a, l, c) \in BOOLEAN
  BY DEF Written, PutBack

(* Every step but the two that queue a row. *)
OtherStep(q) ==
  \/ BeginSend(q) \/ BeginRemind(q) \/ LoadForRegenerate(q) \/ RegenerateToken(q)
  \/ Claim(q) \/ TransportSend(q) \/ StampOutcome(q)
  \/ RestoreAfterFailedSend(q) \/ RequestEnds(q)

LEMMA OtherStepKeeps ==
  ASSUME TypeOK, NEW q \in Requests, OtherStep(q)
  PROVE  TypeOK' /\ SameMails /\ KeepsRequests
<1>0. ASSUME NEW s \in {"issue", "remind"}, Begin(q, s)
      PROVE  TypeOK' /\ SameMails /\ KeepsRequests
  <2>1. \A t \in Beginnings : t \in Nat
    BY OutboxIsSeq DEF Beginnings, Mails, RequestStates, TypeOK
  <2>2. PICK last \in Beginnings :
          requests' = [requests EXCEPT ![q].step = s, ![q].began = last + 1]
    BY <1>0 DEF Begin
  <2> DEFINE t == last + 1
  <2>2a. t \in Nat
    BY <2>1, <2>2
  <2>2b. requests' = [requests EXCEPT ![q] = [requests[q] EXCEPT !.step = s, !.began = t]]
    BY <2>2
  <2> HIDE DEF t
  <2>3. UNCHANGED <<stage, invitationVars, arrived, following>>
    BY <1>0 DEF Begin
  <2>4. [requests[q] EXCEPT !.step = s, !.began = t] \in RequestStates
    BY <2>2a, WorkingMails DEF RequestStates, Steps
  <2>5. /\ requests' \in [Requests -> RequestStates] /\ requests'[q].step = s
        /\ \A p \in Requests : p # q => requests'[p] = requests[p]
    BY <2>2b, <2>4, WorkingMails DEF TypeOK, RequestStates
  <2>6. KeepsRequests
    BY <2>5 DEF KeepsRequests, Working, Dispatching
  <2> QED
    BY <2>3, <2>5, <2>6, TypesKept, UnchangedMails DEF TypeOK, invitationVars
<1>1. CASE LoadForRegenerate(q)
  <2>1. /\ requests' = [requests EXCEPT ![q] =
                          [requests[q] EXCEPT !.step = "regenerate", !.before = stamps]]
        /\ UNCHANGED <<stage, invitationVars, arrived, following>>
    BY <1>1 DEF LoadForRegenerate
  <2>2. [requests[q] EXCEPT !.step = "regenerate", !.before = stamps] \in RequestStates
    BY WorkingMails DEF TypeOK, RequestStates, Steps
  <2>3. /\ requests' \in [Requests -> RequestStates] /\ requests'[q].step = "regenerate"
        /\ \A p \in Requests : p # q => requests'[p] = requests[p]
    BY <2>1, <2>2, WorkingMails DEF TypeOK, RequestStates
  <2>4. KeepsRequests
    BY <2>3 DEF KeepsRequests, Working, Dispatching
  <2> QED
    BY <2>1, <2>3, <2>4, TypesKept, UnchangedMails DEF TypeOK, invitationVars
<1>2. CASE RegenerateToken(q)
  <2>1. stamps' \in Stamps
    BY <1>2, StampsWritten, WorkingMails DEF RegenerateToken, Stamps, TypeOK
  <2>2. token' \in Nat /\ UNCHANGED <<stage, arrived, following>> /\ SupersedeQueued /\ Finish(q)
    BY <1>2 DEF RegenerateToken, MintToken, TypeOK
  <2> QED
    BY <2>1, <2>2, FinishEffect, FinishKeeps, SupersedeKeeps, TypesKept DEF TypeOK
<1>3. CASE Claim(q)
  <2>1. /\ Working(q) /\ requests[q].step = "claim"
        /\ UNCHANGED <<stage, token, stamps, arrived, following>>
    BY <1>3 DEF Claim, At, Working, Dispatching
  <2>2. CASE SetMail(requests[q].mail, "sending") /\ GoTo(q, "send")
    <3>1. requests' \in [Requests -> RequestStates] /\ KeepsRequests
      BY <2>1, <2>2, GoToEffect DEF KeepsRequests, Working, Dispatching, Steps
    <3> QED
      BY <2>1, <2>2, <3>1, WorkingMails, SetMailKeeps, TypesKept DEF TypeOK
  <2>3. CASE UNCHANGED outbox /\ Finish(q)
    BY <2>1, <2>3, FinishEffect, FinishKeeps, UnchangedMails, TypesKept DEF TypeOK
  <2> QED
    BY <1>3, <2>2, <2>3 DEF Claim
<1>4. CASE TransportSend(q)
  <2>1. /\ Working(q) /\ requests[q].step = "send"
        /\ UNCHANGED <<stage, token, stamps, outbox, following>>
        /\ arrived' \subseteq arrived \cup {requests[q].mail}
    BY <1>4 DEF TransportSend, At, Working, Dispatching, invitationVars
  <2>2. GoTo(q, "accepted") \/ GoTo(q, "refused") \/ GoTo(q, "unknown")
    BY <1>4 DEF TransportSend
  <2>3. requests' \in [Requests -> RequestStates] /\ KeepsRequests
    BY <2>1, <2>2, GoToEffect DEF KeepsRequests, Working, Dispatching, Steps
  <2> QED
    BY <2>1, <2>3, WorkingMails, UnchangedMails, TypesKept DEF TypeOK
<1>5. CASE StampOutcome(q)
  <2>0. UNCHANGED <<stage, token, stamps, arrived, following>>
    BY <1>5 DEF StampOutcome
  <2>1. /\ requests[q].step \in {"accepted", "unknown", "refused"}
        /\ SetMail(requests[q].mail, "sent") \/ SetMail(requests[q].mail, "failed")
        /\ Finish(q) \/ (requests[q].step = "refused" /\ GoTo(q, "restore"))
    <3>1. CASE At(q, "accepted") /\ SetMail(requests[q].mail, "sent") /\ Finish(q)
      BY <3>1 DEF At
    <3>2. CASE At(q, "unknown") /\ SetMail(requests[q].mail, "failed") /\ Finish(q)
      BY <3>2 DEF At
    <3>3. CASE At(q, "refused") /\ SetMail(requests[q].mail, "failed") /\ GoTo(q, "restore")
      BY <3>3 DEF At
    <3> QED
      BY <1>5, <3>1, <3>2, <3>3, Zenon DEF StampOutcome
  <2>3. Working(q)
    BY <2>1 DEF Working, Dispatching
  <2>2. requests' \in [Requests -> RequestStates] /\ KeepsRequests
    BY <2>1, GoToEffect, FinishEffect, FinishKeeps DEF KeepsRequests, Working, Dispatching, Steps
  <2> QED
    BY <2>0, <2>1, <2>2, <2>3, WorkingMails, SetMailKeeps, TypesKept DEF TypeOK
<1>6. CASE RestoreAfterFailedSend(q)
  <2>1. Finish(q) /\ UNCHANGED <<stage, token, outbox, arrived, following>>
    BY <1>6 DEF RestoreAfterFailedSend
  <2>2. stamps' \in Stamps
    <3>1. stamps' = stamps \/ PutsBack(q)
      BY <1>6 DEF RestoreAfterFailedSend, PutsBack
    <3>2. /\ requests[q].before \in Stamps /\ requests[q].stamped \in Stamps
          /\ stamps \in Stamps
      BY WorkingMails DEF TypeOK
    <3> QED
      BY <3>1, <3>2 DEF PutsBack, PutBack, Stamps
  <2> QED
    BY <2>1, <2>2, FinishEffect, FinishKeeps, UnchangedMails, TypesKept DEF TypeOK
<1>7. CASE RequestEnds(q)
  BY <1>7, FinishEffect, FinishKeeps, UnchangedMails, TypesKept
  DEF RequestEnds, TypeOK, invitationVars
<1> QED
  BY <1>0, <1>1, <1>2, <1>3, <1>4, <1>5, <1>6, <1>7 DEF OtherStep, BeginSend, BeginRemind

(* The steps that are nobody's request. *)
FreeStep ==
  \/ RegenerateAllTokens \/ StageMoves \/ UNCHANGED vars
  \/ \E w \in Followers : Follow(w) \/ RecordOpen(w) \/ FollowEnds(w)

LEMMA FreeStepKeeps ==
  ASSUME TypeOK, FreeStep
  PROVE  TypeOK' /\ SameMails /\ KeepsRequests
<1>1. CASE RegenerateAllTokens
  <2>1. KeepsRequests /\ token' \in Nat
    BY <1>1 DEF RegenerateAllTokens, KeepsRequests, Working, MintToken, TypeOK
  <2> QED
    BY <1>1, <2>1, IdleIsState, SupersedeKeeps, TypesKept DEF RegenerateAllTokens, TypeOK
<1>2. CASE StageMoves
  <2>1. KeepsRequests /\ SameMails
    BY <1>2, UnchangedMails DEF StageMoves, KeepsRequests, Working, invitationVars
  <2>2. stage' \in Lifecycle!Stages
    BY <1>2 DEF StageMoves, Lifecycle!Move, Lifecycle!Moves, Lifecycle!Stages, TypeOK
  <2> QED
    BY <1>2, <2>1, <2>2, TypesKept DEF StageMoves, invitationVars, TypeOK
<1>3. CASE UNCHANGED vars
  BY <1>3, UnchangedMails DEF vars, TypeOK, KeepsRequests, Working
<1>4. ASSUME NEW w \in Followers, Follow(w) \/ FollowEnds(w) \/ RecordOpen(w)
      PROVE  TypeOK' /\ SameMails /\ KeepsRequests
  <2>1. /\ KeepsRequests /\ SameMails
        /\ UNCHANGED <<stage, token, arrived, requests>> /\ following' \subseteq Followers
    BY <1>4, UnchangedMails
    DEF Follow, FollowEnds, RecordOpen, invitationVars, KeepsRequests, Working, TypeOK
  <2>2. stamps' \in Stamps
    BY <1>4 DEF Follow, FollowEnds, RecordOpen, invitationVars, Stamps, TypeOK
  <2> QED
    BY <2>1, <2>2, TypesKept DEF TypeOK
<1> QED
  BY <1>1, <1>2, <1>3, <1>4 DEF FreeStep

(* The two that queue a row: a fresh invitation with a new token, or a     *)
(* reminder with the current one, and a request that goes to work on it.   *)
Queues(q) ==
  /\ requests[q].step \in {"issue", "remind"}
  /\ NewMail /\ stamps' \in Stamps /\ token' \in Nat
  /\ requests' = [requests EXCEPT ![q] =
       [step |-> "claim", began |-> 0, mail |-> NextId, before |-> stamps, stamped |-> stamps']]
  /\ \/ /\ outbox'[NextId].kind = "invitation"
        /\ token' = token + 1 /\ stamps'.status = "sent"
     \/ /\ outbox'[NextId].kind = "reminder"
        /\ token' = token /\ stamps'.status = stamps.status
  /\ UNCHANGED <<stage, arrived, following>>

LEMMA QueueSteps ==
  ASSUME TypeOK, NEW q \in Requests, Send(q) \/ Remind(q)
  PROVE  Queues(q)
<1> DEFINE invited == [StampedBySend EXCEPT !.remindedAt = NextId]
           reminded == [stamps EXCEPT !.remindedAt = NextId]
<1>1. NextId \in Nat
  BY OutboxIsSeq DEF NextId
<1>2. /\ StampedBySend \in Stamps /\ StampedBySend.status = "sent"
      /\ invited \in Stamps /\ invited.status = "sent"
      /\ reminded \in Stamps /\ reminded.status = stamps.status
  BY <1>1 DEF TypeOK, StampedBySend, Stamps
<1>3. UNCHANGED <<stage, arrived, following>> /\ requests[q].step \in {"issue", "remind"}
  BY DEF Send, Remind, At
<1>4. \/ MintToken /\ QueueMail(q, "invitation", StampedBySend)
      \/ UNCHANGED token /\ QueueMail(q, "reminder", reminded)
      \/ MintToken /\ QueueMail(q, "invitation", invited)
  BY Zenon DEF Send, Remind
<1> HIDE DEF invited, reminded
<1>5. token' \in Nat
  BY <1>4 DEF MintToken, TypeOK
<1>6. CASE MintToken /\ QueueMail(q, "invitation", StampedBySend)
  BY <1>2, <1>3, <1>5, <1>6, QueueMailAppends DEF Queues, QueueMail, MintToken
<1>7. CASE UNCHANGED token /\ QueueMail(q, "reminder", reminded)
  BY <1>2, <1>3, <1>5, <1>7, QueueMailAppends DEF Queues, QueueMail
<1>8. CASE MintToken /\ QueueMail(q, "invitation", invited)
  BY <1>2, <1>3, <1>5, <1>8, QueueMailAppends DEF Queues, QueueMail, MintToken
<1> QED
  BY <1>4, <1>6, <1>7, <1>8

LEMMA QueuesRequest ==
  ASSUME TypeOK, NEW q \in Requests, Queues(q)
  PROVE  /\ ~Working(q) /\ requests' \in [Requests -> RequestStates]
         /\ requests'[q].step = "claim" /\ requests'[q].mail = NextId
         /\ requests'[q].before = stamps /\ requests'[q].stamped = stamps'
         /\ \A p \in Requests : p # q => requests'[p] = requests[p]
<1>1. [step |-> "claim", began |-> 0, mail |-> NextId, before |-> stamps, stamped |-> stamps']
        \in RequestStates
  <2>1. NextId \in Nat /\ stamps \in Stamps /\ stamps' \in Stamps
    BY OutboxIsSeq DEF Queues, NextId, TypeOK
  <2> QED
    BY <2>1, QueuedState
<1> QED
  BY <1>1 DEF Queues, Working, Dispatching, TypeOK

LEMMA QueuesType ==
  ASSUME TypeOK, NEW q \in Requests, Queues(q)
  PROVE  TypeOK'
<1>1. ASSUME NEW p \in Requests, requests'[p].step \notin {"idle", "issue", "remind", "regenerate"}
      PROVE  requests'[p].mail \in DOMAIN outbox'
  <2>0. NextId \in 1..NextId /\ DOMAIN outbox' = 1..NextId
    BY OutboxIsSeq DEF Queues, NewMail, NextId
  <2>1. CASE p = q
    BY <2>0, <2>1, QueuesRequest
  <2>2. CASE p # q
    BY <1>1, <2>2, QueuesRequest DEF Queues, NewMail, TypeOK
  <2> QED
    BY <2>1, <2>2
<1> QED
  BY <1>1, QueuesRequest DEF Queues, NewMail, TypeOK

(* Next is one of the three. *)
LEMMA StepKinds ==
  ASSUME TypeOK, [Next]_vars
  PROVE  \/ \E q \in Requests : Queues(q)
         \/ \E q \in Requests : OtherStep(q)
         \/ FreeStep
  BY QueueSteps, Zenon DEF Next, RequestStep, OtherStep, FreeStep

LEMMA TypeStep == TypeOK /\ [Next]_vars => TypeOK'
  BY StepKinds, QueuesType, OtherStepKeeps, FreeStepKeeps

-----------------------------------------------------------------------------
(* Tokens, rows and requests. *)

LEMMA TokenEffects ==
  ASSUME TypeOK, (\E q \in Requests : OtherStep(q)) \/ FreeStep
  PROVE  token' = token \/ token' = token + 1
<1>1. ASSUME NEW q \in Requests, OtherStep(q) PROVE token' = token \/ token' = token + 1
  BY <1>1 DEF OtherStep, BeginSend, BeginRemind, Begin, LoadForRegenerate, RegenerateToken,
     MintToken, Claim, TransportSend, StampOutcome, RestoreAfterFailedSend, RequestEnds,
     invitationVars
<1>2. CASE FreeStep
  BY <1>2 DEF FreeStep, RegenerateAllTokens, MintToken, StageMoves, vars, Follow, RecordOpen,
     FollowEnds, invitationVars
<1> QED
  BY <1>1, <1>2

LEMMA TokensGrowKept ==
  ASSUME TypeOK, TokensGrow, [Next]_vars
  PROVE  TokensGrow'
<1>1. ASSUME NEW q \in Requests, Queues(q) PROVE TokensGrow'
  <2>1. \A m \in DOMAIN outbox' : m = NextId \/ m \in DOMAIN outbox
    BY <1>1, OutboxIsSeq DEF Queues, NewMail, NextId
  <2>2. /\ token' \in Nat /\ token \in Nat /\ token <= token'
        /\ \A m \in DOMAIN outbox : outbox[m].token \in Nat /\ m \in Nat
        /\ NextId \in Nat
    BY <1>1, OutboxIsSeq DEF Queues, TypeOK, NextId, Mails
  <2>3. \A m \in DOMAIN outbox' : outbox'[m].token <= token'
    BY <1>1, <2>1, <2>2 DEF Queues, NewMail, TokensGrow
  <2>4. ASSUME NEW m \in DOMAIN outbox', NEW n \in DOMAIN outbox', m < n
        PROVE  /\ outbox'[m].token <= outbox'[n].token
               /\ outbox'[n].kind = "invitation" => outbox'[m].token < outbox'[n].token
    <3>1. m \in DOMAIN outbox
      BY <1>1, <2>1, <2>2, <2>4 DEF Queues, NewMail
    <3>2. CASE n \in DOMAIN outbox
      BY <1>1, <2>4, <3>1, <3>2 DEF Queues, NewMail, TokensGrow
    <3>3. CASE n = NextId
      <4>1. outbox'[m] = outbox[m] /\ outbox'[n].token = token' /\ outbox[m].token <= token
        BY <1>1, <3>1, <3>3 DEF Queues, NewMail, TokensGrow
      <4>2. outbox'[n].kind = "invitation" => token' = token + 1
        BY <1>1, <3>3 DEF Queues
      <4> QED
        BY <2>2, <3>1, <4>1, <4>2
    <3> QED
      BY <2>1, <3>2, <3>3
  <2> QED
    BY <2>3, <2>4 DEF TokensGrow
<1>2. ASSUME SameMails, token' = token \/ token' = token + 1 PROVE TokensGrow'
  <2>1. \A m \in DOMAIN outbox : outbox[m].token \in Nat
    BY OutboxIsSeq DEF Mails
  <2>2. token \in Nat /\ token <= token'
    BY <1>2 DEF TypeOK
  <2> QED
    BY <1>2, <2>1, <2>2 DEF TokensGrow, SameMails
<1> QED
  BY <1>1, <1>2, StepKinds, TokenEffects, OtherStepKeeps, FreeStepKeeps

LEMMA OneRequestPerMailKept ==
  ASSUME TypeOK, OneRequestPerMail, [Next]_vars
  PROVE  OneRequestPerMail'
<1>1. ASSUME NEW q \in Requests, Queues(q) PROVE OneRequestPerMail'
  <2>1. \A p \in Requests : p # q /\ Working(p)' => requests'[p].mail # NextId
    BY <1>1, QueuesRequest, WorkingMails DEF Queues, NewMail, Working
  <2> QED
    BY <1>1, <2>1, QueuesRequest DEF OneRequestPerMail, Working
<1>2. ASSUME KeepsRequests PROVE OneRequestPerMail'
  BY <1>2 DEF KeepsRequests, OneRequestPerMail
<1> QED
  BY <1>1, <1>2, StepKinds, OtherStepKeeps, FreeStepKeeps

LEMMA StampsRememberedKept ==
  ASSUME TypeOK, StampsRemembered, [Next]_vars
  PROVE  StampsRemembered'
<1>1. ASSUME NEW q \in Requests, Queues(q) PROVE StampsRemembered'
  <2>1. ASSUME NEW p \in Requests, Working(p)'
        PROVE  \/ requests'[p].stamped.status = requests'[p].before.status
               \/ /\ requests'[p].stamped.status = "sent"
                  /\ outbox'[requests'[p].mail].kind = "invitation"
    <3>1. CASE p = q
      BY <1>1, <3>1, QueuesRequest DEF Queues
    <3>2. CASE p # q
      BY <1>1, <2>1, <3>2, QueuesRequest, WorkingMails
      DEF Queues, NewMail, StampsRemembered, Working
    <3> QED
      BY <3>1, <3>2
  <2> QED
    BY <2>1 DEF StampsRemembered
<1>2. ASSUME KeepsRequests, SameMails PROVE StampsRemembered'
  BY <1>2, WorkingMails DEF KeepsRequests, SameMails, StampsRemembered
<1> QED
  BY <1>1, <1>2, StepKinds, OtherStepKeeps, FreeStepKeeps

(* A mailbox receives a row at its transport's step only. *)
LEMMA Arrivals ==
  ASSUME TypeOK, [Next]_vars, arrived' # arrived
  PROVE  \E q \in Requests :
           /\ TransportSend(q) /\ requests[q].step = "send"
           /\ arrived' = arrived \cup {requests[q].mail}
           /\ requests'[q].step \in {"accepted", "unknown"}
           /\ UNCHANGED <<token, stamps, outbox>>
<1>1. PICK q \in Requests : TransportSend(q)
  BY DEF Next, RequestStep, BeginSend, BeginRemind, Begin, Send, Remind, LoadForRegenerate,
     RegenerateToken, Claim, StampOutcome, RestoreAfterFailedSend, RequestEnds,
     RegenerateAllTokens, Follow,
     RecordOpen, FollowEnds, StageMoves, vars
<1>2. /\ requests[q].step = "send" /\ UNCHANGED <<token, stamps, outbox>>
      /\ arrived' = arrived \cup {requests[q].mail}
      /\ GoTo(q, "accepted") \/ GoTo(q, "unknown")
  BY <1>1 DEF TransportSend, At, invitationVars
<1>3. requests'[q].step \in {"accepted", "unknown"}
  BY <1>2, GoToEffect DEF Steps
<1> QED
  BY <1>1, <1>2, <1>3

LEMMA NotArrivedKept ==
  ASSUME TypeOK, OneRequestPerMail, NotArrived, [Next]_vars
  PROVE  NotArrived'
<1>1. ASSUME NEW q \in Requests, Queues(q) PROVE NotArrived'
  <2>1. NextId \notin arrived' /\ arrived' = arrived
    BY <1>1 DEF Queues, NewMail, TypeOK
  <2> QED
    BY <1>1, <2>1, QueuesRequest DEF NotArrived
<1>2. ASSUME KeepsRequests, arrived' = arrived PROVE NotArrived'
  BY <1>2 DEF KeepsRequests, NotArrived, Working, Dispatching
<1>3. ASSUME KeepsRequests, arrived' # arrived PROVE NotArrived'
  <2>1. PICK q \in Requests :
          /\ TransportSend(q) /\ requests[q].step = "send"
          /\ arrived' = arrived \cup {requests[q].mail}
          /\ requests'[q].step \in {"accepted", "unknown"}
    BY <1>3, Arrivals
  <2>2. ASSUME NEW p \in Requests, requests'[p].step \in {"claim", "send", "refused", "restore"}
        PROVE  requests'[p].mail \notin arrived'
    <3>1. p # q /\ Working(p) /\ Working(q) /\ requests'[p].mail = requests[p].mail
      BY <1>3, <2>1, <2>2 DEF KeepsRequests, Working, Dispatching
    <3>2. requests[p].mail # requests[q].mail /\ requests[p].mail \notin arrived
      BY <1>3, <2>2, <3>1 DEF OneRequestPerMail, NotArrived, KeepsRequests, Working, Dispatching
    <3> QED
      BY <2>1, <3>1, <3>2
  <2> QED
    BY <2>2 DEF NotArrived
<1> QED
  BY <1>1, <1>2, <1>3, StepKinds, OtherStepKeeps, FreeStepKeeps

(* What changes the status and not the link: a reviewer's open, and an undo. *)
Undoes(q) ==
  /\ requests[q].step = "restore" /\ requests'[q].step = "idle"
  /\ requests[q].mail = Len(outbox) /\ outbox[requests[q].mail].status = "failed"
  /\ requests[q].stamped.status = stamps.status
  /\ requests[q].before.status = stamps'.status
  /\ UNCHANGED <<outbox, arrived>>

LEMMA StatusEffects ==
  ASSUME TypeOK, [Next]_vars, token' = token, stamps'.status # stamps.status
  PROVE  stamps'.status = "opened" \/ \E q \in Requests : Undoes(q)
<1>1. ASSUME NEW q \in Requests, Queues(q) PROVE FALSE
  BY <1>1 DEF Queues, TypeOK
<1>2. ASSUME NEW q \in Requests, OtherStep(q) PROVE Undoes(q)
  <2>0. ~ RegenerateToken(q)
    <3>1. ~ MintToken
      BY DEF MintToken, TypeOK
    <3> QED
      BY <3>1, Zenon DEF RegenerateToken
  <2>1. RestoreAfterFailedSend(q)
    BY <1>2, <2>0 DEF OtherStep, BeginSend, BeginRemind, Begin, LoadForRegenerate, Claim,
       TransportSend, StampOutcome, RequestEnds, invitationVars
  <2>2. /\ requests[q].step = "restore" /\ Finish(q) /\ UNCHANGED <<outbox, arrived>>
        /\ requests[q].mail = Len(outbox) /\ outbox[requests[q].mail].status = "failed"
        /\ PutsBack(q)
    BY <2>1 DEF RestoreAfterFailedSend, PutsBack, At
  <2>3. /\ requests[q].stamped.status = stamps.status
        /\ requests[q].before.status = stamps'.status
    BY <2>2 DEF PutsBack, PutBack
  <2> QED
    BY <2>2, <2>3, FinishEffect DEF Undoes
<1>3. CASE FreeStep
  <2>1. PICK w \in Followers : RecordOpen(w)
    BY <1>3 DEF FreeStep, RegenerateAllTokens, MintToken, StageMoves, vars, Follow,
       FollowEnds, invitationVars, TypeOK
  <2> QED
    BY <2>1 DEF RecordOpen, Stamps, TypeOK
<1> QED
  BY <1>1, <1>2, <1>3, StepKinds

(* An invitation email that is the newest row is the only one with its link. *)
LEMMA NewestAlone ==
  ASSUME TypeOK, TokensGrow, NEW n \in DOMAIN outbox, n = Len(outbox),
         outbox[n].kind = "invitation", NEW m \in DOMAIN outbox, outbox[m].token = token
  PROVE  m = n
<1>1. /\ m \in 1..Len(outbox) /\ outbox[m].token \in Nat /\ outbox[n].token \in Nat
      /\ token \in Nat /\ Len(outbox) \in Nat
  BY OutboxIsSeq DEF Mails, TypeOK
<1> QED
  BY <1>1 DEF TokensGrow

(* An undo that brings "pending" back undoes the newest row, an invitation *)
(* that was refused: no other row has the link.                            *)
LEMMA UndoneAlone ==
  ASSUME IInv, NEW q \in Requests, Undoes(q), stamps'.status = "pending",
         stamps.status # "pending"
  PROVE  /\ requests[q].mail \notin arrived
         /\ \A m \in DOMAIN outbox : outbox[m].token = token => m = requests[q].mail
<1>1. Working(q) /\ requests[q].mail \in DOMAIN outbox /\ requests[q].mail \notin arrived
  BY WorkingMails DEF Undoes, IInv, NotArrived, Working, Dispatching
<1>2. outbox[requests[q].mail].kind = "invitation"
  BY <1>1 DEF IInv, StampsRemembered, Undoes
<1> QED
  BY <1>1, <1>2, NewestAlone DEF Undoes, IInv

(* A step that queues nothing leaves no row with a link it minted. *)
LEMMA MintedIsFresh ==
  ASSUME TypeOK, TokensGrow, token' = token + 1, NEW m \in DOMAIN outbox
  PROVE  outbox[m].token # token'
<1>1. outbox[m].token \in Nat /\ token \in Nat
  BY OutboxIsSeq DEF Mails, TypeOK
<1> QED
  BY <1>1 DEF TokensGrow

LEMMA SentWhileSendingKept ==
  ASSUME IInv, [Next]_vars
  PROVE  SentWhileSending'
<1>0. TypeOK /\ TokensGrow
  BY DEF IInv
<1> SUFFICES ASSUME stamps'.status = "pending", NEW q \in Requests,
                    requests'[q].step \in {"claim", "send"},
                    outbox'[requests'[q].mail].kind = "invitation",
                    outbox'[requests'[q].mail].token = token'
             PROVE  FALSE
  BY DEF SentWhileSending
<1>1. ASSUME NEW p \in Requests, Queues(p) PROVE FALSE
  <2>1. outbox'[NextId].kind = "reminder" /\ token' = token /\ stamps'.status = stamps.status
    BY <1>1 DEF Queues
  <2>2. p # q
    BY <1>0, <1>1, <2>1, QueuesRequest
  <2>3. requests'[q] = requests[q] /\ requests[q].mail \in DOMAIN outbox
    BY <1>0, <1>1, <2>2, QueuesRequest, WorkingMails DEF Working, Dispatching
  <2> QED
    BY <1>1, <2>1, <2>3 DEF IInv, SentWhileSending, Queues, NewMail
<1>2. ASSUME SameMails, KeepsRequests, token' = token \/ token' = token + 1 PROVE FALSE
  <2>1. /\ Working(q) /\ requests[q].step \in {"claim", "send"}
        /\ requests'[q].mail = requests[q].mail
    BY <1>2 DEF KeepsRequests, Working, Dispatching
  <2>2. requests[q].mail \in DOMAIN outbox
    BY <1>0, <2>1, WorkingMails
  <2>3. /\ outbox[requests[q].mail].kind = "invitation"
        /\ outbox[requests[q].mail].token = token /\ token' = token
    BY <1>0, <1>2, <2>1, <2>2, MintedIsFresh DEF SameMails
  <2>4. stamps.status # "pending"
    BY <2>1, <2>3 DEF IInv, SentWhileSending
  <2>5. PICK p \in Requests : Undoes(p)
    BY <1>0, <2>3, <2>4, StatusEffects
  <2>6. requests[p].mail = requests[q].mail
    BY <2>2, <2>3, <2>4, <2>5, UndoneAlone
  <2>7. Working(p) /\ p # q
    BY <2>1, <2>5 DEF Undoes, Working, Dispatching
  <2> QED
    BY <2>1, <2>6, <2>7 DEF IInv, OneRequestPerMail
<1> QED
  BY <1>0, <1>1, <1>2, StepKinds, TokenEffects, OtherStepKeeps, FreeStepKeeps

LEMMA PendingMeansUnsentKept ==
  ASSUME IInv, [Next]_vars
  PROVE  PendingMeansUnsent'
<1>0. TypeOK /\ TokensGrow
  BY DEF IInv
<1> SUFFICES ASSUME stamps'.status = "pending", NEW m \in arrived',
                    outbox'[m].kind = "invitation", outbox'[m].token = token'
             PROVE  FALSE
  BY DEF PendingMeansUnsent, LinkArrived
<1>1. ASSUME NEW p \in Requests, Queues(p) PROVE FALSE
  <2>1. token' = token /\ stamps'.status = stamps.status
    BY <1>1 DEF Queues
  <2>2. m \in arrived /\ m \in DOMAIN outbox
    BY <1>0, <1>1 DEF Queues, TypeOK
  <2> QED
    BY <1>1, <2>1, <2>2 DEF IInv, PendingMeansUnsent, LinkArrived, Queues, NewMail
<1>2. ASSUME SameMails, TypeOK', token' = token \/ token' = token + 1 PROVE FALSE
  <2>1. m \in DOMAIN outbox
    BY <1>2 DEF TypeOK, SameMails
  <2>2. outbox[m].kind = "invitation" /\ outbox[m].token = token /\ token' = token
    BY <1>0, <1>2, <2>1, MintedIsFresh DEF SameMails
  <2>3. CASE stamps.status # "pending"
    <3>1. PICK p \in Requests : Undoes(p)
      BY <1>0, <2>2, <2>3, StatusEffects
    <3>2. m = requests[p].mail /\ requests[p].mail \notin arrived
      BY <2>1, <2>2, <2>3, <3>1, UndoneAlone
    <3> QED
      BY <3>1, <3>2 DEF Undoes
  <2>4. CASE stamps.status = "pending"
    <3>1. m \notin arrived
      BY <2>2, <2>4 DEF IInv, PendingMeansUnsent, LinkArrived
    <3>2. PICK q \in Requests :
            requests[q].step = "send" /\ arrived' = arrived \cup {requests[q].mail}
      BY <1>0, <3>1, Arrivals
    <3> QED
      BY <2>2, <2>4, <3>1, <3>2 DEF IInv, SentWhileSending
  <2> QED
    BY <2>3, <2>4
<1> QED
  BY <1>0, <1>1, <1>2, StepKinds, TokenEffects, OtherStepKeeps, FreeStepKeeps

LEMMA InvStep == IInv /\ [Next]_vars => IInv'
  BY TypeStep, TokensGrowKept, OneRequestPerMailKept, NotArrivedKept, StampsRememberedKept,
     SentWhileSendingKept, PendingMeansUnsentKept DEF IInv

LEMMA InvInit == Init => IInv
<1> SUFFICES ASSUME Init PROVE IInv
  OBVIOUS
<1>1. \A q \in Requests : requests[q].step = "idle"
  BY DEF Init, Idle
<1>2. outbox \in Seq(Mails) /\ DOMAIN outbox = {}
  BY DEF Init
<1>3. TypeOK
  BY <1>1, <1>2, IdleIsState DEF Init, TypeOK, Lifecycle!Stages
<1> QED
  BY <1>1, <1>2, <1>3 DEF Init, IInv, TokensGrow, OneRequestPerMail, NotArrived,
     StampsRemembered, SentWhileSending, PendingMeansUnsent, LinkArrived, Working, Dispatching

-----------------------------------------------------------------------------
(* Statuses, steps and references stay of their types (invitations.py,     *)
(* email_dispatch.py).                                                     *)
THEOREM TypeCorrect == Spec => []TypeOK
<1>1. Spec => []IInv
  BY InvInit, InvStep, PTL DEF Spec
<1>2. IInv => TypeOK
  BY DEF IInv
<1> QED
  BY <1>1, <1>2, PTL

(* "pending", which offers Send, means that no invitation email with the   *)
(* current link reached the reviewer, whatever was refused and undone      *)
(* (restore_after_failed_send, REFUSED_KINDS).                             *)
THEOREM PendingIsUnsent == Spec => []PendingMeansUnsent
<1>1. Spec => []IInv
  BY InvInit, InvStep, PTL DEF Spec
<1>2. IInv => PendingMeansUnsent
  BY DEF IInv
<1> QED
  BY <1>1, <1>2, PTL

(* An undo that brings Send back leaves no email with the current link     *)
(* under way or arrived (restore_after_failed_send, the newer email).      *)
THEOREM UndosKillNoLiveLink == Spec => UndoKillsNoLiveLink
<1> DEFINE P == stamps.status # "pending" /\ stamps'.status = "pending" /\ token' = token
                  => \A m \in DOMAIN outbox : ~IsLive(m)
<1>1. IInv /\ [Next]_vars => [P]_vars
  <2> SUFFICES ASSUME IInv, [Next]_vars, stamps.status # "pending",
                      stamps'.status = "pending", token' = token,
                      NEW m \in DOMAIN outbox, outbox[m].token = token
               PROVE  outbox[m].status = "failed" /\ m \notin arrived
    BY DEF IsLive
  <2>1. PICK q \in Requests : Undoes(q)
    BY StatusEffects DEF IInv
  <2>2. m = requests[q].mail /\ m \notin arrived
    BY <2>1, UndoneAlone
  <2> QED
    BY <2>1, <2>2 DEF Undoes
<1>2. Spec => []IInv
  BY InvInit, InvStep, PTL DEF Spec
<1> QED
  BY <1>1, <1>2, PTL DEF Spec, UndoKillsNoLiveLink

(* An open of the current link is not taken back by an undo that races it  *)
(* (record_open, restore_after_failed_send).                               *)
THEOREM OpensAreKept == Spec => OpensStick
<1> DEFINE P == stamps.status = "opened" /\ token' = token => stamps'.status = "opened"
<1>1. IInv /\ [Next]_vars => [P]_vars
  <2> SUFFICES ASSUME IInv, [Next]_vars, stamps.status = "opened", token' = token,
                      stamps'.status # "opened"
               PROVE  FALSE
    OBVIOUS
  <2>1. PICK q \in Requests : Undoes(q)
    BY StatusEffects DEF IInv
  <2>2. Working(q)
    BY <2>1 DEF Undoes, Working, Dispatching
  <2> QED
    BY <2>1, <2>2 DEF IInv, StampsRemembered, Undoes
<1>2. Spec => []IInv
  BY InvInit, InvStep, PTL DEF Spec
<1> QED
  BY <1>1, <1>2, PTL DEF Spec, OpensStick

(* No fresh invitation takes the place of a link an invitation email       *)
(* brought the reviewer: only a Regenerate kills it (send_one_invitation,  *)
(* send_one_reminder, current_invite_url), while the rows' transactions    *)
(* began in the order of the rows.                                         *)
THEOREM FreshMailIsSafe == Spec => FreshMailKillsNoInvitation
<1> DEFINE P == token' # token /\ Len(outbox') > Len(outbox) /\ CreatedInOrder
                  => ~LinkArrived
<1>1. IInv /\ [Next]_vars => [P]_vars
  <2> SUFFICES ASSUME IInv, [Next]_vars, token' # token, Len(outbox') > Len(outbox),
                      CreatedInOrder, NEW m \in arrived, outbox[m].kind = "invitation",
                      outbox[m].token = token
               PROVE  FALSE
    BY DEF LinkArrived
  <2>0. TypeOK /\ m \in DOMAIN outbox
    BY DEF IInv, TypeOK
  <2>1. LinkIsCurrent
    <3>1. ASSUME NEW n \in DOMAIN outbox, outbox[n].kind = "invitation"
          PROVE  outbox[n].began <= outbox[m].began
      <4>1. /\ outbox[m].token \in Nat /\ outbox[n].token \in Nat /\ token \in Nat
            /\ m \in Nat /\ n \in Nat /\ outbox[m].began \in Nat
        BY <2>0, OutboxIsSeq DEF Mails, TypeOK
      <4>2. n <= m
        BY <2>0, <3>1, <4>1 DEF IInv, TokensGrow
      <4> QED
        BY <2>0, <4>1, <4>2 DEF CreatedInOrder
    <3> QED
      BY <2>0, <3>1 DEF LinkIsCurrent
  <2>2. ~ SameMails
    BY <2>0, OutboxIsSeq DEF SameMails
  <2>3. PICK q \in Requests : Send(q) \/ Remind(q)
    BY <2>0, <2>2, OtherStepKeeps, FreeStepKeeps, Zenon
    DEF Next, RequestStep, OtherStep, FreeStep
  <2>4. Send(q)
    BY <2>1, <2>3 DEF Remind
  <2> QED
    BY <2>0, <2>4 DEF Send, IInv, PendingMeansUnsent, LinkArrived
<1>2. Spec => []IInv
  BY InvInit, InvStep, PTL DEF Spec
<1> QED
  BY <1>1, <1>2, PTL DEF Spec, FreshMailKillsNoInvitation

(* No row is queued again, and a step that mints a link without queueing a *)
(* row leaves none queued.                                                 *)
LEMMA QueuedStays ==
  ASSUME TypeOK, (\E q \in Requests : OtherStep(q)) \/ FreeStep
  PROVE  \/ \A m \in DOMAIN outbox : outbox'[m].status # "queued"
         \/ /\ token' = token
            /\ \A m \in DOMAIN outbox :
                 outbox'[m].status = "queued" => outbox[m].status = "queued"
<1>1. CASE SupersedeQueued
  BY <1>1, SupersedeKeeps
<1>2. CASE UNCHANGED <<token, outbox>>
  BY <1>2
<1>3. ASSUME NEW q \in Requests, Working(q), token' = token,
             \/ SetMail(requests[q].mail, "sending") \/ SetMail(requests[q].mail, "sent")
             \/ SetMail(requests[q].mail, "failed")
      PROVE  \A m \in DOMAIN outbox :
               outbox'[m].status = "queued" => outbox[m].status = "queued"
  <2>1. requests[q].mail \in DOMAIN outbox /\ \A m \in DOMAIN outbox : outbox[m] \in Mails
    BY <1>3, WorkingMails, OutboxIsSeq
  <2>2. PICK s \in {"sending", "sent", "failed"} : SetMail(requests[q].mail, s)
    BY <1>3
  <2> QED
    BY <2>1, <2>2 DEF SetMail, Mails
<1>4. ASSUME NEW q \in Requests, OtherStep(q)
      PROVE  \/ SupersedeQueued \/ UNCHANGED <<token, outbox>>
             \/ /\ Working(q) /\ token' = token
                /\ \/ SetMail(requests[q].mail, "sending") \/ SetMail(requests[q].mail, "sent")
                   \/ SetMail(requests[q].mail, "failed")
  BY <1>4 DEF OtherStep, BeginSend, BeginRemind, Begin, LoadForRegenerate, RegenerateToken,
     Claim, TransportSend, StampOutcome, RestoreAfterFailedSend, RequestEnds, invitationVars,
     At, Working, Dispatching
<1>5. CASE FreeStep
  BY <1>1, <1>2, <1>5 DEF FreeStep, RegenerateAllTokens, StageMoves, vars, Follow, RecordOpen,
     FollowEnds, invitationVars
<1> QED
  BY <1>1, <1>2, <1>3, <1>4, <1>5

LEMMA QueuedLinksStep ==
  ASSUME TypeOK, QueuedLinksAreCurrentOrReplaced, [Next]_vars
  PROVE  QueuedLinksAreCurrentOrReplaced'
<1>1. ASSUME NEW q \in Requests, Queues(q) PROVE QueuedLinksAreCurrentOrReplaced'
  <2> SUFFICES ASSUME NEW m \in DOMAIN outbox', outbox'[m].status = "queued"
               PROVE  \/ outbox'[m].token = token'
                      \/ \E n \in DOMAIN outbox' : n > m /\ outbox'[n].kind = "invitation"
    BY DEF QueuedLinksAreCurrentOrReplaced
  <2>1. m = NextId \/ m \in DOMAIN outbox
    BY <1>1, OutboxIsSeq DEF Queues, NewMail, NextId
  <2>2. NextId \in DOMAIN outbox'
    BY <1>1, OutboxIsSeq DEF Queues, NewMail, NextId
  <2>3. CASE m = NextId
    BY <1>1, <2>3 DEF Queues, NewMail
  <2>4. CASE m \in DOMAIN outbox
    <3>1. outbox[m].status = "queued" /\ outbox'[m] = outbox[m] /\ m < NextId
      BY <1>1, <2>4 DEF Queues, NewMail
    <3>2. m \in Nat /\ NextId \in Nat
      BY <2>4, OutboxIsSeq DEF NextId
    <3>3. CASE outbox[m].token = token
      BY <1>1, <2>2, <3>1, <3>2, <3>3 DEF Queues
    <3>4. CASE \E n \in DOMAIN outbox : n > m /\ outbox[n].kind = "invitation"
      BY <1>1, <3>4 DEF Queues, NewMail
    <3> QED
      BY <2>4, <3>1, <3>3, <3>4 DEF QueuedLinksAreCurrentOrReplaced
  <2> QED
    BY <2>1, <2>3, <2>4
<1>2. ASSUME SameMails,
             \/ \A m \in DOMAIN outbox : outbox'[m].status # "queued"
             \/ /\ token' = token
                /\ \A m \in DOMAIN outbox :
                     outbox'[m].status = "queued" => outbox[m].status = "queued"
      PROVE  QueuedLinksAreCurrentOrReplaced'
  BY <1>2 DEF SameMails, QueuedLinksAreCurrentOrReplaced
<1> QED
  BY <1>1, <1>2, StepKinds, QueuedStays, OtherStepKeeps, FreeStepKeeps

(* A queued row carries the current link, or a newer invitation replaced   *)
(* it: no Regenerate leaves one behind (_supersede_queued).                *)
THEOREM QueuedLinks == Spec => []QueuedLinksAreCurrentOrReplaced
<1>1. Init => QueuedLinksAreCurrentOrReplaced
  BY DEF Init, QueuedLinksAreCurrentOrReplaced
<1> QED
  BY <1>1, TypeCorrect, QueuedLinksStep, PTL DEF Spec
=============================================================================
