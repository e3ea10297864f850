--------------------------- MODULE ScheduledSends ---------------------------
(***************************************************************************)
(* The invites and reminders a session sends on a schedule: two lists of   *)
(* offsets, before Start and before End, that observers' passes go through *)
(* while operators save the schedule, move the session through its stages  *)
(* and, as long as nothing is sent on a clock, mark entries as done.       *)
(*                                                                         *)
(* An entry is consumed by its record: the audit row that says it was sent,*)
(* skipped or handled at its position on its anchor.  Each entry is decided*)
(* and recorded in one transaction under the session's lock, as a save is; *)
(* a pass goes on, between its locks, with the row it read last.           *)
(***************************************************************************)
EXTENDS Integers, Sequences, FiniteSets

CONSTANTS Reviewers, Passes,
          Offsets,      \* per kind, the durations before the anchor an entry may hold
          Starts, Ends, \* the instants Start and End are saved as
          MaxTime,      \* bound: the last instant
          MaxPositions, \* bound: the length of a list
          MaxEdits,     \* bound: the schedule's saves
          Lead,         \* scheduled_operational_lead_hours
          Notice,       \* reviewer_notice_min_hours
          Unset

Instants == 0..MaxTime
Kinds == {"invite", "reminder"}
Positions == 1..MaxPositions
Lists(kind) == UNION {[1..n -> Offsets[kind]] : n \in 0..MaxPositions}

ScheduleAssumption ==
  /\ MaxTime \in Nat /\ MaxPositions \in Nat /\ MaxEdits \in Nat
  /\ Lead \in Nat \ {0} /\ Notice \in Nat \ {0}
  /\ Offsets \in [Kinds -> SUBSET Nat]
  /\ Starts \subseteq Instants /\ Ends \subseteq Instants
  /\ Unset \notin Int

VARIABLES
  row,         \* the session: its stage, its two anchors and their lists
  now,
  sending,     \* RRW_SCHEDULED_SEND
  record,      \* the entries sent, skipped or handled
  invitation,  \* each reviewer's invitation
  complete,    \* the reviewers who have submitted everything
  reminded,    \* per reviewer and position, the reminders on the outbox key
  pass,        \* each pass under way
  prompt,      \* the due prompt an operator's page shows
  edits

vars == <<row, now, sending, record, invitation, complete, reminded, pass, prompt, edits>>

-----------------------------------------------------------------------------
(* The invites' anchor is scheduled_activate_at (Start), the reminders' is *)
(* deadline (End).                                                         *)
Rows == [status: {"draft", "validated", "ready", "expired"},
         anchor: [Kinds -> Instants \cup {Unset}],
         list: [Kinds -> Lists("invite") \cup Lists("reminder")]]

Records == [kind: Kinds, anchor: Instants, index: Positions, offset: Nat,
            how: {"sent", "skipped", "handled"}]

Steps == {"idle", "invite", "activation", "reminder", "deadline"}

NoPrompt == [kind |-> "none"]
Prompts == [kind: Kinds, anchor: Instants, index: Positions, offset: Nat]

(* fired_offsets: what is on record for this value of the anchor.          *)
RecordOn(kind, anchor) == {e \in record : e.kind = kind /\ e.anchor = anchor}
Consumed(kind, anchor) == {e.index : e \in RecordOn(kind, anchor)}

(* The moment of an entry: it may lie before the first instant.            *)
FireAt(r, kind, i) == r.anchor[kind] - r.list[kind][i]

DueAt(r, kind, at) ==
  IF r.anchor[kind] = Unset THEN {}
  ELSE {i \in DOMAIN r.list[kind] : FireAt(r, kind, i) <= at}

NewRow == [status |-> "draft", anchor |-> [k \in Kinds |-> Unset],
           list |-> [k \in Kinds |-> << >>]]

Anchors(kind) == {Unset} \cup IF kind = "invite" THEN Starts ELSE Ends

EnoughNotice(anchor, entries) ==
  anchor # Unset => \A i \in DOMAIN entries : entries[i] >= Notice

Ordered(anchors) ==
  anchors["invite"] # Unset /\ anchors["reminder"] # Unset =>
    anchors["invite"] < anchors["reminder"]

NoPass == [step |-> "idle", at |-> 0, mails |-> FALSE, sends |-> FALSE,
           mem |-> NewRow, handled |-> {}]

(* Create saves a schedule as the details card does.                       *)
Init ==
  /\ row \in {r \in Rows :
       /\ r.status = "draft"
       /\ \A k \in Kinds : r.list[k] \in Lists(k) /\ r.anchor[k] \in Anchors(k)
       /\ Ordered(r.anchor)
       /\ r.anchor["invite"] # Unset => r.anchor["invite"] >= Lead
       /\ \A k \in Kinds : EnoughNotice(r.anchor[k], r.list[k])
       /\ \A k \in Kinds : r.anchor[k] # Unset =>
            \A i \in DOMAIN r.list[k] : FireAt(r, k, i) >= Lead}
  /\ now = 0
  /\ sending \in BOOLEAN
  /\ record = {}
  /\ invitation = [r \in Reviewers |-> "none"]
  /\ complete = {}
  /\ reminded = [r \in Reviewers |-> [i \in Positions |-> 0]]
  /\ pass = [p \in Passes |-> NoPass]
  /\ prompt = NoPrompt
  /\ edits = 0

Tick ==
  /\ now < MaxTime
  /\ now' = now + 1
  /\ UNCHANGED <<row, sending, record, invitation, complete, reminded, pass, prompt, edits>>

-----------------------------------------------------------------------------
(* The schedule's saves, each one list with its anchor, under the session's*)
(* lock from the gate to the commit.                                       *)

(* fired_offset_errors: a list may not put another entry on a position     *)
(* that is on record for the anchor it will have.                          *)
SentEntriesStay(kind, anchor, entries) ==
  \/ entries = row.list[kind] /\ anchor = row.anchor[kind]
  \/ \A e \in RecordOn(kind, anchor) :
       e.index \in DOMAIN entries => entries[e.index] = e.offset

(* offsets_lead_exempt: the entry stored there, its anchor unedited, and   *)
(* the one on record there.                                                *)
LeadExempt(kind, anchor, entries, i) ==
  \/ /\ anchor = row.anchor[kind]
     /\ i \in DOMAIN row.list[kind] /\ entries[i] = row.list[kind][i]
  \/ \E e \in RecordOn(kind, anchor) : e.index = i /\ e.offset = entries[i]

InTime(kind, anchor, entries) ==
  anchor # Unset => \A i \in DOMAIN entries :
    anchor - entries[i] - now >= Lead \/ LeadExempt(kind, anchor, entries, i)

StoreSchedule(kind, anchor, entries, status) ==
  /\ edits < MaxEdits
  /\ edits' = edits + 1
  /\ row' = [row EXCEPT !.status = status, !.anchor[kind] = anchor, !.list[kind] = entries]
  /\ row' # row
  /\ anchor # row.anchor[kind] => Ordered(row'.anchor)
  /\ UNCHANGED <<now, sending, record, invitation, complete, reminded, pass, prompt>>

(* Session Home's details card, and with the list as it is the lobby's End.*)
SaveSchedule(kind, anchor, entries) ==
  /\ row.status \in {"draft", "validated"}
  /\ kind = "invite" /\ anchor \notin {Unset, row.anchor[kind]} => anchor - now >= Lead
  /\ SentEntriesStay(kind, anchor, entries)
  /\ InTime(kind, anchor, entries)
  /\ EnoughNotice(anchor, entries)
  /\ StoreSchedule(kind, anchor, entries, row.status)

(* The Settings import: no moment need be ahead, and it ends validation.   *)
ImportSchedule(kind, anchor, entries) ==
  /\ row.status \in {"draft", "validated"}
  /\ SentEntriesStay(kind, anchor, entries)
  /\ EnoughNotice(anchor, entries)
  /\ StoreSchedule(kind, anchor, entries, "draft")

-----------------------------------------------------------------------------
(* The operator's other buttons and the reviewers, as far as a send looks. *)
MoveTo(status, anchors) ==
  /\ row' = [row EXCEPT !.status = status, !.anchor = anchors]
  /\ UNCHANGED <<now, sending, record, complete, reminded, pass, prompt, edits>>

StartCleared == [row.anchor EXCEPT !["invite"] = Unset]

(* Prepare creates the invitations there are not.                          *)
Prepare ==
  /\ row.status = "draft"
  /\ invitation' = [r \in Reviewers |->
                      IF invitation[r] = "none" THEN "pending" ELSE invitation[r]]
  /\ MoveTo("validated", row.anchor)

Activate ==
  /\ row.status = "validated"
  /\ MoveTo("ready", StartCleared)
  /\ UNCHANGED invitation

Close ==
  /\ row.status = "ready"
  /\ MoveTo("expired", row.anchor)
  /\ UNCHANGED invitation

RevertToDraft ==
  /\ row.status # "draft"
  /\ MoveTo("draft", row.anchor)
  /\ UNCHANGED invitation

SendByHand(r) ==
  /\ row.status \in {"validated", "ready"}
  /\ invitation[r] = "pending"
  /\ invitation' = [invitation EXCEPT ![r] = "sent"]
  /\ UNCHANGED <<row, now, sending, record, complete, reminded, pass, prompt, edits>>

Submit(r) ==
  /\ row.status = "ready" /\ r \notin complete
  /\ complete' = complete \cup {r}
  /\ UNCHANGED <<row, now, sending, record, invitation, reminded, pass, prompt, edits>>

(* A deployment turns sending on; the passes under way die with the old    *)
(* process.                                                                *)
TurnSendingOn ==
  /\ ~sending
  /\ sending' = TRUE
  /\ pass' = [p \in Passes |-> NoPass]
  /\ UNCHANGED <<row, now, record, invitation, complete, reminded, prompt, edits>>

-----------------------------------------------------------------------------
(* due_actions: while nothing is sent on a clock, the entries whose moment *)
(* has passed and that leave someone to act on.                            *)
LeftToActOn(kind) ==
  IF kind = "invite"
    THEN /\ row.status \in {"validated", "ready"}
         /\ \E r \in Reviewers : invitation[r] = "pending"
    ELSE /\ row.status = "ready"
         /\ \E r \in Reviewers \ complete : invitation[r] # "none"

Prompt(kind, i) ==
  [kind |-> kind, anchor |-> row.anchor[kind], index |-> i, offset |-> row.list[kind][i]]

DueActions ==
  UNION {{Prompt(kind, i) : i \in DueAt(row, kind, now) \ Consumed(kind, row.anchor[kind])} :
         kind \in {k \in Kinds : ~sending /\ LeftToActOn(k)}}

DrawPrompt ==
  /\ prompt = NoPrompt
  /\ prompt' \in DueActions
  /\ UNCHANGED <<row, now, sending, record, invitation, complete, reminded, pass, edits>>

(* mark_done: the entry named by everything its prompt was drawn from must *)
(* be due now.                                                             *)
MarkDone ==
  /\ prompt # NoPrompt
  /\ \E d \in DueActions :
       /\ d = prompt
       /\ record' = record \cup
            {[kind |-> d.kind, anchor |-> d.anchor, index |-> d.index,
              offset |-> d.offset, how |-> "handled"]}
  /\ prompt' = NoPrompt
  /\ UNCHANGED <<row, now, sending, invitation, complete, reminded, pass, edits>>

(* NotDue, or a page that is left.                                         *)
DropPrompt ==
  /\ prompt # NoPrompt
  /\ prompt' = NoPrompt
  /\ UNCHANGED <<row, now, sending, record, invitation, complete, reminded, pass, edits>>

-----------------------------------------------------------------------------
(* A pass: invites, activation, reminders, the end.  A step the row as last*)
(* read has no work for returns before any query.  The clock's pass has no *)
(* way to build an invitation's link (mails is FALSE): it sends nothing and*)
(* with sending on holds back the activation of a session with invites.    *)
StartPassed(r, at) == r.anchor["invite"] # Unset /\ r.anchor["invite"] <= at
EndPassed(r, at) == r.anchor["reminder"] # Unset /\ r.anchor["reminder"] <= at
Ending(r, at) == r.status = "ready" /\ EndPassed(r, at)

Held(q) == q.sends /\ ~q.mails /\ q.mem.list["invite"] # << >>

HasWork(q, step) ==
  CASE step \in Kinds -> q.sends /\ q.mails /\ DueAt(q.mem, step, q.at) # {}
    [] step = "activation" -> StartPassed(q.mem, q.at) /\ ~Held(q)
    [] step = "deadline" -> Ending(q.mem, q.at)

Order == <<"invite", "activation", "reminder", "deadline">>

(* The pass at its first step with work from the n-th on, or over.         *)
From(q, n) ==
  LET ahead == {k \in n..4 : HasWork(q, Order[k])} IN
  IF ahead = {} THEN NoPass
  ELSE LET k == CHOOSE k \in ahead : \A l \in ahead : k <= l
       IN [q EXCEPT !.step = Order[k], !.handled = IF k = 2 THEN @ ELSE {}]

Resume(p, r, n) == pass' = [pass EXCEPT ![p] = From([@ EXCEPT !.mem = r], n)]

sessionVars == <<row, now, sending, record, invitation, complete, reminded, prompt, edits>>

At(p, step) == pass[p].step = step

BeginPass(p, mails) ==
  /\ At(p, "idle")
  /\ pass' = [pass EXCEPT ![p] = From([step |-> "idle", at |-> now, mails |-> mails,
                                       sends |-> sending, mem |-> row, handled |-> {}], 1)]
  /\ UNCHANGED sessionVars

(* Under the lock: what is due, not on record and not yet taken by the pass*)
Pending(p, kind) ==
  DueAt(row, kind, pass[p].at) \ (Consumed(kind, row.anchor[kind]) \cup pass[p].handled)

Earliest(p, kind) ==
  CHOOSE i \in Pending(p, kind) : \A j \in Pending(p, kind) :
    \/ FireAt(row, kind, i) < FireAt(row, kind, j)
    \/ FireAt(row, kind, i) = FireAt(row, kind, j) /\ i <= j

MaySend(p, kind) ==
  /\ \E r \in Reviewers : invitation[r] # "none"
  /\ IF kind = "invite" THEN row.status \in {"validated", "ready"}
     ELSE row.status = "ready" /\ pass[p].at < row.anchor["reminder"]

(* Every pending invitation is sent.                                       *)
DispatchInvites ==
  /\ invitation' = [r \in Reviewers |->
                      IF invitation[r] = "pending" THEN "sent" ELSE invitation[r]]
  /\ UNCHANGED reminded

\* mutant: the outbox is not asked for the position's key
DispatchRemindersMutant(i) ==
  /\ reminded' = [r \in Reviewers |->
                    IF r \notin complete /\ invitation[r] # "none"
                      THEN [reminded[r] EXCEPT ![i] = @ + 1] ELSE reminded[r]]
  /\ UNCHANGED invitation

(* Every reviewer who is not complete and has no reminder with this        *)
(* position's key is reminded.                                             *)
DispatchReminders(i) ==
  /\ reminded' = [r \in Reviewers |->
                    IF r \notin complete /\ invitation[r] # "none" /\ reminded[r][i] = 0
                      THEN [reminded[r] EXCEPT ![i] = @ + 1] ELSE reminded[r]]
  /\ UNCHANGED invitation

RecordEntry(kind, i, how) ==
  record' = record \cup
    {[kind |-> kind, anchor |-> row.anchor[kind], index |-> i,
      offset |-> row.list[kind][i], how |-> how]}

FireEntry(p, kind) ==
  /\ At(p, kind) /\ Pending(p, kind) # {}
  /\ LET i == Earliest(p, kind) IN
     /\ IF MaySend(p, kind)
          THEN /\ IF kind = "invite" THEN DispatchInvites ELSE DispatchReminders(i)
               /\ RecordEntry(kind, i, "sent")
          ELSE /\ RecordEntry(kind, i, "skipped")
               /\ UNCHANGED <<invitation, reminded>>
     /\ pass' = [pass EXCEPT ![p].mem = row, ![p].handled = @ \cup {i}]
  /\ UNCHANGED <<row, now, sending, complete, prompt, edits>>

After(kind) == IF kind = "invite" THEN 2 ELSE 4

EntriesDone(p, kind) ==
  /\ At(p, kind) /\ Pending(p, kind) = {}
  /\ Resume(p, row, After(kind))
  /\ UNCHANGED sessionVars

\* mutant: failed invites hold nothing back
EntryFailsMutant(p, kind) ==
  /\ At(p, kind) /\ Pending(p, kind) # {}
  /\ Resume(p, row, IF kind = "invite" THEN 2 ELSE 4)
  /\ UNCHANGED sessionVars

(* An entry that fails is rolled back whole, and the row read again.  Failed*)
(* invites hold the activation back.                                       *)
EntryFails(p, kind) ==
  /\ At(p, kind) /\ Pending(p, kind) # {}
  /\ Resume(p, row, IF kind = "invite" THEN 3 ELSE 4)
  /\ UNCHANGED sessionVars

(* Start was moved or cleared since the pass read the row.                 *)
ActivationMoot(p) ==
  /\ At(p, "activation") /\ ~StartPassed(row, pass[p].at)
  /\ Resume(p, row, 3)
  /\ UNCHANGED sessionVars

(* A session that is not validated is skipped: Start is cleared all the    *)
(* same.                                                                   *)
ScheduledActivation(p) ==
  /\ At(p, "activation") /\ StartPassed(row, pass[p].at)
  /\ row' = [row EXCEPT !.anchor = StartCleared,
                        !.status = IF @ = "validated" THEN "ready" ELSE @]
  /\ Resume(p, row', 3)
  /\ UNCHANGED <<now, sending, record, invitation, complete, reminded, prompt, edits>>

(* An error is retried by later passes; the last retry gives Start up.     *)
ActivationFails(p) ==
  /\ At(p, "activation") /\ StartPassed(row, pass[p].at)
  /\ row.status = "validated"
  /\ row' \in {row, [row EXCEPT !.anchor = StartCleared]}
  /\ Resume(p, row', 3)
  /\ UNCHANGED <<now, sending, record, invitation, complete, reminded, prompt, edits>>

CloseAtEnd(p) ==
  /\ At(p, "deadline")
  /\ row' = IF Ending(row, pass[p].at) THEN [row EXCEPT !.status = "expired"] ELSE row
  /\ pass' = [pass EXCEPT ![p] = NoPass]
  /\ UNCHANGED <<now, sending, record, invitation, complete, reminded, prompt, edits>>

(* A busy lock ends the pass quietly; so does a process that dies.         *)
PassEnds(p) ==
  /\ ~At(p, "idle")
  /\ pass' = [pass EXCEPT ![p] = NoPass]
  /\ UNCHANGED sessionVars

-----------------------------------------------------------------------------
Saves ==
  \E kind \in Kinds : \E entries \in Lists(kind), anchor \in Anchors(kind) :
    \/ SaveSchedule(kind, anchor, entries)
    \/ ImportSchedule(kind, anchor, entries)

StageMoves == Prepare \/ Activate \/ Close \/ RevertToDraft

Sends(p) ==
  \E kind \in Kinds :
    FireEntry(p, kind) \/ EntriesDone(p, kind) \/ EntryFails(p, kind)

PassStep(p) ==
  \/ \E mails \in BOOLEAN : BeginPass(p, mails)
  \/ Sends(p)
  \/ ActivationMoot(p)
  \/ ScheduledActivation(p)
  \/ ActivationFails(p)
  \/ CloseAtEnd(p)
  \/ PassEnds(p)

Next ==
  \/ Tick
  \/ Saves
  \/ StageMoves
  \/ TurnSendingOn
  \/ DrawPrompt \/ MarkDone \/ DropPrompt
  \/ \E r \in Reviewers : SendByHand(r) \/ Submit(r)
  \/ \E p \in Passes : PassStep(p)

Spec == Init /\ [][Next]_vars

-----------------------------------------------------------------------------
TypeOK ==
  /\ row \in Rows
  /\ now \in Instants
  /\ sending \in BOOLEAN
  /\ record \subseteq Records
  /\ invitation \in [Reviewers -> {"none", "pending", "sent"}]
  /\ complete \subseteq Reviewers
  /\ reminded \in [Reviewers -> [Positions -> Nat]]
  /\ pass \in [Passes -> [step: Steps, at: Instants, mails: BOOLEAN, sends: BOOLEAN,
                          mem: Rows, handled: SUBSET Positions]]
  /\ prompt \in Prompts \cup {NoPrompt}
  /\ edits \in 0..MaxEdits

(* _fired: a position is sent, skipped or handled once for a value of its  *)
(* anchor, by whichever pass or operator comes first, through moves of the *)
(* anchor away and back and through failures half-way.                     *)
OneRecordPerPosition ==
  \A e, f \in record :
    e.kind = f.kind /\ e.anchor = f.anchor /\ e.index = f.index => e = f

(* The outbox key has no anchor: a reviewer gets scheduled reminder n once,*)
(* however End moves and whichever entries fail (findings Bc2).            *)
NobodyIsRemindedTwice ==
  \A r \in Reviewers, i \in Positions : reminded[r][i] <= 1

(* fired_offset_errors: no stored entry sits on a position that is on      *)
(* record for another, where it would never be sent (findings Bc1).        *)
StoredEntriesCanFire ==
  \A kind \in Kinds : \A e \in RecordOn(kind, row.anchor[kind]) :
    e.index \in DOMAIN row.list[kind] => row.list[kind][e.index] = e.offset

(* Of every step (_observe_all): with sending on, the activation that clears Start, the    *)
(* invites' anchor, comes after the invites it was to come after: every    *)
(* entry that is still as the pass read it is on record, unless it stands  *)
(* where the pass has sent another.                                        *)
ActivationWaitsForInvites ==
  \A p \in Passes :
    /\ At(p, "activation") /\ pass[p].sends
    /\ row.status = "validated" /\ row'.status = "ready" /\ ~At(p, "activation")'
    /\ row.anchor["invite"] = pass[p].mem.anchor["invite"]
    => \A i \in DOMAIN row.list["invite"] \cap DOMAIN pass[p].mem.list["invite"] :
         row.list["invite"][i] = pass[p].mem.list["invite"][i] =>
           i \in Consumed("invite", row.anchor["invite"]) \cup pass[p].handled

(* Of every step (mark_done): what is recorded as handled is the entry the operator saw.   *)
DoneIsWhatWasShown ==
  \A e \in record' \ record : e.how = "handled" =>
    /\ prompt # NoPrompt
    /\ e = [kind |-> prompt.kind, anchor |-> prompt.anchor, index |-> prompt.index,
            offset |-> prompt.offset, how |-> "handled"]

=============================================================================
