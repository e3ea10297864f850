----------------------------- MODULE ScheduleMC -----------------------------
(***************************************************************************)
(* A session and its schedule, in one run: the stages two operators and    *)
(* two reviewers move and write in (SessionLifecycle), the scheduled       *)
(* invites before Start and the scheduled reminders before End (both of    *)
(* ScheduledSends).  The three share no state: a behaviour is of the one   *)
(* `which` names, and the rest is parked.                                  *)
(***************************************************************************)
EXTENDS SessionLifecycle, TLC

CONSTANTS
    Mailed, ListBound, TimeBound, Lead, Notice,     \* ScheduledSends
    InviteOffsets, InviteStarts, InviteEdits,       \* its invites
    ReminderOffsets, ReminderEnds, ReminderEdits    \* its reminders

VARIABLES
    which,
    session, time, sending, record, invitation,     \* ScheduledSends
    complete, reminded, pass, prompt, edits

sendVars == <<session, time, sending, record, invitation, complete, reminded, pass, prompt, edits>>

\* The requests stand for the passes of ScheduledSends, so one permutation
\* serves both.
Alike == Permutations(Requests)

(* A Start at 2, two saves and a list of one entry, one or two ticks       *)
(* before; an End at 2 or 3, one save and an entry of one tick.            *)
Only(kind, offsets) == [k \in {"invite", "reminder"} |-> IF k = kind THEN offsets ELSE {}]
BeforeStart == Only("invite", {1, 2})
BeforeEnd == Only("reminder", {1})

Invites == INSTANCE ScheduledSends WITH
    Reviewers <- Mailed, Passes <- Requests, Offsets <- InviteOffsets,
    Starts <- InviteStarts, Ends <- {}, MaxTime <- TimeBound, MaxPositions <- ListBound,
    MaxEdits <- InviteEdits, Unset <- None, row <- session, now <- time
Reminders == INSTANCE ScheduledSends WITH
    Reviewers <- Mailed, Passes <- Requests, Offsets <- ReminderOffsets,
    Starts <- {}, Ends <- ReminderEnds, MaxTime <- TimeBound, MaxPositions <- ListBound,
    MaxEdits <- ReminderEdits, Unset <- None, row <- session, now <- time

ASSUME InvitesAssumption == Invites!ScheduleAssumption
ASSUME RemindersAssumption == Reminders!ScheduleAssumption

-----------------------------------------------------------------------------
StagesParked ==
    /\ now = 0 /\ open = {} /\ stamped = {} /\ sound = FALSE /\ writing = {} /\ requests = << >>
    /\ row = [status |-> "draft", start |-> None, end |-> None, releaseAt |-> None, releaseUntil |-> None]
SendsParked ==
    /\ session = << >> /\ time = 0 /\ sending = FALSE /\ record = {} /\ invitation = << >>
    /\ complete = {} /\ reminded = << >> /\ pass = << >> /\ prompt = << >> /\ edits = 0

InitSchedule ==
    \/ which = "stages" /\ Init /\ SendsParked
    \/ which = "invites" /\ StagesParked /\ Invites!Init
    \/ which = "reminders" /\ StagesParked /\ Reminders!Init

InStages(A) == which = "stages" /\ A /\ UNCHANGED <<which, sendVars>>
InInvites(A) == which = "invites" /\ A /\ UNCHANGED <<which, lifecycleVars>>
InReminders(A) == which = "reminders" /\ A /\ UNCHANGED <<which, lifecycleVars>>

NextSchedule ==
    \/ InStages(ExpireSession) \/ InStages(OperatorRevert)
    \/ InStages(ArchiveSession) \/ InStages(UnarchiveSession)
    \/ InStages(ReleaseResponsesNow) \/ InStages(StopResponsesRelease)
    \/ InStages(EditSetup) \/ InStages(SaveSchedule) \/ InStages(Tick)
    \/ \E q \in Requests :
          \/ InStages(PrepareGenerate(q)) \/ InStages(PrepareValidate(q))
          \/ InStages(MarkValidated(q)) \/ InStages(ActivateReport(q))
          \/ InStages(ActivateSession(q))
          \/ InInvites(Invites!PassStep(q)) \/ InReminders(Reminders!PassStep(q))
    \/ \E w \in Reviewers : InStages(GateWrite(w)) \/ InStages(CommitWrite(w))
    \/ InInvites(Invites!Tick) \/ InInvites(Invites!Saves) \/ InInvites(Invites!StageMoves)
    \/ InInvites(Invites!TurnSendingOn) \/ InInvites(Invites!DrawPrompt)
    \/ InInvites(Invites!MarkDone) \/ InInvites(Invites!DropPrompt)
    \/ \E r \in Mailed : InInvites(Invites!SendByHand(r)) \/ InInvites(Invites!Submit(r))
    \/ InReminders(Reminders!Tick) \/ InReminders(Reminders!Saves)
    \/ InReminders(Reminders!StageMoves) \/ InReminders(Reminders!TurnSendingOn)
    \/ InReminders(Reminders!DrawPrompt) \/ InReminders(Reminders!MarkDone)
    \/ InReminders(Reminders!DropPrompt)
    \/ \E r \in Mailed : InReminders(Reminders!SendByHand(r)) \/ InReminders(Reminders!Submit(r))

allVars == <<which, lifecycleVars, sendVars>>
SpecSchedule == InitSchedule /\ [][NextSchedule]_allVars

-----------------------------------------------------------------------------
(* The properties of ScheduledSends, on its own behaviours.                *)

(* The scheduled activation waits for the invites it was to come after.    *)
ActivationWaitsForInvites ==
    [][which = "invites" => Invites!ActivationWaitsForInvites]_allVars

(* A reviewer gets the n-th scheduled reminder once, however End moves and *)
(* whichever entries fail half-way.                                        *)
NobodyIsRemindedTwice == which = "reminders" => Reminders!NobodyIsRemindedTwice
=============================================================================
