# review-robin in TLA+

A verification development kept beside review-robin, the web application in
which operators set up a review session, reviewers answer a form about their
reviewees, and a clock inside the process opens, closes and mails on schedule.
The modules are translated from the Python under `src/app`; `PROJECT.json`
gives for each definition the lines it stands for.

Contents: [the system](#the-system) · [the plan](#the-plan) ·
[the modules](#the-modules) · [the runs](#the-runs) · [fairness](#fairness) ·
[the proofs](#the-proofs) · [disagreements](#disagreements-found) ·
[what is left out](#what-is-abstracted-and-what-is-not-modelled)

## The system

A FastAPI application over one relational database (PostgreSQL, READ
COMMITTED, in production). A request or a background pass runs a service
function on a database session of its own (`autoflush=False`,
`expire_on_commit=False`: what was loaded stays as loaded until it is read
again). Mutual exclusion is by a row lock on the review session:
`session_guard.lock_session` takes it exclusively (FOR NO KEY UPDATE) or shared
(FOR SHARE), waits five seconds at most, and reads the row again under it. The
shape of almost every service is therefore *load, decide whether to bother,
lock, read again, decide, write, commit*, and what goes wrong goes wrong in
what was read before the lock or is done after a commit or a rollback gave the
lock away.

| component | state it keeps | operations | made correct by |
|---|---|---|---|
| Session lifecycle (`session_lifecycle.py`, `session_guard.py`, `sessions.py`, routes `_workflow.py`, `_session_home.py`) | `sessions.status`, Start, End, the release window; each instrument's `accepting_responses` and `deadline_closed_at` | prepare, invalidate, activate, expire, revert, archive, unarchive, the release buttons, setup and schedule saves | moves along the named edges only; nothing accepts outside an open review; an opened session has no Start left to fire; no move under a reviewer's write |
| Scheduled events and the clock (`scheduled_events/`) | nothing of its own: it decides by the row and the audit log (retries, deadlines reached, window stamps) | scheduled activation with retries, close at the end, heal, release-window stamps; run by the clock and by page loads | no stale trigger fires; each crossing recorded once; retries bounded; what is due eventually happens |
| Scheduled invites and reminders, due actions (`_invites.py`, `_reminders.py`, `_fired.py`, `due_actions.py`) | two lists of offsets on the session; audit rows that mark an entry sent, skipped or handled; the reminders' outbox keys | fire an entry, hold back the activation, prompt an operator, mark done, save or import a list | nobody is reminded twice, also after a failure half-way; the activation waits for its invites |
| Invitations and outbox (`invitations.py`, `email_dispatch.py`) | invitation token, status and stamps; outbox rows and their status | send, remind, regenerate, claim and dispatch a row, undo of a failed send, open by link | the link in a reviewer's mailbox works; a failed send undoes its own write only |
| Reviewer responses (`responses/`) | response rows and their submitted stamp, one copy per member of a group | save, submit, recall, clear, group answers, branches | a closed branch holds nothing; submitted means complete; the copies of a group agree and are about who is in it now |
| Instruments (`instruments/`) | cards, their order and names, response and display fields, the assignment band's rule | create, replicate, reorder, delete; the bands' saves | an edit keeps answers; a card owns its rule set; the page shows what is stored |
| Assignments (`assignments/`) | assignment rows with inclusion and self-review flags, the reconcile cache | generate, dry run, inclusion by hand, reclassify, staleness | Generate loses what its dry run counted; flags follow every edit; a verdict under the current stamp is right |
| Rules engine (`rules/`) | none (pure) | match, filter, quotas, exclusion of self reviews | keeps the pairs the card says |
| Rosters, CSV imports, symmetric review, directory accounts (`reviewers.py`, `reviewees.py`, `roster_bulk.py`, `csv_imports/`, `symmetric_review.py`, `directory_*.py`) | the two rosters, each row's account, the mirror links | forms, deletes, append/merge/replace uploads, recheck, the symmetric switch | one row and one name per person; an account is one the directory gave for that address; the mirror is exact |
| Session owners, users and roles (`session_owners.py`, `users.py`, `deps.py`) | accounts with roles, owner rows | sign in, fold, admit, revoke, promote, demote, detach, delete; add and remove owners | a session keeps an owner, an owner is an operator or an admin, an admin is left |
| Session copies (`session_config_io/`, `session_clone.py`, `session_rehydrate.py`) | settings files, bundles | export, import, duplicate, rebuild | a copy is what it was read from; an import drops no more cards than it counted |
| Validation (`validation/`) | none | the readiness report | what it reads is what its callers re-check |
| Visibility, templates, purge | a policy row, stored texts | one save each; purge and archive | — |
| Monitoring, extracts, pages, host application | none | rendering, file output, mounting | — |

How they interact: the operators' and reviewers' requests and the observers
share the database only. The lifecycle's row is the hub: setup services read
its stage (under the lock) and send it back to draft; the observers turn its
stage by time; the reviewers' writes hold its lock shared; the mail services
read its stage before they queue. There are no messages between components but
the mail itself, and no callbacks; the audit log doubles as the observers'
memory.

What is hard: stale reads around the lock; two observers (the clock and any
number of page loads) meeting at the same moment; failures that roll back, and
so unlock, half-way through an operation; a reviewer's write racing the close;
mail whose outcome is unknown; things that must happen with nobody looking.
`PROJECT.json` lists them line by line under `hazards`.

## The plan

Written, in this order: the stage machine (`ReviewStages`, `SessionLifecycle`),
the observers that turn it by time (`SessionObservers`), their proofs, the
invitations and their proofs; then what the first plan left: scheduled sends,
accounts and owners, reviewers' answers (fields and branches, two tabs,
groups), assignments and their cache, rosters, assignment rules, and the copies
of a setup; then the proofs of the sends, the accounts, the rules, the rosters,
the fields, the groups, the tabs, the cache and the copies, each on the
specification its run checks.

Left, most important first:

1. Of `SetupCopies`, that a file exported during edits is one the import takes.
   `ScheduledSends` would be composed with `InvitationDelivery`.
2. `Visibility`: who sees which answers while a review is open and while its
   results are released, as operators against a reference table.
3. Prepare's creation of invitations with several reviewers, and the
   responses-received mail of two submits.
4. `SessionPurge` with `delete_session`: requests that loaded a row which is gone.

The suite is kept to twelve runs. Components that share no state therefore share
a run: `AnswersMC`, `ScheduleMC`, `SetupMC` and `PeopleMC` are the *sum* of two
or three instances, not their product. A variable `which`, chosen in the initial
state and never changed, says whose behaviour it is; the other instances are
parked in a constant state. Each behaviour of the sum is a behaviour of one
component, so nothing is shown of their interaction and nothing is lost of each
one's own. The sums take the bounds and sets of their instances as constants, so
that a theorem about a sum is a theorem about every instance.

Modules meant for proof declare no RECURSIVE operator; pure algorithms are
recursive functions or folds.

## The modules

| module | models | extends |
|---|---|---|
| `ReviewStages` | abstract: the five stages, the named moves, writes only while open | — |
| `SessionLifecycle` | `session_lifecycle.py`, the saves and routes that write the session row | — |
| `SessionObservers` | `scheduled_events/`, `observe_deadline`, the reviewer's write request | `SessionLifecycle` |
| `ScheduledSends` | scheduled invites and reminders, due actions | — |
| `InvitationDelivery` | `invitations.py`, `email_dispatch.py`, the per-row actions of the Invitations page | — (its stage is `ReviewStages`) |
| `Branching` | pure: forms with branches, what applies, what is missing | — |
| `InstrumentFields` | the response band's Save, the per-field routes, one sheet of answers | `Branching` |
| `AnswerTabs` | one reviewer's two overlapping transactions | `Branching` |
| `GroupAnswers` | Generate, every edit that redraws a group, group answers | — |
| `ReconcileCache` | the staleness verdict and its cache | — |
| `AssignmentRules` | the rule engine, the assignment band and its stored form | — |
| `SetupCopies` | cards and every way to copy them | — |
| `Rosters` | the two rosters, the directory, the mirror | — |
| `WorkspaceAccounts` | accounts, roles, session owners | — |
| `SessionObserversMC`, `InvitationDeliveryMC`, `AnswerTabsMC`, `AssignmentRulesMC` | constants and symmetry of the small instances | the module of that name |
| `ScheduleMC`, `AnswersMC`, `SetupMC`, `PeopleMC` | the sums described above | `SessionLifecycle`, `InstrumentFields`, `AssignmentRulesMC`, `Rosters`, with the others as INSTANCEs |
| `GroupAnswersMC`, `ReconcileCacheMC`, `RostersMC`, `WorkspaceAccountsMC` | one component alone, for the further counterexamples | the module of that name |
| `SessionProofs` | theorems about the lifecycle, its observers and, as `ScheduleMC` runs them, the sends | `SessionObservers`, `ScheduleMC` |
| `AnswersProofs` | theorems about the fields, the tabs and, as `AnswersMC` runs them, the groups | `AnswersMC` |
| `SetupProofs` | theorems about the rules and the cache | `SetupMC` |
| `CopiesProofs` | theorems about the copies | `SetupMC` |
| `PeopleProofs` | theorems about the rosters and, as `PeopleMC` runs them, the accounts | `PeopleMC` |
| `InvitationDeliveryProofs`, `ScheduledSendsProofs`, `GroupAnswersProofs` | theorems about one component by itself | the module of that name |

**SessionLifecycle.** `row` is the session's row as committed: `status`,
`start` (`scheduled_activate_at`), `end` (`deadline`), `releaseAt` and
`releaseUntil`. `open` and `stamped` are the instruments whose
`accepting_responses` and `deadline_closed_at` are set. `sound` is the verdict
of the readiness check on everything but the schedule: an edit of the setup may
make it anything, and the schedule's own check (`_check_session_end_passed`) is
spelt out, because the schedule is modelled. A transaction that locks the row
first and commits last is one action, since every other writer of the row waits
for it; what is read before the lock, or done after a rollback released it, is a
step of its own. So `ExpireSession`, `OperatorRevert` and `ArchiveSession` are
single actions, while Prepare is three (`PrepareGenerate` commits and unlocks,
`PrepareValidate` reads with no lock, `MarkValidated` locks again) and Activate
two. Every service that saves a setup table is `EditSetup`: they share
`lock_session`, the editable gate and `invalidate_if_validated`, and differ in
the tables they write. A reviewer's write holds the lock from `GateWrite`
(`require_accepting_responses`) to `CommitWrite`; `writing` is who holds it,
and `Unlocked` what an exclusive locker waits for. `Init` is a new session, or
one an earlier release of the program left open: with an instrument closed by
hand, or with a past End already stamped but not yet expired.

**SessionObservers.** Each observer (a pass, or a reviewer's request) is at a
step of its own code (`at`) with the row it loaded or last re-read (`mem`) and
the "now" it was given (`clockTime`). A pass runs the triggers in the code's
order: activation, deadline, release window. Each decides on `mem`, then locks,
reads again and decides once more. A failed activation is three steps, as in
the code: the rollback (`ActivationFails`), the count of the retries in the
audit log (`CountRetries`), and the retry's record or the schedule's clearing
(`RecordRetry`, `GiveUpActivation`). `retries`, `reached` and `windowStamps`
are the audit rows the observers decide by. A reviewer's request is
`BeginReview`, the close or the heal, `CheckAccepts` (the route's check of each
instrument), `EnterWrite` or `RefuseWrite` (the service's gate), `LeaveWrite`.
`SessionBusy` is the lock's time limit and `TriggerFails` any exception a
trigger raises (`_run_guarded`).

**InvitationDelivery.** One invitation: `token` (tokens are numbered as they are
minted), `stamps` (status, sent, opened and reminded; a moment is the id of the
row queued at it), `outbox` (the rows in the order of their ids, each with its
link's token, its status, and in `began` the order its `created_at` gives:
PostgreSQL's `now()` is when the row's transaction began). `arrived` are the
rows whose message reached the mailbox, which the program cannot see. Each
operator's request is at a step: begun (`BeginSend`, `BeginRemind`,
`LoadForRegenerate`), then the commit under the session lock that queues its row
(`Send`, `Remind`) or rotates the token (`RegenerateToken`), then `Claim`,
`TransportSend` and `StampOutcome`, with no lock, and after a definite refusal
`RestoreAfterFailedSend`. `RequestEnds` is a process that dies, a lock not to be
had or a gate that refuses, at any of them. What a Regenerate writes is what
differs from the values it loaded (`Written`), because it is the one that does
not read the invitation again. A reviewer's follow is looked up (`Follow`), then
recorded (`RecordOpen`). The stage is moved by `ReviewStages`, which the
lifecycle and its observers are shown to implement.

**ScheduledSends.** `row` holds the stage, the two anchors (Start for invites,
End for reminders) and for each its list of offsets; an entry is a position in
its list. `record` are the audit rows that consume an entry, for a position on a
value of its anchor. Each entry is decided and recorded in one transaction under
the session lock (`FireEntry`); between two of them the
pass goes on with the row it read last (`pass[p].mem`). An entry may fail
half-way (`EntryFails`): the reminders queued before the failure are committed,
the record is not. `prompt` is the page that tells an operator, while nothing is
sent on a clock, what to do by hand; `MarkDone` is answered from it.

**Branching, InstrumentFields, AnswerTabs.** A form maps field ids to order,
flags, parent, condition and mode; a sheet maps them to answers. `Branching` has
the pure part: which fields apply under a sheet, what is missing from it,
whether a form is whole. `InstrumentFields` edits the form through the card's
Save (`_band2.py`, with its locks once answers exist) and the routes of single
fields (`_response_fields.py`), and answers it through draft, Submit, Recall and
Clear. Saves do not overlap there; `AnswerTabs` fixes the form and lets two tabs
of one reviewer, who share the session lock, run their transactions together
under READ COMMITTED: each pass over the posted fields reads at once, each flush
writes at once, a write to a row the other has written waits, two that wait for
each other end one of them.

**GroupAnswers.** `setup` is what the operator edits (rosters, activity, tags,
relationships, the boundary, the pinned rule), `rows` the assignment rows: each
has its include and self-review flags and its cell, the reviewer's answers on
that row. A group instrument has one answer per reviewer and group, copied to
every member's row. `about` is history: the members the answer was given about.
Every operation holds the lock from gate to commit and is one step. Generate and
the dry run that counts its losses are separate transactions in the code; the
model has them as one and the README says below what that hides.

**ReconcileCache.** A page load reads the instrument, the roster, a summary of
the assignment rows (count and highest id) and the rows, each in a statement of
its own and with no lock, then commits the verdict with its stamp. Generate
reads the instrument before the lock and writes verdict and stamp through. An
UPDATE sends the columns that differ from what its request loaded (`Update`).

**AssignmentRules.** One instrument's rule in its three forms: the cells and
pills of the card on a page, the `rules_json` its rule set stores, the pairs the
engine keeps. A Save posts the whole card, and compares it with the instrument
row read before the session lock (the lock reads the session's row alone again)
and with the rule set read after. Settings files write the stored form directly,
with the rules earlier releases could build.

**SetupCopies.** Cards with order, name, label, rule set and display fields; a
reference is a pair *(card, n-th)* so that a copy that still points at its source
shows. Replicate and a rules save hold a card read before the lock (`held`); an
export and a Duplicate read a statement at a time with no lock (`copier`); a
refused import shows what it would delete and is confirmed with a tick that
repeats the count (`offer`). `seen` is history: the forms the session had since
a copier began, which is what a copy may be held against.

**Rosters.** A row is an address, a name and a directory account. What a request
read before it waited for the lock is not read again: the names an upload was
checked against, the directory's answers, the row an edit loaded, the route's
look at the symmetric flag. So those requests are begun in one step and saved in
another. The directory may answer anything at each lookup. The histories say
where the code promises less: addresses a raced save left under two names,
accounts a raced edit left beside another address, a mirror a raced delete
emptied.

**WorkspaceAccounts.** A transaction that locks what it reads is one action (the
batches, `add_owner`, `remove_owner`, demote); one that reads without a lock
reads in one action and writes in a later one (one row's detach or delete, a
sign-in's fold of a second account).

**ReviewStages** is what the two lifecycle modules implement: `stage <-
row.status`, `writing <- writing`; and the environment of `InvitationDelivery`.

## The runs

| run | asks | instance |
|---|---|---|
| `observer_races` | `NothingOpenDuringSetup`, `NoEarlyExpiry` | the clock's pass and a page's, an operator who moves End, 3 moments |
| `observer_writes` | `WritesLandOnAcceptingInstruments`, `HealReopensOnlyLiveReviews`, `ReviewStagesHold` for the composition | 2 instruments, a reviewer, the clock, End at 1 or 2 |
| `observer_start` | `RetriesBounded`, `OnlyDueStartsFire`, `EachCrossingRecordedOnce` | two passes at a Start that may fail, 1 retry allowed, and at the release's moment |
| `clock_liveness` | `PastEndCloses`, `DueStartIsConsumed` | the clock, a Start with retries, an End, a reviewer writing |
| `schedule` | stages: `OpenOnlyWhileReady`, `OpeningConsumesStart`; sends: `ActivationWaitsForInvites`, `NobodyIsRemindedTwice` | 2 instruments, 2 reviewers, 2 stale requests; two passes over one invite entry, two offsets and two saves; two passes over one reminder entry and an End that moves |
| `invitation_delivery` | `PendingMeansUnsent`, `QueuedLinksAreCurrentOrReplaced`, `FreshMailKillsNoInvitation`, `UndoKillsNoLiveLink`, `OpensStick` | 2 tabs, a reviewer's follow, 2 rows, 3 tokens, 3 beginnings |
| `answers` | fields: `ClosedBranchesHoldNothing`, `StampedSheetsAreComplete`, `EditsKeepAnswers`; tabs: `AloneCommitsRight`; groups: `CopiesAgree`, `AnswersDescribeTheirGroup`, `FlagsFollowEdits`, `LossIsWhatWasShown` | 3 fields from four forms, one edit; 2 tabs, 3 posts; a reviewer who is also a reviewee, another reviewee, 3 kinds of boundary, 2 edits |
| `setup` | rules: `AppliesWhatIsShown`, `ResaveKeepsPairs`, `HiddenFlagIsOff`, `GroupsKeepNoPairs`, `OldListsMean`; copies: `CardsOwnWhatTheyName`, `CopiesAreFaithful`, `LossWasCounted`; cache: `ComputedVerdictsAreRight` | 2 reviewers, 3 reviewees, 2 pages, 3 edits, 12 imported rules and 8 lists of earlier releases; up to 3 cards, 2 edits and one copier; 3 people, 2 page loads, 5 row ids |
| `people` | rosters: `BindingsAreAnswers`, `OnePersonOneName`, `MirrorInStep`; accounts: `LockedActionsLeaveSomeone` | 2 addresses, names and accounts, 2 rows a roster, 3 writes, 2 requests of which one may be an upload; 2 accounts, 2 sessions, 2 requests |
| `cleared_start`, `overlapping_saves`, `hidden_flag` | the disagreements below, each a counterexample | the smallest instance that shows it |

Every property of a passing run has a mutant in `PROJECT.json`: a plausible bug
in one mapped definition (the operators marked `mutant:` beside the originals,
which nothing else uses) under which the same run finds the property violated.
Deadlock is checked except in `answers`, `setup` and `people`, whose edits,
posts or writes are bounded: their behaviours end when the bound is used up.
The type invariants of the modules hold on these instances and are not among the
runs' questions; seven of them are theorems.

Bounds. `MaxTime` ends the model's time: 1 or 2 are enough for an End to lie
ahead, be reached, and be moved once to a later moment. Two passes, two requests,
two tabs or two pages are the least that race; the proofs, where there are any,
cover any number. One retry allowed stands for three; the proof is for any
number. `observer_start` has one moment of the release window, the theorem
`CrossingsRecordedOnce` has both. `Grace` 1 lets a window's moment be stamped
when it is reached and no later. The sets an operator may type (`Starts`,
`Ends`, `Releases`, `Untils`) are narrowed in each run to the boxes its question
is about; a set with `None` lets the box be cleared. Two rows and three tokens
let a Send be refused and undone, and a reminder, a newer Send or a Regenerate
overtake it. `MaxBegun` ends the numbering of the transactions' beginnings: one
more than the rows, so that one can be given up. In `answers`, three fields are
a branch inside a branch, the depth the code allows; one edit of a form is
enough because every form an edit can lead to within the bound is held to the
same locks, and the starting forms put the branches there. Two edits of a group
redraw it and draw it back. In `setup`, three edits are a page's two changes and
its Save, or two Saves of pages that were opened before; three cards are two
that share a name and a third. In `people`, two rows a roster are the least that
can hold one person twice; `OneUpload` (of the requests waiting at once, one is
an upload) keeps the run short, and two uploads at once are the case the history
`split` excuses. Symmetry is over interchangeable model values, in runs with no
liveness property.

## Fairness

`ClockFairness` is about the clock's pass alone: no page is ever assumed to be
loaded and no operator to act.

- Weak fairness of `BeginPass(Clock)` and `PassStep(Clock)`: `run_forever` loops
  for as long as the process lives, a pass runs its triggers to the end.
  `SpacingElapses` is time passing.
- Strong fairness of the activation's outcome, `RecordRetry`, `GiveUpActivation`,
  `CountRetries`, `CloseAtEnd` and `EndWithNothingOpen`: each needs the lock, or
  an attempt that does not raise, and both come and go. A pass that ends busy is
  run again at the next tick of the clock, so an attempt is made again and again;
  that it succeeds in the end is the assumption, and it is what the retry by
  the next pass is for.
- Weak fairness of `LeaveWrite`: a request under way ends, and PostgreSQL
  releases its lock either way.

Under it, a review open past its end closes and a Start that is due is
consumed, whatever operators, pages and failures do. Without strong fairness
both are false: a reviewer's write could be under way at each attempt.

## The proofs

Assumptions, all in the modules that use them: `MaxTime` is a natural number,
`None` is none, the sets of typed values hold moments or `None`; the passes are
a finite set that holds the clock's and no reviewer; `MaxRetries` and `Grace`
are natural numbers. Instruments, reviewers and requests are arbitrary sets,
empty and infinite ones included.

Where a component is checked through a sum, its theorems are about the sum's
specification, by way of its own. The proof module of `ScheduledSends` and
`GroupAnswers` is instantiated as the sum instantiates the component; that the two
instances say the same (`GroupsAreTheSame` and its like) is a matter of unfolding,
and a behaviour of the sum of that kind is a behaviour of the component
(`GroupBehaviours`; for the accounts, which are proved on the sum's instance,
`AccountBehaviours`). The tabs, the cache and the copies are proved on the sum
directly.

*Lifecycle.* `TypeCorrect`, `StagesAreSafe` and `ImplementsReviewStages`. The
lemma everything else rests on is `StageEffect`: what any step of an operator
does to the stage, the flags and Start, said once (`OperatorEffects`), so that
the invariants and the refinement do not go through thirteen actions again.
`StageInv`, which is inductive, is `OpenOnlyWhileReady` and `OpeningConsumesStart`
together. The refinement's proof (`OperatorMoves`, `NextStages`) shows that each
step is a named move made while no write is under way, a write's begin or end,
or a stutter.

*Observers.* Five layers, each proved invariant before the next uses it:

- types (`ObserverTypesCorrect`), which includes that the row an observer
  remembers is a row;
- the stage (`SetupIsClosed`, `HealsAreOfLiveReviews`): `OpenOnlyWhileReady` is
  false here, see `open_after_end`, and the weaker `NothingOpenDuringSetup` is
  inductive together with the reset of Start;
- the writes (`WritesAreSafe`). The gate reads no instrument's flag, so the
  property is not inductive. `GateSeesFlags` says what saves it: whoever has
  passed the route's check sees its instruments open for as long as the review
  is open and its End not passed. It holds because every step that clears a
  flag also leaves "ready" or finds the End passed, and time does not run
  back. `WritingKnown` ties the lock's holders to the steps they are at;
- the retries (`RetriesAreBounded`). Each pass may record a retry it counted
  before the others recorded theirs. `Pending(m)` are the passes at that point
  for Start `m`, and the inductive form (`RetriesLeft`) is that recorded retries
  stay below the policy's number and one for each pass no longer pending,
  hence the finite-set lemmas;
- the clock (`ClockBehind`: a pass works with a "now" that is not ahead of the
  time), from which `NoReviewEndsEarly` and `OnlyDueStartsOpen` follow, and the
  recorded-once theorem.

`ObserversImplementReviewStages` composes them: the observers' steps, too, are
moves, writes or stutters of `ReviewStages`.

*Invitations.* `IInv` holds for any number of tabs, follows, rows and tokens. That
a pending invitation was not delivered is not inductive: a step that hands the
current link over must find the invitation not pending (`SentWhileSending`), and
an undo that makes it pending again must be the undo of the only row with that
link. The second follows from two facts no guard states: rows are queued in the
order their tokens are minted, so a newest row that is an invitation has the
link to itself (`TokensGrow`, `NewestAlone`); and a row belongs to one request
(`OneRequestPerMail`), which after a refusal knows that it did not arrive
(`NotArrived`). `StampsRemembered` says that only an invitation email's undo can
change the status. Every step is first put into one of three kinds (`StepKinds`:
it queues a row, it is another step of a request, it is nobody's), so that each
conjunct's proof is about three kinds and not sixteen actions. From `IInv`:
`PendingIsUnsent`, `UndosKillNoLiveLink`, `OpensAreKept`, `FreshMailIsSafe`;
`QueuedLinks` is inductive with the types alone.

*Assignment rules.* `HiddenFlag` and `GroupsAndPairs` hold for any pages, rosters,
rules, files and numbers of edits. `CardInv`, which is inductive, says that while
no Save was overtaken the stored row is settled (`Settled`: an exclusion only
where its control is shown, no group over a rule that keeps pairs, nothing
stored without a rule set). A Save is judged on the row its request read before
the lock. Where that is still the row, what it stores is settled whatever was
posted, which is what `RefusedForm` and the resolving of the exclusion are for;
where it is not, the Save counts as overtaken and the claim ends, as
`hidden_flag` says it must. The engine and the cells stay closed in this part, as neither
property is about pairs.

`SavesApplyTheCard` and `ResavingKeepsPairs` are, for any rosters, tags, cards,
files and stored lists. They need `RulesInv`: beside the types and `CardInv`, that
the engine's schema reads what is stored (no Composite without a child, no two
rules of one id), that nothing is stored without a rule set, whoever overtook
whom, and that while nobody did, a Link whose rules the card shows is recorded as
set (`Recorded`). The argument has three lemmas. What the engine keeps under
enabled Composites and `ALL_OF` is what every one of them includes
(`EnabledCompositesDecide`: no quota is left to fold over, and the combinator is no
fold). A cell with what its operator needs
holds of a pair exactly if its words do (`CellHolds`), so the list built of a card
keeps the pairs its words describe (`BuiltKeeps`). And the way back, from a stored
predicate to a cell and to a predicate, is the identity for a list the card
represents (`CellKeepsPred`), so that the list built of a drawn card and the stored
one are twins: for each rule of either there is one of the other with the same
Link, combinator and predicates (`ShownRulesAreTwins`). Twins are refused alike
and keep the same pairs. Positions are chosen by rank (`Picked`), which
`PickedIs` shows to lose and repeat nothing.

`OldListsMeanTheSame` is about the lists of the retired library: for any roster and
any list the schema reads, the meaning of a pipeline and of a series of quotas. Both
are folds, whose value for a list of any length is a matter of induction. The
library's induction theorems take an operator as a parameter and cannot be used;
`CountingUp` states induction for a *set* of numbers instead, and follows from the
least element of its complement. With it `FoldTableExists` gives a table of the
fold's values for each set of positions, so that the fold's own CHOOSE has something
to choose (`CappedRuns`, `PipelineRuns`), and the working set after each rule can be
followed: the last match decides (`PipelineIs`); a quota keeps of each share
exactly the lesser of its size and the cap (`CappedIs`, by counting places, with
`LowestOf`); a smaller working set never breaks an earlier cap, and a quota applied
to what it left changes nothing (`QuotasAre`). The invariant it needs is the types
alone. That a roster is a list (`BoundsAssumption`), that a stored combinator is one
of the three, and that a quota's maximum is a natural number (`QuotaRule.max` has
`ge=0`) are the facts about the code it rests on.

*Cache.* `VerdictsUnderTheStampAreRight`, for any people and pinned rules and any
number of page loads. The stamp names the rows by their count and highest id
alone, and the rows are read in another statement than their summary; that this
suffices is the content of the proof. `Earlier(R)` says that rows `R` were the
table at some time: up to some id, what is left now was there, unchanged, in `R`.
Ids are never handed out again, so what was earlier stays earlier (`EarlierStays`),
and earlier rows with the summary of the present ones *are* the present ones
(`SummaryTells`): the same highest id means that nothing was added, the same count
then that nothing is gone. `CacheInv` keeps for each verdict computed, and for
each load that has read its summary, the earlier rows it is of.

*Copies.* `CardsShareNothing`, for any number of cards, rule sets and shapes, any
edits and any file. The property is about one session and the proof is about two
things more: that every id in it was handed out (`IsSession`, so that what is new
is nobody's), and what a request, a copier and a file hold while they wait
(`TypeOK`). Together they are `CopiesInv`, which is inductive. An edit in place
keeps a card's rule set (`EditedFits`, `CardFits`); Replicate and a first Save of
rules give a card a set whose id is new (`AddedFits`), whatever was read before the
lock. The import is the long case: `AppliedFits` says that what `_apply_plan` builds
from any file `_cross_row_errors` lets through owns what it names, because every
rule set the file names is found by its name (`PoolIs`) and the second card to name
it is given another (`SetsGiven`).

`DropsAreTicked` is about a step of the same invariant. The refusal counts cards
(`DeletedBy`), the loss is a sum over names, and the two are computed on different
sides of the import. Name by name: the cards a file's rows bring back are the first
of their name, so no more than there are rows (`FewRankLow`: in a strict order, no
more than *c* have fewer than *c* before them), and each row becomes a card of its
name (`AppliedNames`); so what a name loses is within what was counted of it
(`NameLosesFew`). That the sum is then within the count is shown on a table of the
fold's values over sets of names (`SumTableExists`, `SumWithin`, by counting up the
sizes of the sets). That only an import has this to answer for, since every other
edit leaves one of the cards there were, is `EditLeavesACard`.

`QuietCopiesAreTheSession` is about what a copy looks like: its *form*, the cards in
page order with the rules of their sets, the rule sets and the shapes, with no ids
in it. A copier reads a statement at a time, so its invariant (`FaithInv`) says for
each stage what it holds, under either of two conditions. Where no import rebuilt
the session since (`Undisturbed`), a card it holds has its rule set there still, or
was seen without one (`PinsKept`, `RowsKept`), for edits only add sets (`SetsStay`).
Where the session has looked one way only since the copier began (`seen = {v}`),
what it holds is the part of that form it has read (`ReadOf`, `RowsOf`, `SameSets`).
The lemma for this is `Looks`, one case for each edit: an edit either shows in the
form, and then `seen` has two, or it changed nothing that a copier has yet to read;
a new rule set always shows, for its name is new. Then the copy. `NewRows`,
`NewOrder` and `SortOfNew` say which ids and places the rows of a session made from
a file get; a card finds its rule set by name, which takes that no two sets of a
session share one (`NamesApart`, the table's unique constraint); so the new session
has the form of its file (`RebuiltIsExact`), and a Duplicate that of its source. The
property leaves out a session with two cards at one place (`tied`), for
`clone_session` reads cards in no stated order. The model breaks such ties by id,
and the proof does not use the exception.

*Scheduled sends.* For any number of reviewers and passes, any lists and any
clock. A position is recorded once on a value of its anchor (`RecordedOnce`), and
nothing is stored at a recorded position but what is on record there
(`NothingIsStranded`); the two need each other's types and that a record is
always on an anchor that was set, since a Start that is cleared must strand
nothing (`RecordAnchored`). `OnlyTheShownIsDone` follows from the comparison Mark
done makes under the lock, `RemindedOnce` from the outbox key, with no assumption
at all. `InvitesComeFirst` is the one that takes an argument: an activation
clears Start on what its pass read, not on what the invites of that moment left.
Its invariant (`WaitInv`) says that a pass that may send and has come to the
activation left no invite of the row it read unrecorded, unless it took the
position itself. It holds because a pass goes on from the invites only when
`Pending` is empty, for which there must be an earliest entry whenever there is
any (`EarliestIsPending`, by induction over finite sets), and because records
only grow. The last two are proved of `ScheduleMC` (`RemindedOnce` and
`InvitesComeFirst` in `SessionProofs`), the first over its reminders and the second
over its invites.

*Accounts and owners.* For any number of accounts, sessions and requests at once.
`AccountsInv` is the types, the foreign keys (an owner row is of an account and a
session that are there), and that an account that is absent has no roles left to
count. A request remembers accounts that another may delete or fold before it
writes, so each step is first put into one of four kinds (`StepKinds`): a
sign-in, an invitation, a request's begin or end, a request's outcome. From it
`AccountsTyped`, and, as action properties, who can take the last admin
(`AdminsStay`), a session's last owner (`SessionsKeepOwners`), and the roles of
someone who owns a session (`OwnersKeepTheirRoles`): the actions that count with
nothing locked, and no other. The run `people` checks these three together, as
`LockedActionsLeaveSomeone`, which `LockedActionsTakeNoLast` proves of `PeopleMC`.

*Rosters.* For any addresses, names, accounts and requests, and rosters of any
size. `RosterInv` is the types, the three properties in the form of one roster at
a time (`RowsAnswered`, `RowsApart`, `Disagree`), that no link is left without the
symmetric flag, and what each waiting request read and may still rely on
(`RequestsHold`): an upload's names agree with both rosters unless another write
raced it, and its outcomes are ones the directory gave. Every write of a roster is
first shown to be a *landing* (`Lands`: what it leaves is answered and apart, and
adds only recorded disagreements), and `LandingKeeps` does the rest once, the
mirror included. The mirror's part is that each kept, adopted and new row finds a
place of its own: the code numbers the new ones by counting, so the proof counts
the rows below one (`NthExists`, by the cardinality lemmas of the library) rather
than by induction. From it `RowsAdmitOnlyAnswers`, `PersonsAreOne` and
`MirrorStaysExact`.

*Fields.* For forms of any size, branches of any depth, any sheet. A field's
ancestors are the least set that holds its parent and theirs (`Above`), so that
"closed further up" needs no recursion. `FieldsInv` is the types, that parents are
in the form and no field is above itself (`Treed`), and the two invariants; of
what `Whole` asks of a form only the parents survive the per-field routes, and
they are what the proof needs. The card's Save keeps both because of its locks:
a branch over answers keeps its place (`AnswersKeepParents`, `CardKeepsAbove`), so
no answer comes under a branch it was not under before. Since the sheet holds
nothing under a closed branch, a reviewer's save drops only what that save closed
(`DropsHaveCauses`), and one that leaves every row stamped has changed nothing
(`StampedSavesChangeNothing`), which is why a stamped sheet is still the one
Submit checked. From it `NothingUnderClosedBranches`, `StampsMeanComplete` and
`NoEditLosesAnswers`.

*Tabs.* `SaveAlonePutsRight`, for any whole form, tabs and posts. `TabsInv` says that
a transaction that met no other is the only one at work, so that what it sees
(`Seen`) is changed by its own flushes alone, and that from the drop on it sees no
closed answer (`SeesNoneClosed`): a dropped answer opens nothing, and what it closes
was under it and goes with it. Stamping and committing change no value. The sheet it found may
be any: what overlapping saves left is what the drop takes away.

*Groups.* For any rosters, tags, relationships, boundaries and rules. `GroupsInv`,
which is inductive, is the types, `CopiesAgree` and `AnswersDescribeTheirGroup`.
Groups are the classes of an equivalence (`SameGroup`, `GroupsAreClasses`), and an
edit is judged by what it does to the classes. One that takes people away, or only
splits groups, takes nothing from the rows that stay (`SplitKeeps`). One that may
join them goes through `clear_changed_groups`, which keeps an answer only where
the group now is part of one group before (`ClearKeeps`). Generate's new rows
start from a copy of their group or clear it (`GeneratedRows`), and the same
account of them gives that the dry run counts what Prepare deletes
(`OnlyTheShownIsLost`). A reviewer's save writes whole groups, its excluded members
included (`AppliedKeeps`, `StampKeeps`). From it `CopiesAlwaysAgree` and
`AnswersStayAboutTheirGroup`; `FlagsFollow` has one step for each edit. The proof is
in `GroupAnswersProofs`, of `GroupAnswers`' own specification; the theorems are in
`AnswersProofs`, of `AnswersMC`'s.

*Assumptions of the newer modules.* `ScheduleAssumption` (the bounds and offsets are
natural numbers, the boxes offer moments, and an unset anchor is none),
`AccountsAssumption` (the super-admins are users, and `NoOne` is neither a user
nor a session), `RostersAssumption` (no account, and no answer, are not
accounts; a roster may hold a row), `FieldsAssumption` (a blank is not an answer;
the forms a session starts from are whole), `FormIsWhole` (so is the tabs' form),
`ReconcileCache`'s `BoundsAssumption` (people are finitely many and a rule keeps
some of them) and `GroupAnswers`' `ConstantsAssumption` (a reviewer's row is no
reviewee's; blank and refused values are neither answers nor tags, and the value
that opens the branch is an answer; rules and starting setups are of the given
people) and `SetupCopies`' `StartsAssumption` (the sessions a behaviour begins with
own what they name, no two of their rule sets share a name, and the sequence has
handed out their ids) are what these
proofs use. The stored rules of earlier releases and of
files have the shape the engine's schema reads (`StoredAssumption`) and are within
the limits a Save keeps today (`LegacyAssumption`); a Save that records pills
records those of the Links it stores (`RecordedAssumption`; rows an import wrote
before it marked the Links of its rules, `_band1.py:267`, are outside); a file
without a rule set has no rules (`FilesAssumption`), and an operator types cells
the card offers (`CellsAssumption`). Each is an
ASSUME of the module that declares the constants, the sum where there is one, and
TLC evaluates it in the run that uses it.

Model-checked only: the two liveness properties (liveness under fairness and
ENABLED are beyond the prover), and the counterexamples. Every invariant and every other action
property of a passing run is stated by a theorem.

## Disagreements found

Three are runs that TLC must find violated; the texts they contradict are quoted
in `PROJECT.json`.

- `cleared_start`: an activation that fails for good clears whatever Start the
  row has after the rollback, also one an operator has saved meanwhile
  (`_activation.py:211`).
- `overlapping_saves`: one tab closes a branch while another answers in it; both
  commit and the closed branch keeps a value, and a Submit that checked a
  required answer can commit beside a Save that blanks it (`_core.py:819`). The
  next save that meets no other puts the sheet right (`AloneCommitsRight`).
- `hidden_flag`: two pages of one card saved over each other leave the exclusion
  of self reviews in force with its control hidden (`_instruments.py:754`). The
  same overlap can leave a group over a rule that keeps pairs, or rules on a
  Link that reads "Not set".

Nine more have a module, a property and a configuration here, but no place among
the runs; `tlc -config X.cfg M` prints the behaviour.

| configuration, module | property | what happens |
|---|---|---|
| `StaleReport`, `SessionObserversMC` | `ValidatedPassedTheCheck` | Prepare's report is computed between two locks, an edit fits in between, and a validated session's setup does not pass the check (`session_lifecycle.py:329`; spec/lifecycle.md:44) |
| `OpenAfterEnd`, `SessionObserversMC` | `ExpiredMeansClosed` | a pass that saw no instrument open expires the session without looking again; reverted and reopened in between, it expires with its instruments accepting (`session_lifecycle.py:1276`; spec/lifecycle.md:47). Nothing is written to it: the gate reads the status (`WritesAreSafe`) |
| `StaleRegenerate`, `InvitationDelivery` | `RegenerateResets` | Regenerate does not read the invitation again under its lock, so a Send in between stays stamped on a token nobody was mailed (`invitations.py:244`) |
| `DeadLink`, `InvitationDelivery` | `ClaimedLinksWork` | a Send rotates the token and, unlike Regenerate, leaves a queued reminder with the old link to go out (`invitations.py:411`) |
| `OlderTransaction`, `InvitationDelivery` | `RemindersKeepTheLink` | "the last invitation email" is the one whose transaction began last; one queued by an older transaction is not found and the next reminder replaces its live link (`invitations.py:841`). `FreshMailKillsNoInvitation` is therefore stated for rows created in order |
| `AppendDrift`, `GroupAnswersMC` | `FlagsNeverDrift` | a roster file that appends a reviewer's own row leaves the self-review flags of that row's group as they were until the next Prepare (`csv_imports/_saving.py:195`; spec/assignments.md:549) |
| `CachedVerdict`, `ReconcileCacheMC` | `CachedVerdictWasComputed` | a page that commits its verdict while Generate runs leaves Generate's stamp beside the page's stale flag, and the instrument reads as stale after Prepare (`assignments/_generate.py:801`) |
| `RebindLost`, `RostersMC` | `AddressChangeDropsTheAccount` | an edit loaded before another write bound the row gives it a new address and leaves it the account of the old one (`reviewers.py:326`; `directory_accounts.py:338`) |
| `OrphanedSession`, `WorkspaceAccountsMC` | `SessionsKeepAnOwner` | one row's Remove from all sessions counts owners with nothing locked; another owner removed in between leaves the session none (`users.py:618`) |

Others were met while modelling, and are behaviours of the models or read in the
code, with no property kept for them:

- The details card's Save can change the readiness verdict of a validated
  session, by the End it writes (`SaveSchedule`); `update_session`'s docstring
  says no field of the card can.
- Two failing passes count the retries before either records its own, and a
  Start gets more than the three of `spec/lifecycle.md`'s retry policy.
  `RetriesBounded` says how many.
- A follow of the old link, recorded after a Regenerate, makes an invitation that
  was never sent "opened" (`Follow`, `RegenerateToken`, `RecordOpen`).
- The count beside an import's tick is repeated, not the names: cards added and
  deleted between the refusal and the tick make it delete others than were named
  (`_apply.py:187-189`). `LossWasCounted` is what does hold.
- A Duplicate that reads the rule sets before a Replicate and the cards after it
  copies a card without its rules (`session_clone.py:118`); an export that
  overlaps an import can yield a file the import refuses.
- An import of a file with no instrument rows leaves a session with none, which
  `LastInstrumentError` says cannot be; a Replicate of a card deleted meanwhile
  yields a card without fields; a stale Replicate's order can tie, and then two
  numberings of the cards differ; a name conflict is also reported when a
  shape's card was deleted meanwhile; a rehydrate that dies leaves the session
  it was building.
- A file with a group whose touched links lack the group's own is imported, its
  card shows the group as "Not set", and the next Save ungroups it.
- A sign-in's fold moves owner rows without `lock_owner_eligible`, which
  `session_owners.py` says every path calls first; `OwnersStayOperators` excepts
  it.
- An entry imported after its time, which the import's checks let through, can be
  missed by the activation when Prepare runs again inside one pass.
- A card's Save from a page that has not seen a field added since deletes that
  field, if nothing was answered in it; a default field added where orders tie
  is not placed directly after its anchor.
- An upload begun on an empty roster asks for no confirmation, and replaces the
  rows added while it waited.
- Generate deletes what it finds, and the confirmation counted what it found: an
  edit between the two transactions is lost unannounced. `LossIsWhatWasShown` is
  about the two without an edit in between.

## What is abstracted, and what is not modelled

*The session and its clock.*
- Warnings and their acknowledgement, `activated_at`, names, audit wording,
  the 365-day cap and the time zones of the schedule boxes: no property reads
  them. A report that ends in an unacknowledged warning is a request that stops.
- The load of a row and the queries that go with it are one step: they are one
  transaction's statements with nothing in between that another commit could
  make worse than a commit before the load.
- The readiness check reads the setup through `sound` only; services that only
  invalidate are one action.
- The deletion of a session and purge: the row does not disappear here.
- In `SessionObservers` scheduled mail is off, as `RRW_SCHEDULED_SEND` is by
  default; `ScheduledSends` has both. No liveness is stated of the sends; the
  reminders' outbox key goes by position and not by anchor, as ruled in the code
  (findings Bc2), and `NobodyIsRemindedTwice` counts accordingly.
- A crash of the process between two transactions leaves what was committed, and
  an observer keeps nothing else: a pass that never takes its next step is a
  behaviour of the model already, as no page's pass is assumed to finish.

*Invitations.*
- One invitation stands for all: each has its own rows and stamps, and only the
  session lock is common. Its reviewer stays active and assigned. Creation by
  Prepare, deletion (`detach_outbox`), the bulk sends, which `bulk_send_enabled`
  keeps off, and the responses-received email are left out.
- The link in a row may be used before its email arrives: operators can copy it
  from the outbox.

*Answers.*
- A value is accepted or refused by its field; how is left out. Help texts,
  widths and the visibility grid are not in the forms; `bulk_save_fields` is
  called by nothing. A null cell of an imported answer is not modelled.
- One edit of the form per behaviour, so that EditsKeepAnswers speaks of an edit
  on any reachable sheet, not of two edits between saves.
- In `GroupAnswers` the required check reads any included row, the symmetric
  mirror is in `Rosters`, and a merge of the Reviewers file is its single
  updates.

*Assignments and rules.*
- Random quotas, the `in` and `matches` operators and composites inside
  composites; the size limit of a Generate; the coverage figures.
- Rules from before pills were recorded show as Not set on purpose (the migration
  that added the column says so), and a Save of the card as shown drops them:
  `ResaveKeepsPairs` is about instruments with a pill set or without rules.
- The page is not edited while its own Save is under way. Answers, group losses
  and the editable gate are in `GroupAnswers` and `SessionLifecycle`.
- A page load whose statements straddle two Generates sees neither's rows;
  its verdict is left out of `ComputedVerdictsAreRight`.

*Copies.* Response fields, widths and the visibility grid do not travel here;
shapes and numbers are read in one statement; one copier a behaviour, and the
session it makes is not edited.

*People.* The observers' roster, activity and tags; the clearing of group answers
by uploads is in `GroupAnswers`; ids of deleted rows are used again, and a
request waiting on a deleted row fails. Sessions are not deleted;
`set_owners` is its adds and removes one by one; unit tags and display names are
left out.

*Not modelled:* monitoring, collation and extracts, which are queries; the pages
and templates, whose logic is in the services they call; visibility policies and
observers' cohorts, a table read when a page is built; templates of emails and
setups, which are one save each; purge; the parsing and formatting of files;
the residential and utility applications under `residentialapps/` and
`utilityapps/`, pages over sample data with no state that two steps share;
migrations and tools. They are the larger part of the repository's lines, and
what keeps the map's share of it low.

- SQLite, which tests run on, has no row locks; the model is of PostgreSQL.

Components that no module models, with the reason or the plan for each, are in
`PROJECT.json` under `components`.
