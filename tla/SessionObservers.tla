-------------------------- MODULE SessionObservers --------------------------
(***************************************************************************)
(* The lazy observers of app/services/scheduled_events, composed with the  *)
(* lifecycle: the clock's pass, the pages' passes, and the reviewers'      *)
(* requests, which close a review at its end, or heal it, on their way to  *)
(* a write.                                                                *)
(*                                                                         *)
(* An observer works on the row its own database session loaded.  It       *)
(* decides on that copy whether a trigger is due, then locks, reads the    *)
(* row again and decides once more; between the two anyone may commit.  A  *)
(* lock re-reads the copy.  The failed activation rolls back, which gives  *)
(* the lock away, before it counts its retries and records the outcome.    *)
(* Scheduled mail is off here (RRW_SCHEDULED_SEND), as it is by default.   *)
(***************************************************************************)
EXTENDS SessionLifecycle

CONSTANTS
  Passes,      \* the observer passes
  Clock,       \* the one that is the clock's
  MaxRetries,  \* _ACTIVATION_MAX_RETRIES
  Grace        \* STAMP_GRACE, in the model's moments

ASSUME PassesAssumption ==
  IsFiniteSet(Passes) /\ Clock \in Passes /\ Passes \cap Reviewers = {}
ASSUME BoundsAssumption == MaxRetries \in Nat /\ Grace \in Nat

Observers == Passes \cup Reviewers

VARIABLES
  at,          \* where each observer is
  mem,         \* the row it loaded, or re-read at its last lock
  clockTime,   \* the "now" its pass, or its observe_deadline, works with
  assigned,    \* the instruments each reviewer has assignments on
  firing,      \* the Start a failed activation was fired for
  counted,     \* the retries it counted in the audit log
  spaced,      \* whether RETRY_SPACING since the last retry has elapsed
  retries,     \* the audit log: activation retries of each Start
  reached,     \*   session.deadline_reached of each End
  windowStamps \*   session.release_window_opened and _ended of each moment

auditVars == <<retries, reached, windowStamps>>
observerVars == <<at, mem, clockTime, assigned, firing, counted, spaced>>
vars == <<lifecycleVars, observerVars, auditVars>>

Crossings == {"opened", "ended"} \X Moments

ObserverSteps == {"idle", "activation", "failed", "record", "deadline", "heal",
                  "close", "end", "release", "check", "gate", "write"}

(* Each observer is at a step of its own code, with a row, a moment and a *)
(* count it can have read; the audit log counts.                          *)
ObserverTypeOK ==
  /\ at \in [Observers -> ObserverSteps]
  /\ mem \in [Observers -> Rows]
  /\ clockTime \in [Observers -> Moments]
  /\ assigned \in [Reviewers -> SUBSET Instruments \ {{}}]
  /\ firing \in [Passes -> MomentOrNone]
  /\ counted \in [Passes -> Nat]
  /\ spaced \in BOOLEAN
  /\ retries \in [Moments -> Nat]
  /\ reached \in [Moments -> Nat]
  /\ windowStamps \in [Crossings -> Nat]

ObserversInit ==
  /\ Init
  /\ at = [o \in Observers |-> "idle"]
  /\ mem = [o \in Observers |-> NewRow]
  /\ clockTime = [o \in Observers |-> 0]
  /\ assigned \in [Reviewers -> SUBSET Instruments \ {{}}]
  /\ firing = [p \in Passes |-> None]
  /\ counted = [p \in Passes |-> 0]
  /\ spaced = TRUE
  /\ retries = [m \in Moments |-> 0]
  /\ windowStamps = [c \in Crossings |-> 0]
  /\ \/ reached = [m \in Moments |-> 0]
     \/ stamped # {} /\ reached = [m \in Moments |-> IF m = row.end THEN 1 ELSE 0]

GoTo(o, step) == at' = [at EXCEPT ![o] = step]
Remember(o) == mem' = [mem EXCEPT ![o] = row']
(* A copy the next steps do not read is not kept, to keep states few. *)
Forget(o) == mem' = [mem EXCEPT ![o] = NewRow]
Finish(o) ==
  /\ GoTo(o, "idle") /\ Forget(o)
  /\ clockTime' = [clockTime EXCEPT ![o] = 0]

-----------------------------------------------------------------------------
(* A pass begins: the clock's only on a session with a step due, and with *)
(* no Start mid-retry unless RETRY_SPACING has elapsed.                   *)

StartDue(r, t) == r.start # None /\ r.start <= t

DueStamps(r, t) ==
  IF r.status # "expired" \/ r.releaseAt = None THEN {}
  ELSE {<<"opened", m>> : m \in {r.releaseAt} \cap {x \in Moments : x <= t /\ t < x + Grace}}
       \cup {<<"ended", m>> : m \in {r.releaseUntil} \cap
               {x \in Moments : r.releaseAt < x /\ x <= t /\ t < x + Grace}}

DueOnClockMutant ==   \* mutant: an open session past its end is not due
  /\ row.status # "archived"
  /\ \/ StartDue(row, now) /\ spaced
     \/ DueStamps(row, now) # {}

DueOnClock ==
  /\ row.status # "archived"
  /\ \/ StartDue(row, now) /\ spaced
     \/ row.status = "ready" /\ DeadlineHasPassed(row, now)
     \/ DueStamps(row, now) # {}

BeginPass(p) ==
  /\ at[p] = "idle"
  /\ p = Clock => DueOnClock
  /\ GoTo(p, "activation")
  /\ mem' = [mem EXCEPT ![p] = row]
  /\ clockTime' = [clockTime EXCEPT ![p] = now]
  /\ UNCHANGED <<lifecycleVars, assigned, firing, counted, spaced, auditVars>>

-----------------------------------------------------------------------------
(* The scheduled activation. *)

NoActivationDue(p) ==
  /\ at[p] = "activation" /\ ~StartDue(mem[p], clockTime[p])
  /\ GoTo(p, "deadline")
  /\ UNCHANGED <<lifecycleVars, mem, clockTime, assigned, firing, counted, spaced, auditVars>>

LockForActivation(p) ==
  /\ at[p] = "activation" /\ StartDue(mem[p], clockTime[p])
  /\ Unlocked

(* A Start cleared or moved since the load fires nothing. *)
ActivationMoot(p) ==
  /\ LockForActivation(p) /\ ~StartDue(row, clockTime[p])
  /\ GoTo(p, "deadline")
  /\ mem' = [mem EXCEPT ![p] = row]
  /\ UNCHANGED <<lifecycleVars, clockTime, assigned, firing, counted, spaced, auditVars>>

SkipActivation(p) ==
  /\ LockForActivation(p) /\ StartDue(row, clockTime[p])
  /\ row.status # "validated" \/ ~CanActivate(row, now)
  /\ row' = [row EXCEPT !.start = None]
  /\ GoTo(p, "deadline") /\ Remember(p)
  /\ UNCHANGED <<now, open, stamped, sound, requests, writing,
                 clockTime, assigned, firing, counted, spaced, auditVars>>

ScheduledActivateMutant(p) ==   \* mutant: Start is not read again under the lock
  /\ LockForActivation(p)
  /\ row.status = "validated" /\ CanActivate(row, now)
  /\ GoReady
  /\ GoTo(p, "deadline") /\ Remember(p)
  /\ UNCHANGED <<now, sound, requests, writing,
                 clockTime, assigned, firing, counted, spaced, auditVars>>

ScheduledActivate(p) ==
  /\ LockForActivation(p) /\ StartDue(row, clockTime[p])
  /\ row.status = "validated" /\ CanActivate(row, now)
  /\ GoReady
  /\ GoTo(p, "deadline") /\ Remember(p)
  /\ UNCHANGED <<now, sound, requests, writing,
                 clockTime, assigned, firing, counted, spaced, auditVars>>

(* The readiness check or the transition raises: rolled back, unlocked. *)
ActivationFails(p) ==
  /\ LockForActivation(p) /\ StartDue(row, clockTime[p])
  /\ row.status = "validated"
  /\ firing' = [firing EXCEPT ![p] = row.start]
  /\ GoTo(p, "failed") /\ Forget(p)
  /\ UNCHANGED <<lifecycleVars, clockTime, assigned, counted, spaced, auditVars>>

CountRetries(p) ==
  /\ at[p] = "failed"
  /\ counted' = [counted EXCEPT ![p] = retries[firing[p]]]
  /\ GoTo(p, "record")
  /\ UNCHANGED <<lifecycleVars, mem, clockTime, assigned, firing, spaced, auditVars>>

AttemptOver(p) ==
  /\ GoTo(p, "deadline")
  /\ firing' = [firing EXCEPT ![p] = None]
  /\ counted' = [counted EXCEPT ![p] = 0]

(* Either another retry is on record, or the schedule is cleared: a write *)
(* of the session row, which waits for the writes sharing its lock.       *)
RecordRetryMutant(p) ==   \* mutant: one retry too many
  /\ at[p] = "record" /\ counted[p] <= MaxRetries
  /\ retries' = [retries EXCEPT ![firing[p]] = @ + 1]
  /\ spaced' = FALSE
  /\ AttemptOver(p) /\ mem' = [mem EXCEPT ![p] = row]
  /\ UNCHANGED <<lifecycleVars, clockTime, assigned, reached, windowStamps>>

RecordRetry(p) ==
  /\ at[p] = "record" /\ counted[p] < MaxRetries
  /\ retries' = [retries EXCEPT ![firing[p]] = @ + 1]
  /\ spaced' = FALSE
  /\ AttemptOver(p) /\ mem' = [mem EXCEPT ![p] = row]
  /\ UNCHANGED <<lifecycleVars, clockTime, assigned, reached, windowStamps>>

GiveUpMutant(p) ==   \* mutant: the schedule given up stays set
  /\ at[p] = "record" /\ counted[p] >= MaxRetries
  /\ Unlocked
  /\ AttemptOver(p) /\ mem' = [mem EXCEPT ![p] = row]
  /\ UNCHANGED <<lifecycleVars, clockTime, assigned, spaced, auditVars>>

GiveUpActivation(p) ==
  /\ at[p] = "record" /\ counted[p] >= MaxRetries
  /\ Unlocked
  /\ row' = [row EXCEPT !.start = None]
  /\ AttemptOver(p) /\ Remember(p)
  /\ UNCHANGED <<now, open, stamped, sound, requests, writing,
                 clockTime, assigned, spaced, auditVars>>

SpacingElapses ==
  /\ ~spaced /\ spaced' = TRUE
  /\ UNCHANGED <<lifecycleVars, at, mem, clockTime, assigned, firing, counted, auditVars>>

-----------------------------------------------------------------------------
(* observe_deadline, for a pass that finds the review open past its end,  *)
(* and for every reviewer's request.                                      *)

(* Where observe_deadline returns to. *)
Return(o) == IF o \in Reviewers THEN "check" ELSE "release"

Unstamped == open \ stamped

ObserveDeadline(o) ==
  /\ at[o] = "deadline"
  /\ LET passed == DeadlineHasPassed(mem[o], clockTime[o])
         ready == mem[o].status = "ready"
     IN GoTo(o, IF o \in Passes /\ ~(ready /\ passed) THEN Return(o)
                ELSE IF ~passed THEN IF ready /\ open # Instruments THEN "heal" ELSE Return(o)
                ELSE IF Unstamped # {} THEN "close"
                ELSE IF ready THEN "end" ELSE Return(o))
  /\ IF at'[o] = "release" THEN UNCHANGED mem ELSE Forget(o)
  /\ UNCHANGED <<lifecycleVars, clockTime, assigned, firing, counted, spaced, auditVars>>

DeadlineDone(o) ==
  /\ GoTo(o, Return(o))
  /\ IF o \in Passes THEN Remember(o) ELSE UNCHANGED mem
  /\ UNCHANGED <<now, sound, requests, writing, clockTime, assigned, firing, counted,
                 spaced, retries, windowStamps>>

(* _write_deadline_reached: once for each End that is crossed. *)
WriteReached ==
  reached' = IF row.end # None /\ reached[row.end] = 0
             THEN [reached EXCEPT ![row.end] = @ + 1] ELSE reached

ExpireAtEnd == IF row.status = "ready" THEN SetStatus("expired") ELSE UNCHANGED row

(* _reopen_while_live, once something is seen closed. *)
ReopenWhileLiveMutant(o) ==   \* mutant: the status is not read again
  /\ at[o] = "heal" /\ Unlocked
  /\ open' = Instruments /\ stamped' = stamped \cap open
  /\ UNCHANGED <<row, reached>>
  /\ DeadlineDone(o)

ReopenWhileLive(o) ==
  /\ at[o] = "heal" /\ Unlocked
  /\ IF row.status = "ready"
     THEN open' = Instruments /\ stamped' = stamped \cap open
     ELSE UNCHANGED <<open, stamped>>
  /\ UNCHANGED <<row, reached>>
  /\ DeadlineDone(o)

(* The close of the instruments still open, the record, the expiry.  The  *)
(* clock's "now" decides, however long the lock was waited for.           *)
CloseAtEndMutant(o) ==   \* mutant: the End is not read again
  /\ at[o] = "close" /\ Unlocked
  /\ open' = open \ Unstamped
  /\ stamped' = stamped \cup Unstamped
  /\ WriteReached /\ ExpireAtEnd
  /\ DeadlineDone(o)

CloseAtEnd(o) ==
  /\ at[o] = "close" /\ Unlocked
  /\ IF DeadlineHasPassed(row, clockTime[o]) /\ Unstamped # {}
     THEN /\ open' = open \ Unstamped
          /\ stamped' = stamped \cup Unstamped
          /\ WriteReached
          /\ ExpireAtEnd
     ELSE UNCHANGED <<rowVars, reached>>
  /\ DeadlineDone(o)

(* Nothing seen left to close: the record and the expiry alone. *)
EndWithNothingOpen(o) ==
  /\ at[o] = "end" /\ Unlocked
  /\ IF row.status = "ready" /\ DeadlineHasPassed(row, clockTime[o])
     THEN WriteReached /\ ExpireAtEnd
     ELSE UNCHANGED <<row, reached>>
  /\ UNCHANGED <<open, stamped>>
  /\ DeadlineDone(o)

-----------------------------------------------------------------------------
(* observe_release_window: each moment stamped once, the last trigger. *)

NewStampsMutant(r, t) == DueStamps(r, t)   \* mutant: nor is this record

NewStamps(r, t) == {c \in DueStamps(r, t) : windowStamps[c] = 0}

StampReleaseWindow(p) ==
  /\ at[p] = "release"
  /\ IF NewStamps(mem[p], clockTime[p]) = {}
     THEN UNCHANGED windowStamps
     ELSE /\ Unlocked
          /\ windowStamps' = [c \in Crossings |->
               IF c \in NewStamps(row, clockTime[p]) THEN windowStamps[c] + 1 ELSE windowStamps[c]]
  /\ Finish(p)
  /\ UNCHANGED <<lifecycleVars, assigned, firing, counted, spaced, retries, reached>>

(* SessionBusy: the lock was held past its bound, and the pass, or the    *)
(* reviewer's request, ends; only a write outlasts a step here.           *)
SessionBusy(o) ==
  /\ at[o] \in {"activation", "heal", "close", "end", "release"} /\ ~Unlocked
  /\ Finish(o)
  /\ UNCHANGED <<lifecycleVars, assigned, firing, counted, spaced, auditVars>>

(* _run_guarded: a trigger that raises is rolled back and the next one    *)
(* runs; an activation retry it was about to record goes uncounted.       *)
TriggerFails(p) ==
  /\ \/ /\ at[p] \in {"activation", "failed", "record"}
        /\ AttemptOver(p) /\ mem' = [mem EXCEPT ![p] = row]
        /\ UNCHANGED clockTime
     \/ /\ at[p] \in {"close", "end"}
        /\ GoTo(p, "release") /\ mem' = [mem EXCEPT ![p] = row]
        /\ UNCHANGED <<clockTime, firing, counted>>
     \/ at[p] = "release" /\ Finish(p) /\ UNCHANGED <<firing, counted>>
  /\ UNCHANGED <<lifecycleVars, assigned, spaced, auditVars>>

-----------------------------------------------------------------------------
(* A reviewer's write request: observe_deadline, the route's own check of *)
(* the refreshed row and of every instrument the reviewer writes to, the  *)
(* service's gate under the shared lock, the commit.                      *)

BeginReview(w) ==
  /\ at[w] = "idle"
  /\ GoTo(w, "deadline")
  /\ mem' = [mem EXCEPT ![w] = row]
  /\ clockTime' = [clockTime EXCEPT ![w] = now]
  /\ UNCHANGED <<lifecycleVars, assigned, firing, counted, spaced, auditVars>>

CheckAccepts(w) ==
  /\ at[w] = "check"
  /\ IF \A i \in assigned[w] : AcceptsResponses(row, i, now)
     THEN GoTo(w, "gate") /\ UNCHANGED <<mem, clockTime>>
     ELSE Finish(w)
  /\ UNCHANGED <<lifecycleVars, assigned, firing, counted, spaced, auditVars>>

EnterWrite(w) ==
  /\ at[w] = "gate" /\ GateWrite(w)
  /\ GoTo(w, "write")
  /\ UNCHANGED <<mem, clockTime, assigned, firing, counted, spaced, auditVars>>

RefuseWrite(w) ==
  /\ at[w] = "gate"
  /\ row.status # "ready" \/ DeadlineHasPassed(row, now)
  /\ Finish(w)
  /\ UNCHANGED <<lifecycleVars, assigned, firing, counted, spaced, auditVars>>

LeaveWrite(w) ==
  /\ at[w] = "write" /\ CommitWrite(w)
  /\ Finish(w)
  /\ UNCHANGED <<assigned, firing, counted, spaced, auditVars>>

-----------------------------------------------------------------------------
DeadlineStep(o) ==
  ObserveDeadline(o) \/ ReopenWhileLive(o) \/ CloseAtEnd(o) \/ EndWithNothingOpen(o)

ActivationStep(p) ==
  \/ NoActivationDue(p) \/ ActivationMoot(p) \/ SkipActivation(p) \/ ScheduledActivate(p)
  \/ CountRetries(p) \/ RecordRetry(p) \/ GiveUpActivation(p)

PassStep(p) == ActivationStep(p) \/ DeadlineStep(p) \/ StampReleaseWindow(p)

WriteStep(w) ==
  DeadlineStep(w) \/ CheckAccepts(w) \/ EnterWrite(w) \/ RefuseWrite(w) \/ LeaveWrite(w)

ObserversNext ==
  \/ OperatorStep /\ UNCHANGED <<observerVars, auditVars>>
  \/ Tick /\ UNCHANGED <<observerVars, auditVars>>
  \/ SpacingElapses
  \/ \E p \in Passes :
       \/ BeginPass(p) \/ PassStep(p)
       \/ ActivationFails(p) \/ TriggerFails(p)
  \/ \E o \in Observers : SessionBusy(o)
  \/ \E w \in Reviewers : BeginReview(w) \/ WriteStep(w)

ObserversSpec == ObserversInit /\ [][ObserversNext]_vars

-----------------------------------------------------------------------------
(* Every exit from "ready" closes the instruments: none is left accepting *)
(* on a session being set up or filed away (archive_session, findings L5).*)
NothingOpenDuringSetup == open # {} => row.status \in {"ready", "expired"}

(* The gate re-reads the status and the End but not the instruments' flags*)
(* (require_accepting_responses: every change to them comes with one of   *)
(* the two): still, while a write is under way the review stays open and  *)
(* every instrument of its reviewer keeps accepting.                      *)
WritesLandOnAcceptingInstruments ==
  \A w \in Reviewers : at[w] = "write" => row.status = "ready" /\ assigned[w] \subseteq open

(* One session.deadline_reached for each End, one stamp for each moment of*)
(* the release window, whichever observers meet there.                    *)
EachCrossingRecordedOnce ==
  /\ \A m \in Moments : reached[m] <= 1
  /\ \A c \in Crossings : windowStamps[c] <= 1

(* The failures run with the lock given away, so each other pass may add  *)
(* one retry it had counted for before; never more.                       *)
RetriesBounded ==
  \A m \in Moments : retries[m] <= MaxRetries + Cardinality(Passes) - 1

(* spec/lifecycle.md 1: "validated" means the readiness check passed.     *)
ValidatedPassedTheCheck == row.status = "validated" => sound

(* archive_session: every exit from "ready" clears the accepting flags.   *)
ExpiredMeansClosed == row.status = "expired" => open = {}

Observing == at' # at

(* An observer ends a review only past the End it has at that moment: one *)
(* moved later since the observer loaded the row closes nothing (Bc4).    *)
NoEarlyExpiry ==
  [][Observing /\ row.status = "ready" /\ row'.status = "expired"
       => DeadlineHasPassed(row, now)]_vars

(* A save that cleared or moved Start before a trigger took the lock wins:*)
(* the trigger activates, or skips, on a Start that is due as it decides. *)
OnlyDueStartsFire ==
  [][\A p \in Passes : at[p] = "activation" /\ at'[p] # at[p] /\ row' # row
       => StartDue(row, now)]_vars

(* The heal of a live session undoes no close: an instrument is reopened  *)
(* on the status as it is under the lock, not as the request loaded it.   *)
HealReopensOnlyLiveReviews ==
  [][\A o \in Observers : at[o] = "heal" /\ at'[o] # at[o] /\ open' # open
       => row.status = "ready"]_vars

(* The same promise for the trigger's failure path: the Start it clears   *)
(* is the Start that failed.                                              *)
OnlyFailedStartsAreCleared ==
  [][\A p \in Passes : at[p] = "record" /\ at'[p] # at[p] /\ row'.start # row.start
       => row.start = firing[p]]_vars

-----------------------------------------------------------------------------
(* The clock runs for the life of the process (run_forever), each pass to *)
(* its end; a write's request ends; and the failures the triggers meet do *)
(* not go on for ever: a step tried again and again succeeds in the end.  *)
ClockFairness ==
  /\ WF_vars(BeginPass(Clock)) /\ WF_vars(PassStep(Clock)) /\ WF_vars(SpacingElapses)
  /\ SF_vars(SkipActivation(Clock) \/ ScheduledActivate(Clock) \/ ActivationFails(Clock))
  /\ SF_vars(CountRetries(Clock))
  /\ SF_vars(RecordRetry(Clock)) /\ SF_vars(GiveUpActivation(Clock))
  /\ SF_vars(CloseAtEnd(Clock)) /\ SF_vars(EndWithNothingOpen(Clock))

FairObserversSpec ==
  /\ ObserversSpec /\ ClockFairness
  /\ \A w \in Reviewers : WF_vars(LeaveWrite(w))

(* A review open past its end closes without anyone looking, however many *)
(* writes were under way as it ended and whatever the operators do.       *)
PastEndCloses ==
  row.status = "ready" /\ DeadlineHasPassed(row, now)
    ~> ~(row.status = "ready" /\ DeadlineHasPassed(row, now))

(* A Start that is due is consumed: it opens the session, is skipped, or  *)
(* is given up after its retries; only archiving sets it aside.           *)
DueStartIsConsumed ==
  StartDue(row, now) /\ row.status # "archived"
    ~> ~StartDue(row, now) \/ row.status = "archived"
=============================================================================
