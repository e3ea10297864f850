----------------------------- MODULE SessionProofs -----------------------------
(***************************************************************************)
(* Proofs about a session's stages, for every number of instruments,       *)
(* passes, reviewers and requests and every bound on time and retries.     *)
(* SessionLifecycle: its types, the two invariants of the stage, and that  *)
(* it implements ReviewStages.  SessionObservers: types, the stage's       *)
(* invariants under the observers, the safety of the reviewers' writes,    *)
(* the bound on activation retries, the record of each crossing, and the   *)
(* actions' own promises.  And the theorems of ScheduledSends on the       *)
(* behaviours of ScheduleMC that are its own.                              *)
(***************************************************************************)
EXTENDS SessionObservers, ScheduleMC, FiniteSetTheorems, TLAPS

-----------------------------------------------------------------------------
(***************************************************************************)
(* SessionLifecycle                                                        *)
(***************************************************************************)
(* What the actions that only move the stage do to the row. *)
LEMMA StageOfRow ==
  ASSUME row \in Rows, NEW s \in Statuses, SetStatus(s)
  PROVE  /\ row' \in Rows /\ row'.status = s /\ row'.start = row.start
         /\ row'.end = row.end /\ row'.releaseAt = row.releaseAt
  BY DEF Rows, SetStatus

(* The moments the buttons and the boxes hold are moments of the model. *)
LEMMA BoxesAreMoments ==
  /\ 0 \in Moments /\ None \in MomentOrNone
  /\ Starts \cup Ends \cup Releases \cup Untils \subseteq MomentOrNone
  BY MaxTimeAssumption, BoxesAssumption DEF Moments, MomentOrNone

LEMMA NewRowIsRow == NewRow \in Rows
  BY BoxesAreMoments DEF NewRow, Rows, Statuses

(* The details card's Save writes the four boxes and leaves the stage. *)
LEMMA SaveKeepsStage ==
  ASSUME row \in Rows, SaveSchedule
  PROVE  row' \in Rows /\ row'.status = row.status
<1>1. PICK s \in Starts \cup {row.start}, e \in Ends \cup {row.end},
           a \in Releases \cup {row.releaseAt}, u \in Untils \cup {row.releaseUntil} :
        /\ s # row.start /\ s # None => s > now
        /\ row' = [row EXCEPT !.start = s, !.end = e, !.releaseAt = a, !.releaseUntil = u]
        /\ ScheduleOrdered(row')
  BY Zenon DEF SaveSchedule
<1>2. s \in MomentOrNone /\ e \in MomentOrNone /\ a \in MomentOrNone /\ u \in MomentOrNone
  BY BoxesAreMoments DEF Rows
<1> QED
  BY <1>1, <1>2 DEF Rows

-----------------------------------------------------------------------------
(* What a step may do to the stage, the flags and Start: the only facts   *)
(* about the actions the stage's invariants rest on.                      *)
StageEffect ==
  \/ /\ row'.status = row.status /\ open' = open
     /\ row'.start \in {row.start, None} \/ IsEditable(row)
  \/ /\ Unlocked
     /\ \/ row'.status = "ready" /\ row'.start = None /\ open' = Instruments
        \/ row'.status \in {"draft", "archived"} /\ open' = {}
        \/ /\ row.status = "ready" /\ row'.status = "expired"
           /\ row'.start = row.start /\ open' = {}
        \/ /\ row.status \in {"draft", "validated", "archived"}
           /\ row'.status \in {"draft", "validated"} /\ open' = open

(* The operator's steps, one by one, keep the types. *)
LEMMA OperatorTypes == TypeOK /\ OperatorStep => TypeOK'
<1> SUFFICES ASSUME TypeOK, OperatorStep PROVE TypeOK'
  OBVIOUS
<1> USE DEF TypeOK
<1>1. CASE ExpireSession
  BY <1>1, StageOfRow DEF ExpireSession, LeaveReady, Statuses
<1>2. CASE OperatorRevert
  BY <1>2, StageOfRow DEF OperatorRevert, LeaveReady, Statuses
<1>3. CASE ArchiveSession
  BY <1>3, StageOfRow DEF ArchiveSession, LeaveReady, Statuses
<1>4. CASE UnarchiveSession
  BY <1>4, StageOfRow DEF UnarchiveSession, Statuses
<1>5. CASE ReleaseResponsesNow
  BY <1>5, BoxesAreMoments DEF ReleaseResponsesNow, Rows
<1>6. CASE StopResponsesRelease
  BY <1>6, BoxesAreMoments DEF StopResponsesRelease, Rows
<1>7. CASE EditSetup
  BY <1>7, StageOfRow DEF EditSetup, Statuses
<1>8. CASE SaveSchedule
  BY <1>8, SaveKeepsStage DEF SaveSchedule
<1>9. ASSUME NEW q \in Requests, PrepareGenerate(q) PROVE TypeOK'
  BY <1>9, StageOfRow DEF PrepareGenerate, Statuses
<1>10. ASSUME NEW q \in Requests, PrepareValidate(q) \/ ActivateReport(q) PROVE TypeOK'
  BY <1>10 DEF PrepareValidate, ActivateReport
<1>11. ASSUME NEW q \in Requests, MarkValidated(q) PROVE TypeOK'
  BY <1>11, StageOfRow DEF MarkValidated, Statuses
<1>12. ASSUME NEW q \in Requests, ActivateSession(q) PROVE TypeOK'
  <2>1. CASE row.status = "validated"
    <3>1. row' \in Rows
      BY <1>12, <2>1, BoxesAreMoments DEF ActivateSession, GoReady, Rows, Statuses
    <3> QED
      BY <1>12, <2>1, <3>1 DEF ActivateSession, GoReady
  <2>2. CASE row.status # "validated"
    BY <1>12, <2>2 DEF ActivateSession, rowVars
  <2> QED
    BY <2>1, <2>2
<1> QED
  BY <1>1, <1>2, <1>3, <1>4, <1>5, <1>6, <1>7, <1>8, <1>9, <1>10, <1>11, <1>12
  DEF OperatorStep

(* Each has one of the effects above, and waits for the writes if it moves*)
(* the stage.                                                             *)
LEMMA OperatorEffects ==
  ASSUME TypeOK, OperatorStep
  PROVE  StageEffect /\ UNCHANGED <<now, writing>>
<1> DEFINE Done == StageEffect /\ UNCHANGED <<now, writing>>
<1>1. row \in Rows
  BY DEF TypeOK
<1> USE DEF StageEffect
<1>2. CASE ExpireSession
  BY <1>1, <1>2, StageOfRow DEF ExpireSession, LeaveReady, Statuses
<1>3. CASE OperatorRevert
  <2>1. row'.status = "draft"
    BY <1>1, <1>3, StageOfRow DEF OperatorRevert, LeaveReady, Statuses
  <2> QED
    BY <1>3, <2>1 DEF OperatorRevert, LeaveReady
<1>4. CASE ArchiveSession
  BY <1>1, <1>4, StageOfRow DEF ArchiveSession, LeaveReady, Statuses
<1>5. CASE UnarchiveSession
  BY <1>1, <1>5, StageOfRow DEF UnarchiveSession, Statuses
<1>6. CASE ReleaseResponsesNow \/ StopResponsesRelease
  BY <1>1, <1>6 DEF ReleaseResponsesNow, StopResponsesRelease, Rows
<1>7. CASE EditSetup
  BY <1>1, <1>7, StageOfRow DEF EditSetup, IsEditable, Statuses
<1>8. CASE SaveSchedule
  <2>1. row'.status = row.status
    BY <1>1, <1>8, SaveKeepsStage
  <2> QED
    BY <1>8, <2>1 DEF SaveSchedule
<1>9. ASSUME NEW q \in Requests, PrepareGenerate(q) PROVE Done
  BY <1>1, <1>9, StageOfRow DEF PrepareGenerate, IsEditable, Statuses
<1>10. ASSUME NEW q \in Requests, PrepareValidate(q) \/ ActivateReport(q) PROVE Done
  BY <1>10 DEF PrepareValidate, ActivateReport
<1>11. ASSUME NEW q \in Requests, MarkValidated(q) PROVE Done
  <2>1. row.status = "draft" => row'.status = "validated"
    BY <1>1, <1>11, StageOfRow DEF MarkValidated, Statuses
  <2> QED
    BY <1>11, <2>1 DEF MarkValidated
<1>12. ASSUME NEW q \in Requests, ActivateSession(q) PROVE Done
  <2>1. row.status = "validated" => row'.status = "ready" /\ row'.start = None
    BY <1>1, <1>12 DEF ActivateSession, GoReady, Rows
  <2> QED
    BY <1>12, <2>1 DEF ActivateSession, GoReady, rowVars
<1> QED
  BY <1>2, <1>3, <1>4, <1>5, <1>6, <1>7, <1>8, <1>9, <1>10, <1>11, <1>12
  DEF OperatorStep

(* The inductive invariant: the stage invariants are inductive together   *)
(* once the row is known to be one.                                       *)
StageInv == TypeOK /\ OpenOnlyWhileReady /\ OpeningConsumesStart

LEMMA InitStageInv == Init => StageInv
<1> SUFFICES ASSUME Init PROVE StageInv
  OBVIOUS
<1> USE BoxesAreMoments, NewRowIsRow
<1>1. CASE row = NewRow /\ open = {} /\ stamped = {}
  BY <1>1 DEF Init, StageInv, TypeOK, OpenOnlyWhileReady, OpeningConsumesStart, NewRow
<1>2. CASE /\ \E e \in Ends : row = [NewRow EXCEPT !.status = "ready", !.end = e]
           /\ open \in SUBSET Instruments
           /\ stamped = {}
  <2>1. PICK e \in Ends : row = [NewRow EXCEPT !.status = "ready", !.end = e]
    BY <1>2
  <2>2. row \in Rows /\ row.status = "ready" /\ row.start = None
    BY <2>1 DEF NewRow, Rows, Statuses
  <2> QED
    BY <1>2, <2>2 DEF Init, StageInv, TypeOK, OpenOnlyWhileReady, OpeningConsumesStart
<1>3. CASE /\ row = [NewRow EXCEPT !.status = "ready", !.end = 0]
           /\ open = {}
           /\ stamped = Instruments
  <2>1. row \in Rows /\ row.status = "ready" /\ row.start = None
    BY <1>3 DEF NewRow, Rows, Statuses, MomentOrNone
  <2> QED
    BY <1>3, <2>1 DEF Init, StageInv, TypeOK, OpenOnlyWhileReady, OpeningConsumesStart
<1> QED
  BY <1>1, <1>2, <1>3 DEF Init

LEMMA StageEffectKeeps ==
  OpenOnlyWhileReady /\ OpeningConsumesStart /\ StageEffect
    => OpenOnlyWhileReady' /\ OpeningConsumesStart'
  BY DEF OpenOnlyWhileReady, OpeningConsumesStart, StageEffect, IsEditable

LEMMA NextStageInv == StageInv /\ [Next]_lifecycleVars => StageInv'
<1> SUFFICES ASSUME StageInv, [Next]_lifecycleVars PROVE StageInv'
  OBVIOUS
<1> USE DEF StageInv, TypeOK, OpenOnlyWhileReady, OpeningConsumesStart
<1>1. CASE OperatorStep
  BY <1>1, OperatorTypes, OperatorEffects, StageEffectKeeps
<1>2. ASSUME NEW w \in Reviewers, GateWrite(w) PROVE StageInv'
  BY <1>2 DEF GateWrite
<1>3. ASSUME NEW w \in Reviewers, CommitWrite(w) PROVE StageInv'
  BY <1>3 DEF CommitWrite
<1>4. CASE Tick
  BY <1>4, MaxTimeAssumption DEF Tick, Moments
<1>5. CASE UNCHANGED lifecycleVars
  BY <1>5 DEF lifecycleVars
<1> QED
  BY <1>1, <1>2, <1>3, <1>4, <1>5 DEF Next

(* Every state keeps the types of the row, the flags and the requests. *)
THEOREM TypeCorrect == Spec => []TypeOK
<1>1. Init => StageInv
  BY InitStageInv
<1>2. StageInv /\ [Next]_lifecycleVars => StageInv'
  BY NextStageInv
<1>3. StageInv => TypeOK
  BY DEF StageInv
<1> QED
  BY <1>1, <1>2, <1>3, PTL DEF Spec

(* No instrument accepts responses on a session that is not open, and an  *)
(* opened session has no Start left: whatever the operators, their stale  *)
(* requests and the reviewers do (archive_session, activate_session).     *)
THEOREM StagesAreSafe == Spec => []OpenOnlyWhileReady /\ []OpeningConsumesStart
<1>1. Init => StageInv
  BY InitStageInv
<1>2. StageInv /\ [Next]_lifecycleVars => StageInv'
  BY NextStageInv
<1>3. StageInv => OpenOnlyWhileReady /\ OpeningConsumesStart
  BY DEF StageInv
<1> QED
  BY <1>1, <1>2, <1>3, PTL DEF Spec

(* A session that was opened, and left again by whatever exit, has no Start *)
(* left that the clock could fire a second time (activate_session).         *)
THEOREM OpenedHasNoStart == Spec => []OpeningConsumesStart
  BY StagesAreSafe, PTL

-----------------------------------------------------------------------------
(* The refinement of ReviewStages.  A transition holds the exclusive lock, *)
(* so no write is under way as it moves the stage.                         *)

LEMMA InitStages == Init => Stages!Init
<1> SUFFICES ASSUME Init PROVE row.status \in {"draft", "ready"} /\ writing = {}
  BY DEF Stages!Init
<1>1. CASE row = NewRow
  BY <1>1 DEF Init, NewRow
<1>2. CASE \E e \in Ends : row = [NewRow EXCEPT !.status = "ready", !.end = e]
  BY <1>2 DEF Init, NewRow
<1>3. CASE row = [NewRow EXCEPT !.status = "ready", !.end = 0]
  BY <1>3 DEF Init, NewRow
<1> QED
  BY <1>1, <1>2, <1>3 DEF Init

LEMMA OperatorMoves ==
  ASSUME TypeOK, OperatorStep
  PROVE  Stages!Move \/ UNCHANGED Stages!stageVars
<1> USE DEF TypeOK, Stages!stageVars
<1> DEFINE Step == Stages!Move \/ UNCHANGED Stages!stageVars
<1>a. ASSUME Unlocked, UNCHANGED writing, <<row.status, row'.status>> \in Stages!Moves
      PROVE  Step
  BY <1>a DEF Unlocked, Stages!Move
<1>b. ASSUME NEW s \in Statuses, Unlocked, SetStatus(s), UNCHANGED writing,
             <<row.status, s>> \in Stages!Moves \/ row.status = s
      PROVE  Step
  <2>1. row'.status = s
    BY <1>b, StageOfRow
  <2> QED
    BY <1>a, <1>b, <2>1
<1> USE DEF Stages!Moves, Stages!Stages, Statuses
<1>1. CASE ExpireSession
  BY <1>1, <1>b DEF ExpireSession, LeaveReady
<1>2. CASE OperatorRevert
  BY <1>2, <1>b DEF OperatorRevert, LeaveReady
<1>3. CASE ArchiveSession
  <2>1. <<row.status, "archived">> \in Stages!Moves
    BY <1>3 DEF ArchiveSession, Rows
  <2> QED
    BY <1>3, <1>b, <2>1 DEF ArchiveSession, LeaveReady
<1>4. CASE UnarchiveSession
  BY <1>4, <1>b DEF UnarchiveSession
<1>5. CASE ReleaseResponsesNow \/ StopResponsesRelease
  BY <1>5 DEF ReleaseResponsesNow, StopResponsesRelease, Rows
<1>6. CASE EditSetup
  BY <1>6, <1>b DEF EditSetup, IsEditable
<1>7. CASE SaveSchedule
  BY <1>7, SaveKeepsStage DEF SaveSchedule
<1>8. ASSUME NEW q \in Requests, PrepareGenerate(q) PROVE Step
  BY <1>8, <1>b DEF PrepareGenerate, IsEditable
<1>9. ASSUME NEW q \in Requests, PrepareValidate(q) \/ ActivateReport(q) PROVE Step
  BY <1>9 DEF PrepareValidate, ActivateReport
<1>10. ASSUME NEW q \in Requests, MarkValidated(q) PROVE Step
  BY <1>10, <1>b DEF MarkValidated
<1>11. ASSUME NEW q \in Requests, ActivateSession(q) PROVE Step
  <2>1. CASE row.status = "validated"
    <3>1. row'.status = "ready"
      BY <1>11, <2>1 DEF ActivateSession, GoReady, Rows
    <3> QED
      BY <1>11, <1>a, <2>1, <3>1 DEF ActivateSession
  <2>2. CASE row.status # "validated"
    BY <1>11, <2>2 DEF ActivateSession, rowVars
  <2> QED
    BY <2>1, <2>2
<1> QED
  BY <1>1, <1>2, <1>3, <1>4, <1>5, <1>6, <1>7, <1>8, <1>9, <1>10, <1>11 DEF OperatorStep

LEMMA NextStages ==
  TypeOK /\ [Next]_lifecycleVars => [Stages!Next]_Stages!stageVars
<1> SUFFICES ASSUME TypeOK, [Next]_lifecycleVars
             PROVE  [Stages!Next]_Stages!stageVars
  OBVIOUS
<1>1. CASE OperatorStep
  BY <1>1, OperatorMoves DEF Stages!Next
<1>2. ASSUME NEW w \in Reviewers, GateWrite(w) PROVE Stages!BeginWrite
  BY <1>2 DEF GateWrite, Stages!BeginWrite
<1>3. ASSUME NEW w \in Reviewers, CommitWrite(w) PROVE Stages!EndWrite
  BY <1>3 DEF CommitWrite, Stages!EndWrite
<1>4. CASE Tick
  BY <1>4 DEF Tick, Stages!stageVars
<1>5. CASE UNCHANGED lifecycleVars
  BY <1>5 DEF lifecycleVars, Stages!stageVars
<1> QED
  BY <1>1, <1>2, <1>3, <1>4, <1>5 DEF Next, Stages!Next

(* The lifecycle moves along the stage's edges only, never under a write, *)
(* and lets a write begin only in an open review.                         *)
THEOREM ImplementsReviewStages == Spec => ReviewStagesHold
<1>1. Init => Stages!Init
  BY InitStages
<1>2. TypeOK /\ [Next]_lifecycleVars => [Stages!Next]_Stages!stageVars
  BY NextStages
<1> QED
  BY <1>1, <1>2, TypeCorrect, PTL DEF Spec, ReviewStagesHold, Stages!Spec

-----------------------------------------------------------------------------
(***************************************************************************)
(* SessionObservers                                                        *)
(***************************************************************************)
LEMMA ObserverSets ==
  Passes \subseteq Observers /\ Reviewers \subseteq Observers /\ Clock \in Passes
  BY PassesAssumption DEF Observers

(* A failed activation remembers the Start it was fired for. *)
FiringKnown ==
  \A p \in Passes : at[p] \in {"failed", "record"} => firing[p] \in Moments

Types == TypeOK /\ ObserverTypeOK /\ FiringKnown

-----------------------------------------------------------------------------
(* The steps that leave the lifecycle's variables alone. *)
Quiet(o) ==
  \/ o \in Passes /\ (\/ BeginPass(o) \/ NoActivationDue(o) \/ ActivationMoot(o)
                      \/ CountRetries(o) \/ RecordRetry(o) \/ StampReleaseWindow(o)
                      \/ ActivationFails(o) \/ TriggerFails(o))
  \/ o \in Reviewers /\ (BeginReview(o) \/ CheckAccepts(o) \/ RefuseWrite(o))
  \/ ObserveDeadline(o) \/ SessionBusy(o)

LEMMA QuietLeavesLifecycle ==
  ASSUME NEW o \in Observers, Quiet(o) PROVE UNCHANGED lifecycleVars
  BY DEF Quiet, BeginPass, NoActivationDue, ActivationMoot, CountRetries, RecordRetry,
     StampReleaseWindow, ActivationFails, TriggerFails, BeginReview, CheckAccepts,
     RefuseWrite, ObserveDeadline, SessionBusy

(* The steps of the observers that write the row or the flags. *)
Loud(o) ==
  \/ o \in Passes /\ (SkipActivation(o) \/ ScheduledActivate(o) \/ GiveUpActivation(o))
  \/ ReopenWhileLive(o) \/ CloseAtEnd(o) \/ EndWithNothingOpen(o)

(* Every step is one of these. *)
LEMMA StepKinds ==
  ASSUME [ObserversNext]_vars
  PROVE  \/ OperatorStep /\ UNCHANGED <<observerVars, auditVars>>
         \/ Tick /\ UNCHANGED <<observerVars, auditVars>>
         \/ SpacingElapses
         \/ \E o \in Observers : Quiet(o) \/ Loud(o)
         \/ \E w \in Reviewers : EnterWrite(w) \/ LeaveWrite(w)
         \/ UNCHANGED vars
  BY ObserverSets DEF ObserversNext, PassStep, ActivationStep, DeadlineStep, WriteStep, Quiet, Loud

-----------------------------------------------------------------------------
(* Types. *)

LEMMA RowsKept ==
  ASSUME Types, NEW o \in Observers, Loud(o)
  PROVE  TypeOK'
<1> USE DEF TypeOK, Types
<1>1. ASSUME o \in Passes, SkipActivation(o) \/ GiveUpActivation(o) PROVE TypeOK'
  <2>1. row' \in Rows
    BY <1>1, BoxesAreMoments DEF SkipActivation, GiveUpActivation, Rows
  <2> QED
    BY <1>1, <2>1 DEF SkipActivation, GiveUpActivation
<1>2. ASSUME o \in Passes, ScheduledActivate(o) PROVE TypeOK'
  <2>1. row' \in Rows
    BY <1>2, BoxesAreMoments DEF ScheduledActivate, GoReady, Rows, Statuses
  <2> QED
    BY <1>2, <2>1 DEF ScheduledActivate, GoReady
<1>3. ExpireAtEnd => row' \in Rows
  <2>1. ASSUME row.status = "ready", SetStatus("expired") PROVE row' \in Rows
    BY <2>1, StageOfRow DEF Statuses
  <2> QED
    BY <2>1 DEF ExpireAtEnd
<1>4. CASE ReopenWhileLive(o)
  BY <1>4 DEF ReopenWhileLive, DeadlineDone
<1>5. CASE CloseAtEnd(o)
  BY <1>3, <1>5 DEF CloseAtEnd, DeadlineDone, rowVars, Unstamped
<1>6. CASE EndWithNothingOpen(o)
  BY <1>3, <1>6 DEF EndWithNothingOpen, DeadlineDone
<1> QED
  BY <1>1, <1>2, <1>4, <1>5, <1>6 DEF Loud

LEMMA QuietTypes ==
  ASSUME Types, NEW o \in Observers, Quiet(o)
  PROVE  ObserverTypeOK' /\ FiringKnown'
<1> DEFINE Done == ObserverTypeOK' /\ FiringKnown'
<1>0. UNCHANGED lifecycleVars
  BY QuietLeavesLifecycle
<1> USE ObserverSets, NewRowIsRow, BoxesAreMoments DEF Types, TypeOK, ObserverTypeOK, FiringKnown,
        ObserverSteps, GoTo, Forget, Finish, AttemptOver, auditVars
<1>1. ASSUME o \in Passes, BeginPass(o) PROVE Done
  BY <1>1 DEF BeginPass
<1>2. ASSUME o \in Passes, NoActivationDue(o) \/ ActivationMoot(o) PROVE Done
  BY <1>2 DEF NoActivationDue, ActivationMoot
<1>3. ASSUME o \in Passes, ActivationFails(o) PROVE Done
  <2>1. row.start \in Moments
    BY <1>3 DEF ActivationFails, StartDue, Rows, MomentOrNone
  <2> QED
    BY <1>3, <2>1 DEF ActivationFails, MomentOrNone
<1>4. ASSUME o \in Passes, CountRetries(o) PROVE Done
  BY <1>4 DEF CountRetries
<1>5. ASSUME o \in Passes, RecordRetry(o) PROVE Done
  <2>1. retries' \in [Moments -> Nat]
    BY <1>5 DEF RecordRetry
  <2> QED
    BY <1>5, <2>1 DEF RecordRetry
<1>6. ASSUME o \in Passes, StampReleaseWindow(o) PROVE Done
  <2>1. windowStamps' \in [Crossings -> Nat]
    BY <1>6 DEF StampReleaseWindow
  <2> QED
    BY <1>6, <2>1 DEF StampReleaseWindow
<1>7. ASSUME o \in Passes, TriggerFails(o) PROVE Done
  BY <1>7 DEF TriggerFails
<1>8. ASSUME o \in Reviewers, BeginReview(o) PROVE Done
  BY <1>8 DEF BeginReview
<1>9. ASSUME o \in Reviewers, CheckAccepts(o) \/ RefuseWrite(o) PROVE Done
  BY <1>9 DEF CheckAccepts, RefuseWrite
<1>10. CASE ObserveDeadline(o)
  <2>1. \E step \in ObserverSteps \ {"failed", "record"} : GoTo(o, step)
    BY <1>10 DEF ObserveDeadline, Return
  <2> QED
    BY <1>10, <2>1 DEF ObserveDeadline
<1>11. CASE SessionBusy(o)
  BY <1>11 DEF SessionBusy
<1> QED
  BY <1>1, <1>2, <1>3, <1>4, <1>5, <1>6, <1>7, <1>8, <1>9, <1>10, <1>11 DEF Quiet

LEMMA LoudTypes ==
  ASSUME Types, NEW o \in Observers, Loud(o)
  PROVE  ObserverTypeOK' /\ FiringKnown'
<1> DEFINE Done == ObserverTypeOK' /\ FiringKnown'
<1>0. row' \in Rows
  BY RowsKept DEF TypeOK
<1> USE ObserverSets, BoxesAreMoments DEF Types, ObserverTypeOK, FiringKnown,
        ObserverSteps, GoTo, Remember, AttemptOver, auditVars
<1>1. ASSUME o \in Passes, SkipActivation(o) \/ ScheduledActivate(o) PROVE Done
  BY <1>0, <1>1 DEF SkipActivation, ScheduledActivate
<1>2. ASSUME o \in Passes, GiveUpActivation(o) PROVE Done
  BY <1>0, <1>2 DEF GiveUpActivation
<1>3. ASSUME DeadlineDone(o), WriteReached \/ UNCHANGED reached PROVE Done
  <2>1. reached' \in [Moments -> Nat]
    BY <1>3 DEF WriteReached
  <2> QED
    BY <1>0, <1>3, <2>1 DEF DeadlineDone, Return
<1>4. CASE ReopenWhileLive(o) \/ CloseAtEnd(o) \/ EndWithNothingOpen(o)
  BY <1>3, <1>4 DEF ReopenWhileLive, CloseAtEnd, EndWithNothingOpen
<1> QED
  BY <1>1, <1>2, <1>4 DEF Loud

(* Entering and leaving a write move one reviewer and the shared lock. *)
LEMMA WriteTypes ==
  ASSUME Types, NEW w \in Reviewers, EnterWrite(w) \/ LeaveWrite(w)
  PROVE  Types'
<1> USE ObserverSets, NewRowIsRow, BoxesAreMoments DEF Types, TypeOK, ObserverTypeOK, FiringKnown,
        ObserverSteps, GoTo, Forget, Finish, auditVars
<1>1. CASE EnterWrite(w)
  BY <1>1 DEF EnterWrite, GateWrite
<1>2. CASE LeaveWrite(w)
  BY <1>2 DEF LeaveWrite, CommitWrite
<1> QED
  BY <1>1, <1>2

LEMMA NextTypes == Types /\ [ObserversNext]_vars => Types'
<1> SUFFICES ASSUME Types, [ObserversNext]_vars PROVE Types'
  OBVIOUS
<1> USE DEF Types
<1>1. ASSUME UNCHANGED <<observerVars, auditVars>> PROVE ObserverTypeOK' /\ FiringKnown'
  BY <1>1 DEF observerVars, auditVars, ObserverTypeOK, FiringKnown
<1>2. CASE OperatorStep /\ UNCHANGED <<observerVars, auditVars>>
  BY <1>1, <1>2, OperatorTypes
<1>3. CASE Tick /\ UNCHANGED <<observerVars, auditVars>>
  BY <1>1, <1>3, MaxTimeAssumption DEF Tick, Moments, TypeOK
<1>4. CASE SpacingElapses
  BY <1>4 DEF SpacingElapses, lifecycleVars, auditVars, TypeOK, ObserverTypeOK, FiringKnown
<1>5. ASSUME NEW o \in Observers, Quiet(o) PROVE Types'
  BY <1>5, QuietTypes, QuietLeavesLifecycle DEF lifecycleVars, TypeOK
<1>6. ASSUME NEW o \in Observers, Loud(o) PROVE Types'
  BY <1>6, LoudTypes, RowsKept
<1>7. ASSUME NEW w \in Reviewers, EnterWrite(w) \/ LeaveWrite(w) PROVE Types'
  BY <1>7, WriteTypes
<1>8. CASE UNCHANGED vars
  BY <1>1, <1>8 DEF vars, lifecycleVars, TypeOK
<1> QED
  BY <1>2, <1>3, <1>4, <1>5, <1>6, <1>7, <1>8, StepKinds

LEMMA InitTypes == ObserversInit => Types
<1> SUFFICES ASSUME ObserversInit PROVE Types
  OBVIOUS
<1>1. TypeOK
  BY InitStageInv DEF ObserversInit, StageInv
<1>2. reached \in [Moments -> Nat]
  BY DEF ObserversInit
<1> QED
  BY <1>1, <1>2, ObserverSets, NewRowIsRow, BoxesAreMoments
  DEF ObserversInit, Types, ObserverTypeOK, FiringKnown, ObserverSteps

(* The observers keep the types of what they load, count and record. *)
THEOREM ObserverTypesCorrect == ObserversSpec => []ObserverTypeOK
<1>1. Types => ObserverTypeOK
  BY DEF Types
<1> QED
  BY <1>1, InitTypes, NextTypes, PTL DEF ObserversSpec

-----------------------------------------------------------------------------
(* The stage under the observers.  An observer clears Start, opens a       *)
(* session, reopens a live one, ends one, or closes instruments whose      *)
(* session has just been ended by somebody else.                           *)
ObserverEffect ==
  \/ /\ row'.status = row.status /\ open' = open
     /\ row'.start \in {row.start, None}
  \/ /\ Unlocked
     /\ \/ row'.status = "ready" /\ row'.start = None /\ open' = Instruments
        \/ row.status = "ready" /\ row' = row /\ open' = Instruments
        \/ /\ row.status = "ready" /\ row'.status = "expired"
           /\ row'.start = row.start /\ open' \subseteq open
        \/ row.status # "ready" /\ row' = row /\ open' \subseteq open

LEMMA LoudEffects ==
  ASSUME Types, NEW o \in Observers, Loud(o)
  PROVE  ObserverEffect /\ UNCHANGED <<now, writing>>
<1> DEFINE Done == ObserverEffect /\ UNCHANGED <<now, writing>>
<1>0. row \in Rows
  BY DEF Types, TypeOK
<1> USE DEF ObserverEffect
<1>1. ASSUME o \in Passes, SkipActivation(o) \/ GiveUpActivation(o) PROVE Done
  <2>1. row'.status = row.status /\ row'.start = None
    BY <1>0, <1>1 DEF SkipActivation, GiveUpActivation, Rows
  <2> QED
    BY <1>1, <2>1 DEF SkipActivation, GiveUpActivation
<1>2. ASSUME o \in Passes, ScheduledActivate(o) PROVE Done
  <2>1. row'.status = "ready" /\ row'.start = None
    BY <1>0, <1>2 DEF ScheduledActivate, GoReady, Rows
  <2> QED
    BY <1>2, <2>1 DEF ScheduledActivate, LockForActivation, GoReady
<1>3. ASSUME Unlocked, ExpireAtEnd, open' \subseteq open PROVE ObserverEffect
  <2>1. row.status = "ready" => row'.status = "expired" /\ row'.start = row.start
    BY <1>0, <1>3, StageOfRow DEF ExpireAtEnd, Statuses
  <2> QED
    BY <1>3, <2>1 DEF ExpireAtEnd
<1>4. CASE ReopenWhileLive(o)
  BY <1>4 DEF ReopenWhileLive, DeadlineDone
<1>5. CASE CloseAtEnd(o)
  BY <1>3, <1>5 DEF CloseAtEnd, DeadlineDone, rowVars
<1>6. CASE EndWithNothingOpen(o)
  BY <1>3, <1>6 DEF EndWithNothingOpen, DeadlineDone
<1> QED
  BY <1>1, <1>2, <1>4, <1>5, <1>6 DEF Loud

StageSafe == NothingOpenDuringSetup /\ OpeningConsumesStart

LEMMA EffectsKeepStage ==
  StageSafe /\ (StageEffect \/ ObserverEffect) => StageSafe'
  BY DEF StageSafe, NothingOpenDuringSetup, OpeningConsumesStart, StageEffect,
     ObserverEffect, IsEditable

LEMMA NextStageSafe == Types /\ StageSafe /\ [ObserversNext]_vars => StageSafe'
<1> SUFFICES ASSUME Types, StageSafe, [ObserversNext]_vars PROVE StageSafe'
  OBVIOUS
<1>1. ASSUME UNCHANGED <<row, open>> PROVE StageSafe'
  BY <1>1 DEF StageSafe, NothingOpenDuringSetup, OpeningConsumesStart
<1>2. CASE OperatorStep
  BY <1>2, OperatorEffects, EffectsKeepStage DEF Types
<1>3. CASE Tick
  BY <1>1, <1>3 DEF Tick
<1>4. CASE SpacingElapses
  BY <1>1, <1>4 DEF SpacingElapses, lifecycleVars
<1>5. ASSUME NEW o \in Observers, Quiet(o) PROVE StageSafe'
  BY <1>1, <1>5, QuietLeavesLifecycle DEF lifecycleVars
<1>6. ASSUME NEW o \in Observers, Loud(o) PROVE StageSafe'
  BY <1>6, LoudEffects, EffectsKeepStage
<1>7. ASSUME NEW w \in Reviewers, EnterWrite(w) \/ LeaveWrite(w) PROVE StageSafe'
  BY <1>1, <1>7 DEF EnterWrite, GateWrite, LeaveWrite, CommitWrite
<1>8. CASE UNCHANGED vars
  BY <1>1, <1>8 DEF vars, lifecycleVars
<1> QED
  BY <1>2, <1>3, <1>4, <1>5, <1>6, <1>7, <1>8, StepKinds

LEMMA InitStageSafe == ObserversInit => StageSafe
  BY InitStageInv DEF ObserversInit, StageInv, StageSafe, OpenOnlyWhileReady,
     NothingOpenDuringSetup

(* However the passes, the operators' stale requests and the reviewers'    *)
(* requests meet, no instrument accepts on a session in setup or archived. *)
THEOREM SetupIsClosed == ObserversSpec => []NothingOpenDuringSetup
<1>1. StageSafe => NothingOpenDuringSetup
  BY DEF StageSafe
<1> QED
  BY <1>1, InitTypes, NextTypes, InitStageSafe, NextStageSafe, PTL DEF ObserversSpec

-----------------------------------------------------------------------------
(* The reviewers' writes.  The gate reads the stage and the End again but  *)
(* not the flags, so what makes it safe is an invariant of the gap before  *)
(* it: once the route's check saw every flag set, a session that is ready  *)
(* at the gate still has them set, since the only step that clears a flag  *)
(* of an open session also ends it.                                        *)
WritingKnown == writing = {w \in Reviewers : at[w] = "write"}
GateSeesFlags ==
  \A w \in Reviewers : at[w] = "gate" /\ row.status = "ready" => assigned[w] \subseteq open
WritesSafe == WritingKnown /\ GateSeesFlags /\ WritesLandOnAcceptingInstruments

(* An effect on the stage disturbs neither a gate nor a write.             *)
LEMMA EffectsKeepWrites ==
  ASSUME Types, WritesSafe, StageEffect \/ ObserverEffect, UNCHANGED <<writing, assigned>>,
         \A w \in Reviewers : at'[w] \in {"gate", "write"} => at'[w] = at[w],
         \A w \in Reviewers : at[w] = "write" => at'[w] = at[w]
  PROVE  WritesSafe'
<1> USE DEF WritesSafe, WritingKnown
<1>1. WritingKnown'
  OBVIOUS
<1>2. \A w \in Reviewers : assigned[w] \subseteq Instruments
  BY DEF Types, ObserverTypeOK
<1>3. ASSUME NEW w \in Reviewers, at'[w] = "gate", row'.status = "ready"
      PROVE  assigned'[w] \subseteq open'
  BY <1>2, <1>3 DEF GateSeesFlags, StageEffect, ObserverEffect
<1>4. ASSUME NEW w \in Reviewers, at'[w] = "write"
      PROVE  row'.status = "ready" /\ assigned'[w] \subseteq open'
  <2>1. ~Unlocked
    BY <1>4 DEF Unlocked
  <2> QED
    BY <1>4, <2>1 DEF WritesLandOnAcceptingInstruments, StageEffect, ObserverEffect
<1> QED
  BY <1>1, <1>3, <1>4 DEF GateSeesFlags, WritesLandOnAcceptingInstruments

(* Nor does a step that leaves the stage alone, if the gate it opens has   *)
(* every flag set.                                                         *)
LEMMA StillKeepsWrites ==
  ASSUME WritesSafe, UNCHANGED <<row, open, writing, assigned>>,
         \A w \in Reviewers : at'[w] = "write" <=> at[w] = "write",
         \A w \in Reviewers : at'[w] = "gate" => at[w] = "gate" \/ assigned[w] \subseteq open
  PROVE  WritesSafe'
  BY DEF WritesSafe, WritingKnown, GateSeesFlags, WritesLandOnAcceptingInstruments

(* Only a reviewer's own steps reach its check, its gate and its write.    *)
LEMMA QuietKeepsWrites ==
  ASSUME Types, WritesSafe, NEW o \in Observers, Quiet(o)
  PROVE  WritesSafe'
<1>0. UNCHANGED <<row, open, writing>>
  BY QuietLeavesLifecycle DEF lifecycleVars
<1>1. /\ at \in [Observers -> ObserverSteps]
      /\ \A p \in Passes : p \notin Reviewers
      /\ Reviewers \subseteq Observers /\ Passes \subseteq Observers
  BY PassesAssumption DEF Types, ObserverTypeOK, Observers
<1> USE <1>0, <1>1, StillKeepsWrites DEF GoTo, Finish, AttemptOver
<1>2. ASSUME o \in Passes, \/ BeginPass(o) \/ NoActivationDue(o) \/ ActivationMoot(o)
                           \/ CountRetries(o) \/ RecordRetry(o) \/ StampReleaseWindow(o)
                           \/ ActivationFails(o) \/ TriggerFails(o)
      PROVE  WritesSafe'
  <2>1. UNCHANGED assigned /\ \A w \in Reviewers : at'[w] = at[w]
    BY <1>2 DEF BeginPass, NoActivationDue, ActivationMoot, CountRetries, RecordRetry,
       StampReleaseWindow, ActivationFails, TriggerFails
  <2> QED
    BY <2>1
<1>3. ASSUME o \in Reviewers, BeginReview(o) \/ RefuseWrite(o) PROVE WritesSafe'
  BY <1>3 DEF BeginReview, RefuseWrite
<1>4. ASSUME o \in Reviewers, CheckAccepts(o) PROVE WritesSafe'
  <2>1. at'[o] = "gate" => assigned[o] \subseteq open
    <3>1. CASE \A i \in assigned[o] : AcceptsResponses(row, i, now)
      BY <3>1 DEF AcceptsResponses
    <3>2. CASE ~\A i \in assigned[o] : AcceptsResponses(row, i, now)
      BY <1>4, <3>2 DEF CheckAccepts
    <3> QED
      BY <3>1, <3>2
  <2>2. at'[o] # "write"
    BY <1>4 DEF CheckAccepts
  <2> QED
    BY <1>4, <2>1, <2>2 DEF CheckAccepts
<1>5. CASE ObserveDeadline(o)
  <2>1. at[o] = "deadline" /\ at'[o] \notin {"gate", "write"} /\ UNCHANGED assigned
        /\ \A x \in Observers \ {o} : at'[x] = at[x]
    BY <1>5 DEF ObserveDeadline, Return
  <2> QED
    BY <2>1
<1>6. CASE SessionBusy(o)
  BY <1>6 DEF SessionBusy
<1> QED
  BY <1>2, <1>3, <1>4, <1>5, <1>6 DEF Quiet

LEMMA LoudKeepsWrites ==
  ASSUME Types, WritesSafe, NEW o \in Observers, Loud(o)
  PROVE  WritesSafe'
<1>1. /\ at \in [Observers -> ObserverSteps]
      /\ \A p \in Passes : p \notin Reviewers
      /\ Reviewers \subseteq Observers /\ Passes \subseteq Observers
  BY PassesAssumption DEF Types, ObserverTypeOK, Observers
<1>2. /\ UNCHANGED assigned /\ at[o] # "write" /\ at'[o] \notin {"gate", "write"}
      /\ \A x \in Observers \ {o} : at'[x] = at[x]
  BY <1>1 DEF Loud, SkipActivation, ScheduledActivate, LockForActivation, GiveUpActivation,
     AttemptOver, ReopenWhileLive, CloseAtEnd, EndWithNothingOpen, DeadlineDone, Return, GoTo
<1> QED
  BY <1>1, <1>2, LoudEffects, EffectsKeepWrites

(* The gate takes the reviewer into a write it has every flag for.         *)
LEMMA WriteStepKeepsWrites ==
  ASSUME Types, WritesSafe, NEW w \in Reviewers, EnterWrite(w) \/ LeaveWrite(w)
  PROVE  WritesSafe'
<1>1. at \in [Observers -> ObserverSteps] /\ Reviewers \subseteq Observers
  BY DEF Types, ObserverTypeOK, Observers
<1> USE <1>1 DEF WritesSafe, WritingKnown, GateSeesFlags, WritesLandOnAcceptingInstruments,
        GoTo, Finish
<1>2. CASE EnterWrite(w)
  BY <1>2 DEF EnterWrite, GateWrite
<1>3. CASE LeaveWrite(w)
  BY <1>3 DEF LeaveWrite, CommitWrite
<1> QED
  BY <1>2, <1>3

LEMMA NextWritesSafe == Types /\ WritesSafe /\ [ObserversNext]_vars => WritesSafe'
<1> SUFFICES ASSUME Types, WritesSafe, [ObserversNext]_vars PROVE WritesSafe'
  OBVIOUS
<1>1. CASE OperatorStep /\ UNCHANGED <<observerVars, auditVars>>
  BY <1>1, OperatorEffects, EffectsKeepWrites DEF Types, observerVars
<1>2. CASE Tick /\ UNCHANGED <<observerVars, auditVars>>
  BY <1>2, StillKeepsWrites DEF Tick, observerVars
<1>3. CASE SpacingElapses
  BY <1>3, StillKeepsWrites DEF SpacingElapses, lifecycleVars
<1>4. ASSUME NEW o \in Observers, Quiet(o) \/ Loud(o) PROVE WritesSafe'
  BY <1>4, QuietKeepsWrites, LoudKeepsWrites
<1>5. ASSUME NEW w \in Reviewers, EnterWrite(w) \/ LeaveWrite(w) PROVE WritesSafe'
  BY <1>5, WriteStepKeepsWrites
<1>6. CASE UNCHANGED vars
  BY <1>6, StillKeepsWrites DEF vars, lifecycleVars, observerVars
<1> QED
  BY <1>1, <1>2, <1>3, <1>4, <1>5, <1>6, StepKinds

LEMMA InitWritesSafe == ObserversInit => WritesSafe
  BY ObserverSets DEF ObserversInit, Init, WritesSafe, WritingKnown, GateSeesFlags,
     WritesLandOnAcceptingInstruments

(* While a write is under way the review stays open and every instrument   *)
(* of its reviewer keeps accepting, though the gate reads no flag          *)
(* (require_accepting_responses).                                          *)
THEOREM WritesAreSafe == ObserversSpec => []WritesLandOnAcceptingInstruments
<1>1. WritesSafe => WritesLandOnAcceptingInstruments
  BY DEF WritesSafe
<1> QED
  BY <1>1, InitTypes, NextTypes, InitWritesSafe, NextWritesSafe, PTL DEF ObserversSpec

-----------------------------------------------------------------------------
(* The refinement of ReviewStages survives the observers: those that move  *)
(* the stage hold the exclusive lock as the operators do.                  *)

LEMMA LoudMoves ==
  ASSUME Types, NEW o \in Observers, Loud(o)
  PROVE  Stages!Move \/ UNCHANGED Stages!stageVars
<1> DEFINE Done == Stages!Move \/ UNCHANGED Stages!stageVars
<1>1. row \in Rows /\ UNCHANGED writing
  BY LoudEffects DEF Types, TypeOK
<1>2. ASSUME Unlocked, <<row.status, row'.status>> \in Stages!Moves PROVE Done
  BY <1>1, <1>2 DEF Unlocked, Stages!Move
<1>3. ASSUME row'.status = row.status PROVE Done
  BY <1>1, <1>3 DEF Stages!stageVars
<1>4. ASSUME o \in Passes, SkipActivation(o) \/ GiveUpActivation(o) PROVE Done
  BY <1>1, <1>3, <1>4 DEF SkipActivation, GiveUpActivation, Rows
<1>5. ASSUME o \in Passes, ScheduledActivate(o) PROVE Done
  <2>1. row.status = "validated" /\ row'.status = "ready" /\ Unlocked
    BY <1>1, <1>5 DEF ScheduledActivate, LockForActivation, GoReady, Rows
  <2> QED
    BY <1>2, <2>1 DEF Stages!Moves
<1>6. ASSUME Unlocked, ExpireAtEnd PROVE Done
  <2>1. CASE row.status = "ready"
    <3>1. row'.status = "expired"
      BY <1>1, <1>6, <2>1, StageOfRow DEF ExpireAtEnd, Statuses
    <3> QED
      BY <1>2, <1>6, <2>1, <3>1 DEF Stages!Moves
  <2>2. CASE row.status # "ready"
    BY <1>3, <1>6, <2>2 DEF ExpireAtEnd
  <2> QED
    BY <2>1, <2>2
<1>7. CASE ReopenWhileLive(o)
  BY <1>3, <1>7 DEF ReopenWhileLive
<1>8. CASE CloseAtEnd(o)
  BY <1>3, <1>6, <1>8 DEF CloseAtEnd, rowVars
<1>9. CASE EndWithNothingOpen(o)
  BY <1>3, <1>6, <1>9 DEF EndWithNothingOpen
<1> QED
  BY <1>4, <1>5, <1>7, <1>8, <1>9 DEF Loud

LEMMA ObserversNextStages ==
  Types /\ [ObserversNext]_vars => [Stages!Next]_Stages!stageVars
<1> SUFFICES ASSUME Types, [ObserversNext]_vars PROVE [Stages!Next]_Stages!stageVars
  OBVIOUS
<1> USE DEF Stages!Next
<1>1. CASE OperatorStep
  BY <1>1, OperatorMoves DEF Types
<1>2. CASE Tick
  BY <1>2 DEF Tick, Stages!stageVars
<1>3. CASE SpacingElapses
  BY <1>3 DEF SpacingElapses, lifecycleVars, Stages!stageVars
<1>4. ASSUME NEW o \in Observers, Quiet(o) PROVE UNCHANGED Stages!stageVars
  BY <1>4, QuietLeavesLifecycle DEF lifecycleVars, Stages!stageVars
<1>5. ASSUME NEW o \in Observers, Loud(o) PROVE [Stages!Next]_Stages!stageVars
  BY <1>5, LoudMoves
<1>6. ASSUME NEW w \in Reviewers, EnterWrite(w) PROVE Stages!BeginWrite
  BY <1>6 DEF EnterWrite, GateWrite, Stages!BeginWrite
<1>7. ASSUME NEW w \in Reviewers, LeaveWrite(w) PROVE Stages!EndWrite
  BY <1>7 DEF LeaveWrite, CommitWrite, Stages!EndWrite
<1>8. CASE UNCHANGED vars
  BY <1>8 DEF vars, lifecycleVars, Stages!stageVars
<1> QED
  BY <1>1, <1>2, <1>3, <1>4, <1>5, <1>6, <1>7, <1>8, StepKinds

(* With the observers running, the session still moves along the stage's   *)
(* edges only, and never under a write.                                    *)
THEOREM ObserversImplementReviewStages == ObserversSpec => ReviewStagesHold
<1>1. ObserversInit => Stages!Init
  BY InitStages DEF ObserversInit
<1> QED
  BY <1>1, InitTypes, NextTypes, ObserversNextStages, PTL
  DEF ObserversSpec, ReviewStagesHold, Stages!Spec

-----------------------------------------------------------------------------
(* The bound on the retries of one Start.  A pass that counted fewer       *)
(* retries than the policy allows, and has not recorded its own yet, is    *)
(* pending: the retries on record and the pending ones stay below the      *)
(* policy's number and one for each other pass.                            *)
Pending(m) == {p \in Passes : at[p] = "record" /\ firing[p] = m /\ counted[p] < MaxRetries}

RetriesLeft ==
  \A m \in Moments :
    retries[m] + Cardinality(Pending(m)) <= MaxRetries + Cardinality(Passes) - 1

LEMMA PassesCounted ==
  /\ Cardinality(Passes) \in Nat /\ Cardinality(Passes) > 0
  /\ \A S \in SUBSET Passes :
       IsFiniteSet(S) /\ Cardinality(S) \in Nat /\ Cardinality(S) <= Cardinality(Passes)
<1>1. IsFiniteSet(Passes) /\ Passes # {}
  BY PassesAssumption
<1>2. ASSUME NEW S \in SUBSET Passes
      PROVE  IsFiniteSet(S) /\ Cardinality(S) \in Nat /\ Cardinality(S) <= Cardinality(Passes)
  BY <1>1, FS_Subset, FS_CardinalityType
<1> QED
  BY <1>1, <1>2, FS_CardinalityType, FS_EmptySet

LEMMA FewerPending ==
  ASSUME NEW S \in SUBSET Passes, NEW T \in SUBSET S
  PROVE  Cardinality(T) \in Nat /\ Cardinality(T) <= Cardinality(S) /\ Cardinality(S) \in Nat
  BY PassesCounted, FS_Subset

(* A step that counts nothing and records no retry starts no pending one.  *)
LEMMA StillKeepsRetries ==
  ASSUME Types, RetriesLeft, UNCHANGED retries,
         \A p \in Passes : at'[p] = "record" =>
           at[p] = "record" /\ firing'[p] = firing[p] /\ counted'[p] = counted[p]
  PROVE  RetriesLeft'
<1> SUFFICES ASSUME NEW m \in Moments
             PROVE  retries[m] + Cardinality(Pending(m)') <= MaxRetries + Cardinality(Passes) - 1
  BY DEF RetriesLeft
<1>1. Pending(m)' \in SUBSET Pending(m) /\ Pending(m) \in SUBSET Passes
  BY DEF Pending
<1>2. /\ Cardinality(Pending(m)') \in Nat /\ Cardinality(Pending(m)) \in Nat
      /\ Cardinality(Pending(m)') <= Cardinality(Pending(m))
  BY <1>1, FewerPending
<1>3. retries[m] + Cardinality(Pending(m)) <= MaxRetries + Cardinality(Passes) - 1
  BY DEF RetriesLeft
<1> QED
  BY <1>2, <1>3, PassesCounted, BoundsAssumption DEF Types, ObserverTypeOK

(* The count: either the policy's number is reached already, or there is   *)
(* room for every pass.                                                    *)
LEMMA CountKeepsRetries ==
  ASSUME Types, RetriesLeft, NEW p \in Passes, CountRetries(p)
  PROVE  RetriesLeft'
<1> SUFFICES ASSUME NEW m \in Moments
             PROVE  retries[m] + Cardinality(Pending(m)') <= MaxRetries + Cardinality(Passes) - 1
  BY DEF RetriesLeft, CountRetries, auditVars
<1>1. retries[m] \in Nat /\ MaxRetries \in Nat
  BY BoundsAssumption DEF Types, ObserverTypeOK
<1>2. at \in [Observers -> ObserverSteps] /\ counted \in [Passes -> Nat] /\ p \in Observers
  BY ObserverSets DEF Types, ObserverTypeOK
<1>3. CASE firing[p] = m /\ retries[m] < MaxRetries
  <2>1. Pending(m)' \in SUBSET Passes
    BY DEF Pending
  <2>2. Cardinality(Pending(m)') \in Nat /\ Cardinality(Pending(m)') <= Cardinality(Passes)
    BY <2>1, PassesCounted
  <2> QED
    BY <1>1, <1>3, <2>2, PassesCounted
<1>4. CASE ~(firing[p] = m /\ retries[m] < MaxRetries)
  <2>1. Pending(m)' \in SUBSET Pending(m) /\ Pending(m) \in SUBSET Passes
    BY <1>1, <1>2, <1>4 DEF Pending, CountRetries, GoTo
  <2>2. /\ Cardinality(Pending(m)') \in Nat /\ Cardinality(Pending(m)) \in Nat
        /\ Cardinality(Pending(m)') <= Cardinality(Pending(m))
    BY <2>1, FewerPending
  <2>3. retries[m] + Cardinality(Pending(m)) <= MaxRetries + Cardinality(Passes) - 1
    BY DEF RetriesLeft
  <2> QED
    BY <1>1, <2>2, <2>3, PassesCounted
<1> QED
  BY <1>3, <1>4

(* The record: a retry on record for a retry no longer pending.            *)
LEMMA RecordKeepsRetries ==
  ASSUME Types, RetriesLeft, NEW p \in Passes, RecordRetry(p)
  PROVE  RetriesLeft'
<1> SUFFICES ASSUME NEW m \in Moments
             PROVE  retries'[m] + Cardinality(Pending(m)') <= MaxRetries + Cardinality(Passes) - 1
  BY DEF RetriesLeft
<1>1. /\ retries \in [Moments -> Nat] /\ MaxRetries \in Nat /\ p \in Observers
      /\ at \in [Observers -> ObserverSteps] /\ firing \in [Passes -> MomentOrNone]
      /\ counted \in [Passes -> Nat]
  BY BoundsAssumption, ObserverSets DEF Types, ObserverTypeOK
<1>2. retries[m] + Cardinality(Pending(m)) <= MaxRetries + Cardinality(Passes) - 1
  BY DEF RetriesLeft
<1>3. Pending(m) \in SUBSET Passes
  BY DEF Pending
<1>4. CASE firing[p] = m
  <2>1. p \in Pending(m) /\ Pending(m)' \in SUBSET (Pending(m) \ {p})
    BY <1>1, <1>4 DEF Pending, RecordRetry, AttemptOver, GoTo
  <2>2. Cardinality(Pending(m) \ {p}) = Cardinality(Pending(m)) - 1
    BY <1>3, <2>1, PassesCounted, FS_RemoveElement
  <2>3. /\ Cardinality(Pending(m)') \in Nat
        /\ Cardinality(Pending(m)') <= Cardinality(Pending(m) \ {p})
    BY <1>3, <2>1, FewerPending
  <2>4. retries'[m] = retries[m] + 1
    BY <1>1, <1>4 DEF RecordRetry
  <2> QED
    BY <1>1, <1>2, <1>3, <2>2, <2>3, <2>4, PassesCounted
<1>5. CASE firing[p] # m
  <2>1. Pending(m)' \in SUBSET Pending(m)
    BY <1>1, <1>5 DEF Pending, RecordRetry, AttemptOver, GoTo
  <2>2. /\ Cardinality(Pending(m)') \in Nat
        /\ Cardinality(Pending(m)') <= Cardinality(Pending(m))
    BY <1>3, <2>1, FewerPending
  <2>3. retries'[m] = retries[m]
    BY <1>1, <1>5 DEF RecordRetry
  <2> QED
    BY <1>1, <1>2, <1>3, <2>2, <2>3, PassesCounted
<1> QED
  BY <1>4, <1>5

LEMMA NextRetriesLeft == Types /\ RetriesLeft /\ [ObserversNext]_vars => RetriesLeft'
<1> SUFFICES ASSUME Types, RetriesLeft, [ObserversNext]_vars PROVE RetriesLeft'
  OBVIOUS
<1>0. /\ at \in [Observers -> ObserverSteps] /\ Passes \subseteq Observers
      /\ firing \in [Passes -> MomentOrNone] /\ counted \in [Passes -> Nat]
  BY ObserverSets DEF Types, ObserverTypeOK
<1> USE <1>0, StillKeepsRetries DEF auditVars, GoTo, Finish, AttemptOver
<1>1. ASSUME UNCHANGED <<at, firing, counted, retries>> PROVE RetriesLeft'
  BY <1>1
<1>2. CASE UNCHANGED <<observerVars, auditVars>> \/ SpacingElapses \/ UNCHANGED vars
  BY <1>1, <1>2 DEF observerVars, vars, SpacingElapses
<1>3. ASSUME NEW p \in Passes, CountRetries(p) \/ RecordRetry(p) PROVE RetriesLeft'
  BY <1>3, CountKeepsRetries, RecordKeepsRetries
<1>4. ASSUME NEW o \in Observers, Quiet(o),
             o \in Passes => ~CountRetries(o) /\ ~RecordRetry(o)
      PROVE  RetriesLeft'
  <2>1. ASSUME o \in Passes, \/ BeginPass(o) \/ NoActivationDue(o) \/ ActivationMoot(o)
                             \/ StampReleaseWindow(o) \/ ActivationFails(o) \/ TriggerFails(o)
        PROVE  RetriesLeft'
    BY <2>1 DEF BeginPass, NoActivationDue, ActivationMoot, StampReleaseWindow,
       ActivationFails, TriggerFails
  <2>2. ASSUME o \in Reviewers, BeginReview(o) \/ CheckAccepts(o) \/ RefuseWrite(o)
        PROVE  RetriesLeft'
    BY <2>2 DEF BeginReview, CheckAccepts, RefuseWrite
  <2>3. CASE ObserveDeadline(o)
    BY <2>3 DEF ObserveDeadline, Return
  <2>4. CASE SessionBusy(o)
    BY <2>4 DEF SessionBusy
  <2> QED
    BY <1>4, <2>1, <2>2, <2>3, <2>4 DEF Quiet
<1>5. ASSUME NEW o \in Observers, Loud(o) PROVE RetriesLeft'
  BY <1>5 DEF Loud, SkipActivation, ScheduledActivate, GiveUpActivation, ReopenWhileLive,
     CloseAtEnd, EndWithNothingOpen, DeadlineDone, Return
<1>6. ASSUME NEW w \in Reviewers, EnterWrite(w) \/ LeaveWrite(w) PROVE RetriesLeft'
  BY <1>6 DEF EnterWrite, LeaveWrite
<1> QED
  BY <1>2, <1>3, <1>4, <1>5, <1>6, StepKinds

LEMMA InitRetriesLeft == ObserversInit => RetriesLeft
<1> SUFFICES ASSUME ObserversInit, NEW m \in Moments
             PROVE  retries[m] + Cardinality(Pending(m)) <= MaxRetries + Cardinality(Passes) - 1
  BY DEF RetriesLeft
<1>1. Pending(m) = {}
  BY ObserverSets DEF ObserversInit, Pending
<1>2. retries[m] = 0
  BY DEF ObserversInit
<1> QED
  BY <1>1, <1>2, PassesCounted, BoundsAssumption, FS_EmptySet

(* A Start is retried no more often than the policy says and once for each *)
(* other pass, however the passes that failed on it interleave.            *)
THEOREM RetriesAreBounded == ObserversSpec => []RetriesBounded
<1>1. Types /\ RetriesLeft => RetriesBounded
  <2> SUFFICES ASSUME Types, RetriesLeft, NEW m \in Moments
               PROVE  retries[m] <= MaxRetries + Cardinality(Passes) - 1
    BY DEF RetriesBounded
  <2>1. retries[m] \in Nat /\ retries[m] + Cardinality(Pending(m)) <= MaxRetries + Cardinality(Passes) - 1
    BY DEF RetriesLeft, Types, ObserverTypeOK
  <2>2. Pending(m) \in SUBSET Passes
    BY DEF Pending
  <2> QED
    BY <2>1, <2>2, PassesCounted, BoundsAssumption
<1> QED
  BY <1>1, InitTypes, NextTypes, InitRetriesLeft, NextRetriesLeft, PTL DEF ObserversSpec

-----------------------------------------------------------------------------
(* One record for each crossing: both are written under the lock, by the   *)
(* step that looked for the record.                                        *)
LEMMA NextCrossings ==
  Types /\ EachCrossingRecordedOnce /\ [ObserversNext]_vars => EachCrossingRecordedOnce'
<1> SUFFICES ASSUME Types, EachCrossingRecordedOnce, [ObserversNext]_vars
             PROVE  EachCrossingRecordedOnce'
  OBVIOUS
<1>0. reached \in [Moments -> Nat] /\ windowStamps \in [Crossings -> Nat]
  BY DEF Types, ObserverTypeOK
<1> USE DEF auditVars
<1>1. ASSUME UNCHANGED <<reached, windowStamps>> PROVE EachCrossingRecordedOnce'
  BY <1>1 DEF EachCrossingRecordedOnce
<1>2. CASE UNCHANGED <<observerVars, auditVars>> \/ SpacingElapses \/ UNCHANGED vars
  BY <1>1, <1>2 DEF vars, SpacingElapses
<1>3. ASSUME NEW p \in Passes, StampReleaseWindow(p) PROVE EachCrossingRecordedOnce'
  <2>1. reached' = reached
    BY <1>3 DEF StampReleaseWindow
  <2>2. \A c \in Crossings : windowStamps'[c] <= 1
    <3>1. CASE NewStamps(mem[p], clockTime[p]) = {}
      BY <1>3, <3>1 DEF StampReleaseWindow, EachCrossingRecordedOnce
    <3>2. CASE NewStamps(mem[p], clockTime[p]) # {}
      BY <1>3, <3>2, <1>0 DEF StampReleaseWindow, NewStamps, EachCrossingRecordedOnce
    <3> QED
      BY <3>1, <3>2
  <2> QED
    BY <2>1, <2>2 DEF EachCrossingRecordedOnce
<1>4. ASSUME NEW o \in Observers, Quiet(o), o \in Passes => ~StampReleaseWindow(o)
      PROVE  EachCrossingRecordedOnce'
  BY <1>1, <1>4 DEF Quiet, BeginPass, NoActivationDue, ActivationMoot, CountRetries,
     RecordRetry, ActivationFails, TriggerFails, BeginReview, CheckAccepts, RefuseWrite,
     ObserveDeadline, SessionBusy
<1>5. ASSUME WriteReached, UNCHANGED windowStamps PROVE EachCrossingRecordedOnce'
  <2>1. \A m \in Moments : reached'[m] <= 1
    BY <1>0, <1>5 DEF WriteReached, EachCrossingRecordedOnce
  <2> QED
    BY <1>5, <2>1 DEF EachCrossingRecordedOnce
<1>6. ASSUME NEW o \in Observers, Loud(o) PROVE EachCrossingRecordedOnce'
  BY <1>1, <1>5, <1>6 DEF Loud, SkipActivation, ScheduledActivate, GiveUpActivation,
     ReopenWhileLive, CloseAtEnd, EndWithNothingOpen, DeadlineDone
<1>7. ASSUME NEW w \in Reviewers, EnterWrite(w) \/ LeaveWrite(w) PROVE EachCrossingRecordedOnce'
  BY <1>1, <1>7 DEF EnterWrite, LeaveWrite
<1> QED
  BY <1>2, <1>3, <1>4, <1>6, <1>7, StepKinds

(* Whichever observers meet at an End or at a moment of the release window,*)
(* the audit log has one row for it.                                       *)
THEOREM CrossingsRecordedOnce == ObserversSpec => []EachCrossingRecordedOnce
<1>1. ObserversInit => EachCrossingRecordedOnce
  BY DEF ObserversInit, EachCrossingRecordedOnce
<1> QED
  BY <1>1, InitTypes, NextTypes, NextCrossings, PTL DEF ObserversSpec

-----------------------------------------------------------------------------
(* What the observers' steps may do.  An observer works with the moment    *)
(* its pass began, never one ahead of the clock: what is due, or over, to  *)
(* it is due, or over, as it acts.                                         *)
ClockBehind == \A o \in Observers : clockTime[o] <= now

LEMMA NextClockBehind == Types /\ ClockBehind /\ [ObserversNext]_vars => ClockBehind'
<1> SUFFICES ASSUME Types, ClockBehind, [ObserversNext]_vars PROVE ClockBehind'
  OBVIOUS
<1>0. now \in Nat /\ clockTime \in [Observers -> Nat]
  BY DEF Types, TypeOK, ObserverTypeOK, Moments
<1> USE <1>0 DEF ClockBehind
<1>1. ASSUME UNCHANGED <<now, clockTime>> PROVE ClockBehind'
  BY <1>1
<1>2. CASE OperatorStep /\ UNCHANGED <<observerVars, auditVars>>
  BY <1>1, <1>2, OperatorEffects DEF Types, observerVars
<1>3. CASE Tick /\ UNCHANGED <<observerVars, auditVars>>
  <2>1. now' = now + 1 /\ UNCHANGED clockTime
    BY <1>3 DEF Tick, observerVars
  <2>2. ASSUME NEW o \in Observers PROVE clockTime[o] <= now + 1
    <3>1. clockTime[o] <= now /\ clockTime[o] \in Nat
      OBVIOUS
    <3> QED
      BY <3>1
  <2> QED
    BY <2>1, <2>2
<1>4. CASE SpacingElapses \/ UNCHANGED vars
  BY <1>1, <1>4 DEF SpacingElapses, vars, observerVars, lifecycleVars
<1>5. ASSUME NEW o \in Observers, UNCHANGED now,
             clockTime' \in {clockTime, [clockTime EXCEPT ![o] = 0], [clockTime EXCEPT ![o] = now]}
      PROVE  ClockBehind'
  BY <1>5
<1>6. ASSUME NEW o \in Observers, Quiet(o) PROVE ClockBehind'
  <2>1. UNCHANGED now
    BY <1>6, QuietLeavesLifecycle DEF lifecycleVars
  <2>2. clockTime' \in {clockTime, [clockTime EXCEPT ![o] = 0], [clockTime EXCEPT ![o] = now]}
    BY <1>6 DEF Quiet, BeginPass, NoActivationDue, ActivationMoot, CountRetries, RecordRetry,
       StampReleaseWindow, ActivationFails, TriggerFails, BeginReview, CheckAccepts,
       RefuseWrite, ObserveDeadline, SessionBusy, Finish
  <2> QED
    BY <1>5, <2>1, <2>2
<1>7. ASSUME NEW o \in Observers, Loud(o) PROVE ClockBehind'
  BY <1>1, <1>7 DEF Loud, SkipActivation, ScheduledActivate, GiveUpActivation,
     ReopenWhileLive, CloseAtEnd, EndWithNothingOpen, DeadlineDone
<1>8. ASSUME NEW w \in Reviewers, EnterWrite(w) \/ LeaveWrite(w) PROVE ClockBehind'
  BY <1>1, <1>5, <1>8, ObserverSets DEF EnterWrite, GateWrite, LeaveWrite, CommitWrite, Finish
<1> QED
  BY <1>2, <1>3, <1>4, <1>6, <1>7, <1>8, StepKinds

LEMMA InitClockBehind == ObserversInit => ClockBehind
<1> SUFFICES ASSUME ObserversInit PROVE ClockBehind
  OBVIOUS
<1>1. now = 0
  BY DEF ObserversInit, Init
<1>2. clockTime = [o \in Observers |-> 0]
  BY DEF ObserversInit
<1> QED
  BY <1>1, <1>2 DEF ClockBehind

(* What is due, or over, to an observer is so by the clock. *)
LEMMA DueByTheClock ==
  ASSUME Types, ClockBehind, NEW o \in Observers
  PROVE  /\ StartDue(row, clockTime[o]) => StartDue(row, now)
         /\ DeadlineHasPassed(row, clockTime[o]) => DeadlineHasPassed(row, now)
<1>1. /\ row.start # None => row.start \in Nat
      /\ ReviewEnd(row) # None => ReviewEnd(row) \in Nat
      /\ now \in Nat /\ clockTime[o] \in Nat /\ clockTime[o] <= now
  BY DEF Types, TypeOK, ObserverTypeOK, Rows, MomentOrNone, Moments, ReviewEnd, ClockBehind
<1> QED
  BY <1>1 DEF StartDue, DeadlineHasPassed

LEMMA StepEndsInTime ==
  ASSUME Types, ClockBehind, [ObserversNext]_vars, Observing, row.status = "ready",
         row'.status = "expired"
  PROVE  DeadlineHasPassed(row, now)
<1>0. row \in Rows /\ row' # row
  BY DEF Types, TypeOK
<1>1. CASE UNCHANGED <<observerVars, auditVars>> \/ SpacingElapses \/ UNCHANGED vars
  BY <1>1 DEF observerVars, vars, SpacingElapses, Observing
<1>2. ASSUME NEW o \in Observers, Quiet(o) PROVE FALSE
  BY <1>0, <1>2, QuietLeavesLifecycle DEF lifecycleVars
<1>3. ASSUME NEW o \in Observers, Loud(o) PROVE DeadlineHasPassed(row, now)
  <2>1. ASSUME o \in Passes,
               SkipActivation(o) \/ ScheduledActivate(o) \/ GiveUpActivation(o)
        PROVE  FALSE
    <3>1. row'.status \in {row.status, "ready"}
      BY <1>0, <2>1 DEF SkipActivation, ScheduledActivate, GiveUpActivation, GoReady, Rows
    <3> QED
      BY <3>1
  <2>2. CASE ReopenWhileLive(o)
    BY <1>0, <2>2 DEF ReopenWhileLive
  <2>3. CASE CloseAtEnd(o) \/ EndWithNothingOpen(o)
    BY <1>0, <2>3, DueByTheClock DEF CloseAtEnd, EndWithNothingOpen, rowVars
  <2> QED
    BY <1>3, <2>1, <2>2, <2>3 DEF Loud
<1>4. ASSUME NEW w \in Reviewers, EnterWrite(w) \/ LeaveWrite(w) PROVE FALSE
  BY <1>0, <1>4 DEF EnterWrite, GateWrite, LeaveWrite, CommitWrite
<1> QED
  BY <1>1, <1>2, <1>3, <1>4, StepKinds

(* No observer ends a review before the End it has at that moment, however *)
(* long ago it loaded the row and whatever was saved since (Bc4).          *)
THEOREM NoReviewEndsEarly == ObserversSpec => NoEarlyExpiry
<1>1. Types /\ ClockBehind /\ [ObserversNext]_vars =>
        [Observing /\ row.status = "ready" /\ row'.status = "expired"
           => DeadlineHasPassed(row, now)]_vars
  BY StepEndsInTime
<1> QED
  BY <1>1, InitTypes, NextTypes, InitClockBehind, NextClockBehind, PTL
  DEF ObserversSpec, NoEarlyExpiry

LEMMA StartFiresInTime ==
  ASSUME Types, ClockBehind, [ObserversNext]_vars, NEW p \in Passes,
         at[p] = "activation", at'[p] # at[p], row' # row
  PROVE  StartDue(row, now)
<1>0. at \in [Observers -> ObserverSteps] /\ Passes \subseteq Observers /\ Reviewers \subseteq Observers
  BY ObserverSets DEF Types, ObserverTypeOK
<1>1. CASE UNCHANGED <<observerVars, auditVars>> \/ SpacingElapses \/ UNCHANGED vars
  BY <1>1 DEF observerVars, vars, SpacingElapses
<1>2. ASSUME NEW o \in Observers, Quiet(o) PROVE FALSE
  BY <1>2, QuietLeavesLifecycle DEF lifecycleVars
<1>3. ASSUME NEW o \in Observers, Loud(o) PROVE StartDue(row, now)
  <2>1. o = p
    BY <1>0, <1>3 DEF Loud, SkipActivation, ScheduledActivate, GiveUpActivation, AttemptOver,
       ReopenWhileLive, CloseAtEnd, EndWithNothingOpen, DeadlineDone, GoTo
  <2>2. StartDue(row, clockTime[o])
    BY <1>3, <2>1 DEF Loud, SkipActivation, ScheduledActivate, GiveUpActivation,
       ReopenWhileLive, CloseAtEnd, EndWithNothingOpen
  <2> QED
    BY <2>2, DueByTheClock
<1>4. ASSUME NEW w \in Reviewers, EnterWrite(w) \/ LeaveWrite(w) PROVE FALSE
  BY <1>4 DEF EnterWrite, GateWrite, LeaveWrite, CommitWrite
<1> QED
  BY <1>1, <1>2, <1>3, <1>4, StepKinds

(* A Start that was cleared or moved before the trigger took the lock      *)
(* neither opens the session nor is skipped.                               *)
THEOREM OnlyDueStartsOpen == ObserversSpec => OnlyDueStartsFire
<1>1. Types /\ ClockBehind /\ [ObserversNext]_vars =>
        [\A p \in Passes : at[p] = "activation" /\ at'[p] # at[p] /\ row' # row
           => StartDue(row, now)]_vars
  BY StartFiresInTime
<1> QED
  BY <1>1, InitTypes, NextTypes, InitClockBehind, NextClockBehind, PTL
  DEF ObserversSpec, OnlyDueStartsFire

LEMMA HealStep ==
  ASSUME Types, [ObserversNext]_vars, NEW p \in Observers,
         at[p] = "heal", at'[p] # at[p], open' # open
  PROVE  row.status = "ready"
<1>0. at \in [Observers -> ObserverSteps] /\ Reviewers \subseteq Observers
  BY ObserverSets DEF Types, ObserverTypeOK
<1>1. CASE UNCHANGED <<observerVars, auditVars>> \/ SpacingElapses \/ UNCHANGED vars
  BY <1>1 DEF observerVars, vars, SpacingElapses
<1>2. ASSUME NEW o \in Observers, Quiet(o) PROVE FALSE
  BY <1>2, QuietLeavesLifecycle DEF lifecycleVars
<1>3. ASSUME NEW o \in Observers, Loud(o) PROVE row.status = "ready"
  <2>1. o = p
    BY <1>0, <1>3 DEF Loud, SkipActivation, ScheduledActivate, GiveUpActivation, AttemptOver,
       ReopenWhileLive, CloseAtEnd, EndWithNothingOpen, DeadlineDone, GoTo
  <2>2. ReopenWhileLive(o)
    BY <1>3, <2>1 DEF Loud, SkipActivation, ScheduledActivate, LockForActivation,
       GiveUpActivation, CloseAtEnd, EndWithNothingOpen
  <2> QED
    BY <2>2 DEF ReopenWhileLive
<1>4. ASSUME NEW w \in Reviewers, EnterWrite(w) \/ LeaveWrite(w) PROVE FALSE
  BY <1>4 DEF EnterWrite, GateWrite, LeaveWrite, CommitWrite
<1> QED
  BY <1>1, <1>2, <1>3, <1>4, StepKinds

(* The heal of a live session undoes no close: it reopens on the status it *)
(* finds under the lock (_reopen_while_live).                              *)
THEOREM HealsAreOfLiveReviews == ObserversSpec => HealReopensOnlyLiveReviews
<1>1. Types /\ [ObserversNext]_vars =>
        [\A o \in Observers : at[o] = "heal" /\ at'[o] # at[o] /\ open' # open
           => row.status = "ready"]_vars
  BY HealStep
<1> QED
  BY <1>1, InitTypes, NextTypes, PTL DEF ObserversSpec, HealReopensOnlyLiveReviews

-----------------------------------------------------------------------------
(***************************************************************************)
(* ScheduledSends.  Its theorems (ScheduledSendsProofs) hold of the two    *)
(* kinds of behaviours of ScheduleMC that are its own, step for step.      *)
(***************************************************************************)
I == INSTANCE ScheduledSendsProofs WITH
    Reviewers <- Mailed, Passes <- Requests, Offsets <- InviteOffsets,
    Starts <- InviteStarts, Ends <- {}, MaxTime <- TimeBound, MaxPositions <- ListBound,
    MaxEdits <- InviteEdits, Unset <- None, row <- session, now <- time
R == INSTANCE ScheduledSendsProofs WITH
    Reviewers <- Mailed, Passes <- Requests, Offsets <- ReminderOffsets,
    Starts <- {}, Ends <- ReminderEnds, MaxTime <- TimeBound, MaxPositions <- ListBound,
    MaxEdits <- ReminderEdits, Unset <- None, row <- session, now <- time

LEMMA InvitesAreTheSame ==
  /\ Invites!ScheduleAssumption <=> I!ScheduleAssumption
  /\ Invites!Init <=> I!Init
  /\ Invites!Tick <=> I!Tick
  /\ Invites!Saves <=> I!Saves
  /\ Invites!StageMoves <=> I!StageMoves
  /\ Invites!TurnSendingOn <=> I!TurnSendingOn
  /\ Invites!DrawPrompt <=> I!DrawPrompt
  /\ Invites!MarkDone <=> I!MarkDone
  /\ Invites!DropPrompt <=> I!DropPrompt
  /\ \A r : Invites!SendByHand(r) <=> I!SendByHand(r)
  /\ \A r : Invites!Submit(r) <=> I!Submit(r)
  /\ \A p : Invites!PassStep(p) <=> I!PassStep(p)
  /\ Invites!ActivationWaitsForInvites <=> I!ActivationWaitsForInvites
<1> USE DEF
    Invites!Instants, Invites!Kinds, Invites!Positions, Invites!Lists,
    Invites!ScheduleAssumption, Invites!vars, Invites!Rows, Invites!Records,
    Invites!Steps, Invites!NoPrompt, Invites!Prompts, Invites!RecordOn,
    Invites!Consumed, Invites!FireAt, Invites!DueAt, Invites!NewRow,
    Invites!Anchors, Invites!EnoughNotice, Invites!Ordered, Invites!NoPass,
    Invites!Init, Invites!Tick, Invites!SentEntriesStay, Invites!LeadExempt,
    Invites!InTime, Invites!StoreSchedule, Invites!SaveSchedule,
    Invites!ImportSchedule, Invites!MoveTo, Invites!StartCleared,
    Invites!Prepare, Invites!Activate, Invites!Close, Invites!RevertToDraft,
    Invites!SendByHand, Invites!Submit, Invites!TurnSendingOn,
    Invites!LeftToActOn, Invites!Prompt, Invites!DueActions,
    Invites!DrawPrompt, Invites!MarkDone, Invites!DropPrompt,
    Invites!StartPassed, Invites!EndPassed, Invites!Ending, Invites!Held,
    Invites!HasWork, Invites!Order, Invites!From, Invites!Resume,
    Invites!sessionVars, Invites!At, Invites!BeginPass, Invites!Pending,
    Invites!Earliest, Invites!MaySend, Invites!DispatchInvites,
    Invites!DispatchReminders, Invites!RecordEntry, Invites!FireEntry,
    Invites!After, Invites!EntriesDone, Invites!EntryFails,
    Invites!ActivationMoot, Invites!ScheduledActivation,
    Invites!ActivationFails, Invites!CloseAtEnd, Invites!PassEnds,
    Invites!Saves, Invites!StageMoves, Invites!Sends, Invites!PassStep,
    Invites!NobodyIsRemindedTwice, Invites!ActivationWaitsForInvites,
    I!Instants, I!Kinds, I!Positions, I!Lists, I!ScheduleAssumption, I!vars,
    I!Rows, I!Records, I!Steps, I!NoPrompt, I!Prompts, I!RecordOn, I!Consumed,
    I!FireAt, I!DueAt, I!NewRow, I!Anchors, I!EnoughNotice, I!Ordered,
    I!NoPass, I!Init, I!Tick, I!SentEntriesStay, I!LeadExempt, I!InTime,
    I!StoreSchedule, I!SaveSchedule, I!ImportSchedule, I!MoveTo,
    I!StartCleared, I!Prepare, I!Activate, I!Close, I!RevertToDraft,
    I!SendByHand, I!Submit, I!TurnSendingOn, I!LeftToActOn, I!Prompt,
    I!DueActions, I!DrawPrompt, I!MarkDone, I!DropPrompt, I!StartPassed,
    I!EndPassed, I!Ending, I!Held, I!HasWork, I!Order, I!From, I!Resume,
    I!sessionVars, I!At, I!BeginPass, I!Pending, I!Earliest, I!MaySend,
    I!DispatchInvites, I!DispatchReminders, I!RecordEntry, I!FireEntry,
    I!After, I!EntriesDone, I!EntryFails, I!ActivationMoot,
    I!ScheduledActivation, I!ActivationFails, I!CloseAtEnd, I!PassEnds,
    I!Saves, I!StageMoves, I!Sends, I!PassStep, I!NobodyIsRemindedTwice,
    I!ActivationWaitsForInvites
<1>1. Invites!ScheduleAssumption <=> I!ScheduleAssumption
  OBVIOUS
<1>2. Invites!Init <=> I!Init
  OBVIOUS
<1>3. Invites!Tick <=> I!Tick
  OBVIOUS
<1>4. Invites!Saves <=> I!Saves
  OBVIOUS
<1>5. Invites!StageMoves <=> I!StageMoves
  OBVIOUS
<1>6. Invites!TurnSendingOn <=> I!TurnSendingOn
  OBVIOUS
<1>7. Invites!DrawPrompt <=> I!DrawPrompt
  OBVIOUS
<1>8. Invites!MarkDone <=> I!MarkDone
  OBVIOUS
<1>9. Invites!DropPrompt <=> I!DropPrompt
  OBVIOUS
<1>10. \A r : Invites!SendByHand(r) <=> I!SendByHand(r)
  OBVIOUS
<1>11. \A r : Invites!Submit(r) <=> I!Submit(r)
  OBVIOUS
<1>12. \A p : Invites!PassStep(p) <=> I!PassStep(p)
  OBVIOUS
<1>13. Invites!ActivationWaitsForInvites <=> I!ActivationWaitsForInvites
  OBVIOUS
<1> QED
  BY <1>1, <1>2, <1>3, <1>4, <1>5, <1>6, <1>7, <1>8, <1>9, <1>10, <1>11, <1>12, <1>13

LEMMA RemindersAreTheSame ==
  /\ Reminders!ScheduleAssumption <=> R!ScheduleAssumption
  /\ Reminders!Init <=> R!Init
  /\ Reminders!Tick <=> R!Tick
  /\ Reminders!Saves <=> R!Saves
  /\ Reminders!StageMoves <=> R!StageMoves
  /\ Reminders!TurnSendingOn <=> R!TurnSendingOn
  /\ Reminders!DrawPrompt <=> R!DrawPrompt
  /\ Reminders!MarkDone <=> R!MarkDone
  /\ Reminders!DropPrompt <=> R!DropPrompt
  /\ \A r : Reminders!SendByHand(r) <=> R!SendByHand(r)
  /\ \A r : Reminders!Submit(r) <=> R!Submit(r)
  /\ \A p : Reminders!PassStep(p) <=> R!PassStep(p)
  /\ Reminders!NobodyIsRemindedTwice <=> R!NobodyIsRemindedTwice
<1> USE DEF
    Reminders!Instants, Reminders!Kinds, Reminders!Positions, Reminders!Lists,
    Reminders!ScheduleAssumption, Reminders!vars, Reminders!Rows,
    Reminders!Records, Reminders!Steps, Reminders!NoPrompt, Reminders!Prompts,
    Reminders!RecordOn, Reminders!Consumed, Reminders!FireAt, Reminders!DueAt,
    Reminders!NewRow, Reminders!Anchors, Reminders!EnoughNotice,
    Reminders!Ordered, Reminders!NoPass, Reminders!Init, Reminders!Tick,
    Reminders!SentEntriesStay, Reminders!LeadExempt, Reminders!InTime,
    Reminders!StoreSchedule, Reminders!SaveSchedule, Reminders!ImportSchedule,
    Reminders!MoveTo, Reminders!StartCleared, Reminders!Prepare,
    Reminders!Activate, Reminders!Close, Reminders!RevertToDraft,
    Reminders!SendByHand, Reminders!Submit, Reminders!TurnSendingOn,
    Reminders!LeftToActOn, Reminders!Prompt, Reminders!DueActions,
    Reminders!DrawPrompt, Reminders!MarkDone, Reminders!DropPrompt,
    Reminders!StartPassed, Reminders!EndPassed, Reminders!Ending,
    Reminders!Held, Reminders!HasWork, Reminders!Order, Reminders!From,
    Reminders!Resume, Reminders!sessionVars, Reminders!At,
    Reminders!BeginPass, Reminders!Pending, Reminders!Earliest,
    Reminders!MaySend, Reminders!DispatchInvites, Reminders!DispatchReminders,
    Reminders!RecordEntry, Reminders!FireEntry, Reminders!After,
    Reminders!EntriesDone, Reminders!EntryFails, Reminders!ActivationMoot,
    Reminders!ScheduledActivation, Reminders!ActivationFails,
    Reminders!CloseAtEnd, Reminders!PassEnds, Reminders!Saves,
    Reminders!StageMoves, Reminders!Sends, Reminders!PassStep,
    Reminders!NobodyIsRemindedTwice, Reminders!ActivationWaitsForInvites,
    R!Instants, R!Kinds, R!Positions, R!Lists, R!ScheduleAssumption, R!vars,
    R!Rows, R!Records, R!Steps, R!NoPrompt, R!Prompts, R!RecordOn, R!Consumed,
    R!FireAt, R!DueAt, R!NewRow, R!Anchors, R!EnoughNotice, R!Ordered,
    R!NoPass, R!Init, R!Tick, R!SentEntriesStay, R!LeadExempt, R!InTime,
    R!StoreSchedule, R!SaveSchedule, R!ImportSchedule, R!MoveTo,
    R!StartCleared, R!Prepare, R!Activate, R!Close, R!RevertToDraft,
    R!SendByHand, R!Submit, R!TurnSendingOn, R!LeftToActOn, R!Prompt,
    R!DueActions, R!DrawPrompt, R!MarkDone, R!DropPrompt, R!StartPassed,
    R!EndPassed, R!Ending, R!Held, R!HasWork, R!Order, R!From, R!Resume,
    R!sessionVars, R!At, R!BeginPass, R!Pending, R!Earliest, R!MaySend,
    R!DispatchInvites, R!DispatchReminders, R!RecordEntry, R!FireEntry,
    R!After, R!EntriesDone, R!EntryFails, R!ActivationMoot,
    R!ScheduledActivation, R!ActivationFails, R!CloseAtEnd, R!PassEnds,
    R!Saves, R!StageMoves, R!Sends, R!PassStep, R!NobodyIsRemindedTwice,
    R!ActivationWaitsForInvites
<1>1. Reminders!ScheduleAssumption <=> R!ScheduleAssumption
  OBVIOUS
<1>2. Reminders!Init <=> R!Init
  OBVIOUS
<1>3. Reminders!Tick <=> R!Tick
  OBVIOUS
<1>4. Reminders!Saves <=> R!Saves
  OBVIOUS
<1>5. Reminders!StageMoves <=> R!StageMoves
  OBVIOUS
<1>6. Reminders!TurnSendingOn <=> R!TurnSendingOn
  OBVIOUS
<1>7. Reminders!DrawPrompt <=> R!DrawPrompt
  OBVIOUS
<1>8. Reminders!MarkDone <=> R!MarkDone
  OBVIOUS
<1>9. Reminders!DropPrompt <=> R!DropPrompt
  OBVIOUS
<1>10. \A r : Reminders!SendByHand(r) <=> R!SendByHand(r)
  OBVIOUS
<1>11. \A r : Reminders!Submit(r) <=> R!Submit(r)
  OBVIOUS
<1>12. \A p : Reminders!PassStep(p) <=> R!PassStep(p)
  OBVIOUS
<1>13. Reminders!NobodyIsRemindedTwice <=> R!NobodyIsRemindedTwice
  OBVIOUS
<1> QED
  BY <1>1, <1>2, <1>3, <1>4, <1>5, <1>6, <1>7, <1>8, <1>9, <1>10, <1>11, <1>12, <1>13

OfInvites == which = "invites"

LEMMA InviteSteps ==
  ASSUME OfInvites, [NextSchedule]_allVars
  PROVE  OfInvites' /\ [I!Next]_I!vars
<1>1. CASE UNCHANGED allVars
  BY <1>1 DEF allVars, sendVars, I!vars, OfInvites
<1>2. CASE NextSchedule
  <2>1. OfInvites'
    BY <1>2 DEF NextSchedule, InStages, InInvites, InReminders, OfInvites
  <2>2. \/ \E q \in Requests : Invites!PassStep(q)
        \/ Invites!Tick \/ Invites!Saves \/ Invites!StageMoves
        \/ Invites!TurnSendingOn \/ Invites!DrawPrompt
        \/ Invites!MarkDone \/ Invites!DropPrompt
        \/ \E r \in Mailed : Invites!SendByHand(r) \/ Invites!Submit(r)
    BY <1>2 DEF NextSchedule, InStages, InInvites, InReminders, OfInvites
  <2> QED
    BY <2>1, <2>2, InvitesAreTheSame DEF I!Next
<1> QED
  BY <1>1, <1>2

LEMMA InviteBehaviours ==
  /\ SpecSchedule /\ OfInvites => I!Spec
  /\ SpecSchedule => []OfInvites \/ []~OfInvites
<1>1. InitSchedule /\ OfInvites => I!Init
  BY InvitesAreTheSame DEF InitSchedule, OfInvites
<1>2. OfInvites /\ [NextSchedule]_allVars => OfInvites' /\ [I!Next]_I!vars
  BY InviteSteps
<1>3. ~OfInvites /\ [NextSchedule]_allVars => ~OfInvites'
  BY DEF NextSchedule, InStages, InInvites, InReminders, allVars, OfInvites
<1> QED
  BY <1>1, <1>2, <1>3, PTL DEF SpecSchedule, I!Spec

OfReminders == which = "reminders"

LEMMA ReminderSteps ==
  ASSUME OfReminders, [NextSchedule]_allVars
  PROVE  OfReminders' /\ [R!Next]_R!vars
<1>1. CASE UNCHANGED allVars
  BY <1>1 DEF allVars, sendVars, R!vars, OfReminders
<1>2. CASE NextSchedule
  <2>1. OfReminders'
    BY <1>2 DEF NextSchedule, InStages, InInvites, InReminders, OfReminders
  <2>2. \/ \E q \in Requests : Reminders!PassStep(q)
        \/ Reminders!Tick \/ Reminders!Saves \/ Reminders!StageMoves
        \/ Reminders!TurnSendingOn \/ Reminders!DrawPrompt
        \/ Reminders!MarkDone \/ Reminders!DropPrompt
        \/ \E r \in Mailed : Reminders!SendByHand(r) \/ Reminders!Submit(r)
    BY <1>2 DEF NextSchedule, InStages, InInvites, InReminders, OfReminders
  <2> QED
    BY <2>1, <2>2, RemindersAreTheSame DEF R!Next
<1> QED
  BY <1>1, <1>2

LEMMA ReminderBehaviours ==
  /\ SpecSchedule /\ OfReminders => R!Spec
  /\ SpecSchedule => []OfReminders \/ []~OfReminders
<1>1. InitSchedule /\ OfReminders => R!Init
  BY RemindersAreTheSame DEF InitSchedule, OfReminders
<1>2. OfReminders /\ [NextSchedule]_allVars => OfReminders' /\ [R!Next]_R!vars
  BY ReminderSteps
<1>3. ~OfReminders /\ [NextSchedule]_allVars => ~OfReminders'
  BY DEF NextSchedule, InStages, InInvites, InReminders, allVars, OfReminders
<1> QED
  BY <1>1, <1>2, <1>3, PTL DEF SpecSchedule, R!Spec

(***************************************************************************)
(* _observe_all: of every step, with sending on the activation that clears *)
(* Start comes after the invites it was to come after, for any passes that *)
(* overlap, saves between their locks and entries that fail.               *)
(***************************************************************************)
THEOREM InvitesComeFirst == SpecSchedule => ActivationWaitsForInvites
<1>1. I!Spec => [][I!ActivationWaitsForInvites]_I!vars
  BY I!InvitesComeFirst, InvitesAssumption, InvitesAreTheSame
<1>2. [I!ActivationWaitsForInvites]_I!vars
        => [which = "invites" => Invites!ActivationWaitsForInvites]_allVars
  <2>1. CASE I!ActivationWaitsForInvites
    BY <2>1, InvitesAreTheSame
  <2>2. CASE UNCHANGED I!vars
    BY <2>2 DEF I!vars, Invites!ActivationWaitsForInvites
  <2> QED
    BY <2>1, <2>2
<1>3. ~OfInvites => [which = "invites" => Invites!ActivationWaitsForInvites]_allVars
  BY DEF OfInvites
<1> QED
  BY <1>1, <1>2, <1>3, InviteBehaviours, PTL DEF SpecSchedule, ActivationWaitsForInvites

(***************************************************************************)
(* The outbox key: nobody gets scheduled reminder n twice, by any passes,  *)
(* moves of End and failures half-way (findings Bc2).                      *)
(***************************************************************************)
THEOREM RemindedOnce == SpecSchedule => []NobodyIsRemindedTwice
<1>1. R!Spec => []R!NobodyIsRemindedTwice
  BY R!RemindedOnce
<1>2. R!NobodyIsRemindedTwice \/ ~OfReminders => NobodyIsRemindedTwice
  BY RemindersAreTheSame DEF NobodyIsRemindedTwice, OfReminders
<1> QED
  BY <1>1, <1>2, ReminderBehaviours, PTL
=============================================================================
