------------------------ MODULE ScheduledSendsProofs ------------------------
(***************************************************************************)
(* Proofs about ScheduledSends, for every number of reviewers and passes,  *)
(* every list and every clock: a position is recorded once on its anchor,  *)
(* what is stored can be sent, a reminder goes out once, what is marked    *)
(* done is what was shown, and the activation waits for the invites.       *)
(***************************************************************************)
EXTENDS ScheduledSends, FiniteSetTheorems, TLAPS

-----------------------------------------------------------------------------
(* The row keeps its types, whatever moves it.                             *)
LEMMA SavesKeepRow ==
  ASSUME ScheduleAssumption, row \in Rows, Saves
  PROVE  row' \in Rows
<1>0. PICK kind \in Kinds : \E entries \in Lists(kind), anchor \in Anchors(kind) :
        SaveSchedule(kind, anchor, entries) \/ ImportSchedule(kind, anchor, entries)
  BY DEF Saves
<1>1. PICK entries \in Lists(kind), anchor \in Anchors(kind) :
        SaveSchedule(kind, anchor, entries) \/ ImportSchedule(kind, anchor, entries)
  BY <1>0
<1>2. entries \in Lists("invite") \cup Lists("reminder")
  BY <1>1 DEF Kinds
<1>3. anchor \in Instants \cup {Unset}
  BY <1>1 DEF Anchors, ScheduleAssumption
<1>4. PICK status \in {"draft", "validated", "ready", "expired"} :
        row' = [row EXCEPT !.status = status, !.anchor[kind] = anchor, !.list[kind] = entries]
  <2>1. CASE SaveSchedule(kind, anchor, entries)
    BY <2>1 DEF SaveSchedule, StoreSchedule
  <2>2. CASE ImportSchedule(kind, anchor, entries)
    BY <2>2 DEF ImportSchedule, StoreSchedule
  <2> QED
    BY <1>1, <2>1, <2>2
<1> QED
  BY <1>2, <1>3, <1>4 DEF Rows

LEMMA ClearedAnchors ==
  ASSUME row \in Rows
  PROVE  StartCleared \in [Kinds -> Instants \cup {Unset}]
  BY DEF Rows, StartCleared

LEMMA StageMovesKeepRow ==
  ASSUME row \in Rows, StageMoves
  PROVE  row' \in Rows
<1>1. row.anchor \in [Kinds -> Instants \cup {Unset}]
  BY DEF Rows
<1>2. ASSUME NEW status \in {"draft", "validated", "ready", "expired"},
             NEW anchors \in [Kinds -> Instants \cup {Unset}],
             MoveTo(status, anchors)
      PROVE  row' \in Rows
  BY <1>2 DEF MoveTo, Rows
<1> QED
  BY <1>1, <1>2, ClearedAnchors DEF StageMoves, Prepare, Activate, Close, RevertToDraft

LEMMA PassesKeepRow ==
  ASSUME row \in Rows, NEW p \in Passes, PassStep(p)
  PROVE  row' \in Rows
<1> DEFINE Stays == row' = row
<1>1. ASSUME NEW kind \in Kinds,
             FireEntry(p, kind) \/ EntriesDone(p, kind) \/ EntryFails(p, kind)
      PROVE  Stays
  BY <1>1 DEF FireEntry, EntriesDone, EntryFails, sessionVars
<1>2. (\E mails \in BOOLEAN : BeginPass(p, mails)) \/ ActivationMoot(p) \/ PassEnds(p) => Stays
  BY DEF BeginPass, ActivationMoot, PassEnds, sessionVars
<1>3. CASE ScheduledActivation(p)
  BY <1>3, ClearedAnchors DEF ScheduledActivation, Rows
<1>4. CASE ActivationFails(p)
  BY <1>4, ClearedAnchors DEF ActivationFails, Rows
<1>5. CASE CloseAtEnd(p)
  BY <1>5 DEF CloseAtEnd, Rows
<1> QED
  BY <1>1, <1>2, <1>3, <1>4, <1>5 DEF PassStep, Sends

LEMMA StepKeepsRow ==
  ASSUME ScheduleAssumption, row \in Rows, [Next]_vars
  PROVE  row' \in Rows
<1>1. Tick \/ TurnSendingOn \/ DrawPrompt \/ MarkDone \/ DropPrompt
      \/ (\E r \in Reviewers : SendByHand(r) \/ Submit(r)) \/ UNCHANGED vars => row' = row
  BY DEF Tick, TurnSendingOn, DrawPrompt, MarkDone, DropPrompt, SendByHand, Submit, vars
<1> QED
  BY <1>1, SavesKeepRow, StageMovesKeepRow, PassesKeepRow DEF Next

-----------------------------------------------------------------------------
(* Of entries due there is an earliest: the one before which the fewest    *)
(* are.                                                                    *)
LEMMA EarliestIsPending ==
  ASSUME ScheduleAssumption, row \in Rows, NEW p, NEW kind \in Kinds, Pending(p, kind) # {}
  PROVE  Earliest(p, kind) \in Pending(p, kind)
<1> DEFINE due == Pending(p, kind)
           entries == row.list[kind]
           anchor == row.anchor[kind]
           fire(i) == anchor - entries[i]
           before(i, j) == fire(i) < fire(j) \/ (fire(i) = fire(j) /\ i < j)
           earlier(i) == {j \in due : before(j, i)}
<1>1. /\ anchor \in Nat
      /\ due \subseteq DOMAIN entries
  BY DEF Pending, DueAt, Rows, Instants, ScheduleAssumption
<1>2. PICK n \in Nat : DOMAIN entries = 1..n /\ \A i \in 1..n : entries[i] \in Nat
  <2>1. entries \in Lists("invite") \cup Lists("reminder")
    BY DEF Rows
  <2>2. PICK k \in Kinds : entries \in Lists(k)
    BY <2>1 DEF Kinds
  <2>3. PICK n \in 0..MaxPositions : entries \in [1..n -> Offsets[k]]
    BY <2>2 DEF Lists
  <2>4. Offsets[k] \subseteq Nat
    BY DEF ScheduleAssumption
  <2> QED
    BY <2>3, <2>4 DEF ScheduleAssumption
<1>3. due \subseteq 1..n /\ \A i \in due : i \in Nat /\ fire(i) \in Int
  BY <1>1, <1>2
<1>4. IsFiniteSet(due)
  <2>1. IsFiniteSet(1..n)
    BY FS_Interval
  <2>2. due \in SUBSET (1..n)
    BY <1>3
  <2> HIDE DEF due
  <2> QED
    BY <2>1, <2>2, FS_Subset
<1> DEFINE sets == {earlier(i) : i \in due}
<1>5. sets \subseteq FiniteSubsetsOf(due) /\ sets # {}
  <2>1. FiniteSubsetsOf(due) = SUBSET due
    BY <1>4, FS_FiniteSubsetsOfFinite
  <2>2. sets \subseteq SUBSET due
    OBVIOUS
  <2>3. sets # {}
    OBVIOUS
  <2> HIDE DEF sets, due
  <2> QED
    BY <2>1, <2>2, <2>3
<1>6. PICK least \in sets : \A s \in sets : <<s, least>> \notin StrictSubsetOrdering(due)
  BY <1>5, FS_StrictSubsetOrderingWellFounded, WFMin
<1>7. PICK i \in due : least = earlier(i)
  OBVIOUS
<1>8. \A j \in due : ~before(j, i)
  <2> SUFFICES ASSUME NEW j \in due, before(j, i) PROVE FALSE
    OBVIOUS
  <2>1. earlier(j) \subseteq earlier(i)
    <3> SUFFICES ASSUME NEW k \in due, before(k, j) PROVE before(k, i)
      OBVIOUS
    <3>1. fire(i) \in Int /\ fire(j) \in Int /\ fire(k) \in Int /\ i \in Nat /\ j \in Nat /\ k \in Nat
      BY <1>3
    <3> HIDE DEF fire
    <3> QED
      BY <3>1
  <2>2. j \in earlier(i) /\ j \notin earlier(j)
    BY <1>3
  <2> HIDE DEF earlier
  <2>3. earlier(j) \in sets /\ earlier(j) \in SUBSET due /\ earlier(i) \in SUBSET due
    BY DEF earlier
  <2>4. <<earlier(j), earlier(i)>> \in StrictSubsetOrdering(due)
    BY <2>1, <2>2, <2>3 DEF StrictSubsetOrdering
  <2> QED
    BY <1>6, <1>7, <2>3, <2>4
<1>9. \A j \in due : fire(i) < fire(j) \/ (fire(i) = fire(j) /\ i <= j)
  <2> SUFFICES ASSUME NEW j \in due
               PROVE  fire(i) < fire(j) \/ (fire(i) = fire(j) /\ i <= j)
    OBVIOUS
  <2>1. fire(i) \in Int /\ fire(j) \in Int /\ i \in Nat /\ j \in Nat /\ ~before(j, i)
    BY <1>3, <1>8
  <2> HIDE DEF fire
  <2> QED
    BY <2>1
<1> QED
  BY <1>9 DEF Earliest, FireAt
-----------------------------------------------------------------------------
(* The record grows by one entry at a time: one that is stored, due on an  *)
(* anchor that is set, and not on record; by hand only what the prompt says*)
Recorded(kind, i, how) ==
  /\ row' = row
  /\ RecordEntry(kind, i, how)
  /\ row.anchor[kind] # Unset
  /\ i \in DOMAIN row.list[kind] \ Consumed(kind, row.anchor[kind])
  /\ how = "handled" => prompt # NoPrompt /\ prompt = Prompt(kind, i)

LEMMA FiringRecords ==
  ASSUME ScheduleAssumption, row \in Rows, NEW p, NEW kind \in Kinds, FireEntry(p, kind)
  PROVE  \E i : \E how \in {"sent", "skipped"} : Recorded(kind, i, how)
<1> DEFINE i == Earliest(p, kind)
<1>1. i \in Pending(p, kind)
  BY EarliestIsPending DEF FireEntry
<1>2. row.anchor[kind] # Unset /\ i \in DOMAIN row.list[kind] \ Consumed(kind, row.anchor[kind])
  BY <1>1 DEF Pending, DueAt
<1>3. row' = row /\ \E how \in {"sent", "skipped"} : RecordEntry(kind, i, how)
  BY DEF FireEntry
<1> QED
  BY <1>2, <1>3 DEF Recorded

LEMMA MarkingRecords ==
  ASSUME MarkDone
  PROVE  \E kind \in Kinds : \E i : Recorded(kind, i, "handled")
<1>1. PICK d \in DueActions : d = prompt /\ record' = record \cup
            {[kind |-> d.kind, anchor |-> d.anchor, index |-> d.index,
              offset |-> d.offset, how |-> "handled"]}
  BY DEF MarkDone
<1>2. PICK kind \in Kinds :
        \E i \in DueAt(row, kind, now) \ Consumed(kind, row.anchor[kind]) : d = Prompt(kind, i)
  BY <1>1 DEF DueActions
<1>3. PICK i \in DueAt(row, kind, now) \ Consumed(kind, row.anchor[kind]) : d = Prompt(kind, i)
  BY <1>2
<1>4. row.anchor[kind] # Unset /\ i \in DOMAIN row.list[kind]
  BY <1>3 DEF DueAt
<1>5. row' = row /\ prompt # NoPrompt
  BY DEF MarkDone
<1>6. RecordEntry(kind, i, "handled")
  BY <1>1, <1>3 DEF RecordEntry, Prompt
<1> QED
  BY <1>1, <1>3, <1>4, <1>5, <1>6 DEF Recorded

LEMMA RecordGrows ==
  ASSUME ScheduleAssumption, row \in Rows, [Next]_vars
  PROVE  \/ record' = record
         \/ \E kind \in Kinds : \E i : \E how \in {"sent", "skipped", "handled"} :
              Recorded(kind, i, how)
<1>1. Tick \/ TurnSendingOn \/ DrawPrompt \/ DropPrompt \/ Saves \/ StageMoves
      \/ (\E r \in Reviewers : SendByHand(r) \/ Submit(r)) \/ UNCHANGED vars
      => record' = record
  <2>1. Saves => record' = record
    BY DEF Saves, SaveSchedule, ImportSchedule, StoreSchedule
  <2>2. StageMoves => record' = record
    BY DEF StageMoves, Prepare, Activate, Close, RevertToDraft, MoveTo
  <2> QED
    BY <2>1, <2>2 DEF Tick, TurnSendingOn, DrawPrompt, DropPrompt, SendByHand, Submit, vars
<1>2. CASE MarkDone
  BY <1>2, MarkingRecords
<1>3. ASSUME NEW p \in Passes, PassStep(p), record' # record
      PROVE  \E kind \in Kinds : FireEntry(p, kind)
  <2>1. ASSUME NEW kind \in Kinds, EntriesDone(p, kind) \/ EntryFails(p, kind) PROVE FALSE
    BY <1>3, <2>1 DEF EntriesDone, EntryFails, sessionVars
  <2> QED
    BY <1>3, <2>1 DEF PassStep, Sends, BeginPass, ActivationMoot, ScheduledActivation,
       ActivationFails, CloseAtEnd, PassEnds, sessionVars
<1> QED
  BY <1>1, <1>2, <1>3, FiringRecords DEF Next

-----------------------------------------------------------------------------
(* What is on record is on an anchor that was set.                         *)
RecordAnchored == \A e \in record : e.anchor # Unset

RecordInv == row \in Rows /\ RecordAnchored /\ OneRecordPerPosition

LEMMA RecordStep ==
  ASSUME ScheduleAssumption, RecordInv, [Next]_vars
  PROVE  RecordInv'
<1>1. row' \in Rows
  BY StepKeepsRow DEF RecordInv
<1>2. CASE record' = record
  BY <1>1, <1>2 DEF RecordInv, RecordAnchored, OneRecordPerPosition
<1>3. ASSUME NEW kind \in Kinds, NEW i, NEW how \in {"sent", "skipped", "handled"},
             Recorded(kind, i, how)
      PROVE  RecordInv'
  <2> DEFINE new == [kind |-> kind, anchor |-> row.anchor[kind], index |-> i,
                     offset |-> row.list[kind][i], how |-> how]
  <2>1. record' = record \cup {new}
    BY <1>3 DEF Recorded, RecordEntry
  <2>2. new.kind = kind /\ new.anchor = row.anchor[kind] /\ new.index = i /\ new.anchor # Unset
    BY <1>3 DEF Recorded
  <2>3. \A e \in record : ~(e.kind = kind /\ e.anchor = row.anchor[kind] /\ e.index = i)
    BY <1>3 DEF Recorded, Consumed, RecordOn
  <2> HIDE DEF new
  <2> QED
    BY <1>1, <2>1, <2>2, <2>3 DEF RecordInv, RecordAnchored, OneRecordPerPosition
<1> QED
  BY <1>2, <1>3, RecordGrows DEF RecordInv

LEMMA RecordStart ==
  ASSUME Init PROVE RecordInv
  BY DEF Init, RecordInv, RecordAnchored, OneRecordPerPosition

(* _fired: through moves of the anchor away and back, passes that overlap  *)
(* and an operator who marks done, a position is recorded once for a value *)
(* of its anchor.                                                          *)
THEOREM RecordedOnce == ASSUME ScheduleAssumption PROVE Spec => []OneRecordPerPosition
<1>1. RecordInv => OneRecordPerPosition
  BY DEF RecordInv
<1> QED
  BY <1>1, RecordStart, RecordStep, PTL DEF Spec

-----------------------------------------------------------------------------
(* The schedule changes by a save that respects what is on record, or by   *)
(* clearing an anchor.                                                     *)
Stored(kind, anchor, entries) ==
  /\ SentEntriesStay(kind, anchor, entries)
  /\ \E status \in {"draft", "validated", "ready", "expired"} :
       row' = [row EXCEPT !.status = status, !.anchor[kind] = anchor, !.list[kind] = entries]

Cleared ==
  /\ row'.list = row.list
  /\ \A kind \in Kinds : row'.anchor[kind] \in {row.anchor[kind], Unset}

LEMMA ScheduleMoves ==
  ASSUME row \in Rows, [Next]_vars
  PROVE  \/ Cleared
         \/ \E kind \in Kinds : \E anchor, entries : Stored(kind, anchor, entries)
<1>0. /\ row' = row => Cleared
      /\ \A kind \in Kinds : StartCleared[kind] \in {row.anchor[kind], Unset}
  BY DEF Cleared, StartCleared, Rows
<1>1. ASSUME Saves
      PROVE  \E kind \in Kinds : \E anchor, entries : Stored(kind, anchor, entries)
  <2>1. PICK kind \in Kinds : \E entries \in Lists(kind), anchor \in Anchors(kind) :
          SaveSchedule(kind, anchor, entries) \/ ImportSchedule(kind, anchor, entries)
    BY <1>1 DEF Saves
  <2>2. PICK entries \in Lists(kind), anchor \in Anchors(kind) :
          SaveSchedule(kind, anchor, entries) \/ ImportSchedule(kind, anchor, entries)
    BY <2>1
  <2>3. SentEntriesStay(kind, anchor, entries)
    BY <2>2 DEF SaveSchedule, ImportSchedule
  <2>4. CASE SaveSchedule(kind, anchor, entries)
    BY <2>3, <2>4 DEF SaveSchedule, StoreSchedule, Stored
  <2>5. CASE ImportSchedule(kind, anchor, entries)
    BY <2>3, <2>5 DEF ImportSchedule, StoreSchedule, Stored
  <2> QED
    BY <2>2, <2>4, <2>5
<1>2. ASSUME NEW status, NEW anchors \in {row.anchor, StartCleared}, MoveTo(status, anchors)
      PROVE  Cleared
  BY <1>0, <1>2 DEF MoveTo, Cleared, Rows
<1>3. StageMoves => Cleared
  BY <1>2 DEF StageMoves, Prepare, Activate, Close, RevertToDraft
<1>4. ASSUME NEW p \in Passes, PassStep(p), row' # row PROVE Cleared
  <2>1. ASSUME NEW kind \in Kinds,
               FireEntry(p, kind) \/ EntriesDone(p, kind) \/ EntryFails(p, kind)
        PROVE  FALSE
    BY <1>4, <2>1 DEF FireEntry, EntriesDone, EntryFails, sessionVars
  <2>2. CASE ScheduledActivation(p)
    BY <1>0, <2>2 DEF ScheduledActivation, Cleared, Rows
  <2>3. CASE ActivationFails(p)
    BY <1>0, <2>3 DEF ActivationFails, Cleared, Rows
  <2>4. CASE CloseAtEnd(p)
    BY <1>0, <2>4 DEF CloseAtEnd, Cleared, Rows
  <2> QED
    BY <1>4, <2>1, <2>2, <2>3, <2>4 DEF PassStep, Sends, BeginPass, ActivationMoot, PassEnds, sessionVars
<1>5. Tick \/ TurnSendingOn \/ DrawPrompt \/ MarkDone \/ DropPrompt
      \/ (\E r \in Reviewers : SendByHand(r) \/ Submit(r)) \/ UNCHANGED vars => row' = row
  BY DEF Tick, TurnSendingOn, DrawPrompt, MarkDone, DropPrompt, SendByHand, Submit, vars
<1> QED
  BY <1>0, <1>1, <1>3, <1>4, <1>5 DEF Next

StoredInv == RecordInv /\ StoredEntriesCanFire

LEMMA ClearingStrandsNothing ==
  ASSUME RecordInv, StoredEntriesCanFire, Cleared, record' = record
  PROVE  StoredEntriesCanFire'
<1> SUFFICES ASSUME NEW kind \in Kinds, NEW e \in record,
                    e.kind = kind, e.anchor = row'.anchor[kind], e.index \in DOMAIN row'.list[kind]
             PROVE  row'.list[kind][e.index] = e.offset
  BY DEF StoredEntriesCanFire, RecordOn
<1>1. row'.anchor[kind] = row.anchor[kind] /\ row'.list = row.list
  BY DEF Cleared, RecordInv, RecordAnchored
<1> QED
  BY <1>1 DEF StoredEntriesCanFire, RecordOn

LEMMA SavesStrandNothing ==
  ASSUME RecordInv, StoredEntriesCanFire, record' = record,
         NEW k \in Kinds, NEW anchor, NEW entries, Stored(k, anchor, entries)
  PROVE  StoredEntriesCanFire'
<1> SUFFICES ASSUME NEW kind \in Kinds, NEW e \in record,
                    e.kind = kind, e.anchor = row'.anchor[kind], e.index \in DOMAIN row'.list[kind]
             PROVE  row'.list[kind][e.index] = e.offset
  BY DEF StoredEntriesCanFire, RecordOn
<1>1. /\ row'.anchor[kind] = IF kind = k THEN anchor ELSE row.anchor[kind]
      /\ row'.list[kind] = IF kind = k THEN entries ELSE row.list[kind]
  BY DEF Stored, RecordInv, Rows
<1>2. ASSUME kind # k \/ (entries = row.list[kind] /\ anchor = row.anchor[kind])
      PROVE  row'.anchor[kind] = row.anchor[kind] /\ row'.list[kind] = row.list[kind]
  BY <1>1, <1>2
<1>3. CASE row'.anchor[kind] = row.anchor[kind] /\ row'.list[kind] = row.list[kind]
  BY <1>3 DEF StoredEntriesCanFire, RecordOn
<1> QED
  BY <1>1, <1>2, <1>3 DEF Stored, SentEntriesStay, RecordOn

LEMMA RecordsStrandNothing ==
  ASSUME StoredEntriesCanFire,
         NEW k \in Kinds, NEW i, NEW how, Recorded(k, i, how)
  PROVE  StoredEntriesCanFire'
<1> DEFINE new == [kind |-> k, anchor |-> row.anchor[k], index |-> i,
                   offset |-> row.list[k][i], how |-> how]
<1>1. record' = record \cup {new} /\ row' = row
  BY DEF Recorded, RecordEntry
<1>2. new.kind = k /\ new.index = i /\ new.offset = row.list[k][i]
  OBVIOUS
<1> HIDE DEF new
<1> QED
  BY <1>1, <1>2 DEF StoredEntriesCanFire, RecordOn

(* fired_offset_errors: whatever is saved, imported, moved or recorded, an *)
(* entry stored at a position that is on record is the one on record: none *)
(* is stranded where it would never be sent (findings Bc1).                *)
THEOREM NothingIsStranded == ASSUME ScheduleAssumption PROVE Spec => []StoredEntriesCanFire
<1>1. Init => StoredInv
  <2>1. Init => StoredEntriesCanFire
    BY DEF Init, StoredEntriesCanFire, RecordOn
  <2> QED
    BY <2>1, RecordStart DEF StoredInv
<1>2. StoredInv /\ [Next]_vars => StoredInv'
  <2> SUFFICES ASSUME StoredInv, [Next]_vars PROVE StoredInv'
    OBVIOUS
  <2>1. RecordInv' /\ row \in Rows
    BY RecordStep DEF StoredInv, RecordInv
  <2>2. CASE record' = record
    BY <2>1, <2>2, ScheduleMoves, ClearingStrandsNothing, SavesStrandNothing DEF StoredInv
  <2>3. CASE record' # record
    BY <2>1, <2>3, RecordGrows, RecordsStrandNothing DEF StoredInv
  <2> QED
    BY <2>2, <2>3
<1>3. StoredInv => StoredEntriesCanFire
  BY DEF StoredInv
<1> QED
  BY <1>1, <1>2, <1>3, PTL DEF Spec

-----------------------------------------------------------------------------
(* mark_done: of every step, what is recorded as handled is the entry the  *)
(* operator's page showed, however the schedule moved since it was drawn.  *)
THEOREM OnlyTheShownIsDone == ASSUME ScheduleAssumption PROVE Spec => [][DoneIsWhatWasShown]_vars
<1>1. RecordInv /\ [Next]_vars => DoneIsWhatWasShown
  <2> SUFFICES ASSUME RecordInv, [Next]_vars, NEW e \in record' \ record, e.how = "handled"
               PROVE  /\ prompt # NoPrompt
                      /\ e = [kind |-> prompt.kind, anchor |-> prompt.anchor, index |-> prompt.index,
                              offset |-> prompt.offset, how |-> "handled"]
    BY DEF DoneIsWhatWasShown
  <2>1. PICK kind \in Kinds : \E i : \E how \in {"sent", "skipped", "handled"} :
          Recorded(kind, i, how)
    BY RecordGrows DEF RecordInv
  <2>2. PICK i : \E how \in {"sent", "skipped", "handled"} : Recorded(kind, i, how)
    BY <2>1
  <2>3. PICK how \in {"sent", "skipped", "handled"} : Recorded(kind, i, how)
    BY <2>2
  <2>4. e = [kind |-> kind, anchor |-> row.anchor[kind], index |-> i,
             offset |-> row.list[kind][i], how |-> how]
    BY <2>3 DEF Recorded, RecordEntry
  <2>5. how = "handled"
    BY <2>4
  <2> QED
    BY <2>3, <2>4, <2>5 DEF Recorded, Prompt
<1> QED
  BY <1>1, RecordStart, RecordStep, PTL DEF Spec

-----------------------------------------------------------------------------
(* The outbox holds at most one reminder on a reviewer's key for a position*)
ReminderCounts == reminded \in [Reviewers -> [Positions -> 0..1]]

LEMMA ReminderStep ==
  ASSUME ReminderCounts, [Next]_vars
  PROVE  ReminderCounts'
<1>1. ASSUME NEW i, DispatchReminders(i) PROVE ReminderCounts'
  <2>1. ASSUME NEW r \in Reviewers
        PROVE  (IF r \notin complete /\ invitation[r] # "none" /\ reminded[r][i] = 0
                  THEN [reminded[r] EXCEPT ![i] = @ + 1] ELSE reminded[r]) \in [Positions -> 0..1]
    <3>1. reminded[r] \in [Positions -> 0..1]
      BY DEF ReminderCounts
    <3>2. ASSUME reminded[r][i] = 0
          PROVE  [reminded[r] EXCEPT ![i] = @ + 1] \in [Positions -> 0..1]
      <4>1. [reminded[r] EXCEPT ![i] = @ + 1] = [reminded[r] EXCEPT ![i] = 1]
        BY <3>1, <3>2
      <4>2. 1 \in 0..1
        OBVIOUS
      <4>3. ASSUME NEW S, 1 \in S, NEW f \in [Positions -> S]
            PROVE  [f EXCEPT ![i] = 1] \in [Positions -> S]
        BY <4>3
      <4> QED
        BY <3>1, <4>1, <4>2, <4>3
    <3> QED
      BY <3>1, <3>2
  <2> QED
    BY <1>1, <2>1 DEF DispatchReminders, ReminderCounts
<1>2. ASSUME NEW p \in Passes, PassStep(p), reminded' # reminded
      PROVE  \E i : DispatchReminders(i)
  <2>1. ASSUME NEW kind \in Kinds, FireEntry(p, kind) PROVE \E i : DispatchReminders(i)
    BY <1>2, <2>1 DEF FireEntry, DispatchInvites
  <2>2. ASSUME NEW kind \in Kinds, EntriesDone(p, kind) \/ EntryFails(p, kind) PROVE FALSE
    BY <1>2, <2>2 DEF EntriesDone, EntryFails, sessionVars
  <2> QED
    BY <1>2, <2>1, <2>2 DEF PassStep, Sends, BeginPass, ActivationMoot, ScheduledActivation,
       ActivationFails, CloseAtEnd, PassEnds, sessionVars
<1>3. Saves \/ StageMoves => reminded' = reminded
  BY DEF Saves, SaveSchedule, ImportSchedule, StoreSchedule, StageMoves, Prepare, Activate,
     Close, RevertToDraft, MoveTo
<1>4. Tick \/ TurnSendingOn \/ DrawPrompt \/ MarkDone \/ DropPrompt
      \/ (\E r \in Reviewers : SendByHand(r) \/ Submit(r)) \/ UNCHANGED vars => reminded' = reminded
  BY DEF Tick, TurnSendingOn, DrawPrompt, MarkDone, DropPrompt, SendByHand, Submit, vars
<1> QED
  BY <1>1, <1>2, <1>3, <1>4 DEF Next, ReminderCounts

(* The outbox key: nobody gets scheduled reminder n twice, by any passes,  *)
(* moves of End and failures half-way (findings Bc2).                      *)
THEOREM RemindedOnce == Spec => []NobodyIsRemindedTwice
<1>1. Init => ReminderCounts
  BY DEF Init, ReminderCounts
<1>2. ReminderCounts => NobodyIsRemindedTwice
  BY DEF ReminderCounts, NobodyIsRemindedTwice
<1> QED
  BY <1>1, <1>2, ReminderStep, PTL DEF Spec

-----------------------------------------------------------------------------
(* A pass knows the row it read last and what it has taken.                *)
PassStates == [step: Steps, at: Instants, mails: BOOLEAN, sends: BOOLEAN,
               mem: Rows, handled: SUBSET Positions]

PassTypes ==
  /\ row \in Rows
  /\ now \in Instants
  /\ sending \in BOOLEAN
  /\ pass \in [Passes -> PassStates]

LEMMA ListPositions ==
  ASSUME ScheduleAssumption, NEW r \in Rows, NEW kind \in Kinds
  PROVE  /\ DOMAIN r.list[kind] \subseteq Positions
         /\ \A i \in DOMAIN r.list[kind] : r.list[kind][i] \in Nat
<1>1. r.list[kind] \in Lists("invite") \cup Lists("reminder")
  BY DEF Rows
<1>2. PICK k \in Kinds : r.list[kind] \in Lists(k)
  BY <1>1 DEF Kinds
<1>3. PICK n \in 0..MaxPositions : r.list[kind] \in [1..n -> Offsets[k]]
  BY <1>2 DEF Lists
<1>4. Offsets[k] \subseteq Nat /\ 1..n \subseteq Positions
  BY DEF ScheduleAssumption, Positions
<1> QED
  BY <1>3, <1>4

(* From takes the first step with work.                                    *)
LEMMA FirstStep ==
  ASSUME NEW q, NEW n \in 1..4
  PROVE  \/ From(q, n) = NoPass
         \/ \E k \in n..4 :
              /\ HasWork(q, Order[k])
              /\ \A l \in n..4 : HasWork(q, Order[l]) => k <= l
              /\ From(q, n) = [q EXCEPT !.step = Order[k], !.handled = IF k = 2 THEN @ ELSE {}]
<1> DEFINE ahead == {k \in n..4 : HasWork(q, Order[k])}
           first == CHOOSE k \in ahead : \A l \in ahead : k <= l
<1>1. SUFFICES ASSUME ahead # {}
               PROVE  first \in ahead /\ \A l \in ahead : first <= l
  BY DEF From
<1>2. ahead \subseteq {1, 2, 3, 4}
  OBVIOUS
<1> HIDE DEF ahead
<1>3. \E k \in ahead : \A l \in ahead : k <= l
  <2>1. CASE 1 \in ahead
    BY <1>2, <2>1
  <2>2. CASE 1 \notin ahead /\ 2 \in ahead
    BY <1>2, <2>2
  <2>3. CASE 1 \notin ahead /\ 2 \notin ahead /\ 3 \in ahead
    BY <1>2, <2>3
  <2>4. CASE 1 \notin ahead /\ 2 \notin ahead /\ 3 \notin ahead
    <3>1. ahead = {4}
      BY <1>1, <1>2, <2>4
    <3> QED
      BY <3>1
  <2> QED
    BY <2>1, <2>2, <2>3, <2>4
<1> QED
  BY <1>3

LEMMA IdlePass ==
  ASSUME ScheduleAssumption
  PROVE  NoPass \in PassStates /\ NoPass.step = "idle"
<1>1. NewRow \in Rows
  <2>1. << >> \in Lists("invite")
    BY DEF Lists, ScheduleAssumption
  <2> QED
    BY <2>1 DEF NewRow, Rows
<1> QED
  BY <1>1 DEF NoPass, PassStates, Steps, ScheduleAssumption, Instants

LEMMA FromKeepsType ==
  ASSUME ScheduleAssumption, NEW q \in PassStates, NEW n \in 1..4
  PROVE  From(q, n) \in PassStates
<1>1. ASSUME NEW k \in n..4
      PROVE  [q EXCEPT !.step = Order[k], !.handled = IF k = 2 THEN @ ELSE {}] \in PassStates
  <2>1. Order[k] \in Steps
    BY DEF Order, Steps
  <2> QED
    BY <2>1 DEF PassStates
<1> QED
  <2>1. CASE From(q, n) = NoPass
    BY <2>1, IdlePass
  <2>2. ASSUME NEW k \in n..4,
               From(q, n) = [q EXCEPT !.step = Order[k], !.handled = IF k = 2 THEN @ ELSE {}]
        PROVE  From(q, n) \in PassStates
    BY <1>1, <2>2
  <2> QED
    BY <2>1, <2>2, FirstStep

(* A pass that reaches the activation had no invites left to send.         *)
LEMMA ReachesActivation ==
  ASSUME NEW q \in PassStates, NEW n \in 1..4, From(q, n).step = "activation"
  PROVE  /\ n <= 2 /\ HasWork(q, "activation")
         /\ n = 1 => ~HasWork(q, "invite")
         /\ From(q, n) = [q EXCEPT !.step = "activation"]
<1>1. NoPass.step # "activation"
  BY DEF NoPass
<1>2. PICK k \in n..4 :
        /\ HasWork(q, Order[k])
        /\ \A l \in n..4 : HasWork(q, Order[l]) => k <= l
        /\ From(q, n) = [q EXCEPT !.step = Order[k], !.handled = IF k = 2 THEN @ ELSE {}]
  BY <1>1, FirstStep
<1>3. Order[k] = "activation"
  BY <1>2 DEF PassStates
<1>4. k = 2 /\ Order[1] = "invite"
  BY <1>3 DEF Order
<1> QED
  <2>1. n <= 2 /\ HasWork(q, "activation") /\ (n = 1 => ~HasWork(q, "invite"))
    BY <1>2, <1>3, <1>4
  <2>2. From(q, n) = [q EXCEPT !.step = "activation", !.handled = @]
    BY <1>2, <1>3, <1>4
  <2> QED
    BY <2>1, <2>2 DEF PassStates

-----------------------------------------------------------------------------
(* How a step moves the pass p: not at all, to its end, on with an entry   *)
(* taken, from the start, past the invites, or past the activation.        *)
Fresh(mails) == [step |-> "idle", at |-> now, mails |-> mails, sends |-> sending,
                 mem |-> row, handled |-> {}]
Reread(p, r) == [pass[p] EXCEPT !.mem = r]

Moved(p) ==
  \/ pass'[p] \in {pass[p], NoPass}
  \/ /\ pass[p].step # "activation"
     /\ \E i \in Positions : pass'[p] = [pass[p] EXCEPT !.mem = row, !.handled = @ \cup {i}]
  \/ \E mails \in BOOLEAN : pass'[p] = From(Fresh(mails), 1)
  \/ Pending(p, "invite") = {} /\ pass'[p] = From(Reread(p, row), 2)
  \/ \E r \in Rows, n \in 3..4 : pass'[p] = From(Reread(p, r), n)

LEMMA Resumed ==
  ASSUME PassTypes, NEW p \in Passes, NEW r, NEW n, Resume(p, r, n)
  PROVE  pass'[p] = From(Reread(p, r), n)
  BY DEF PassTypes, Resume, Reread

LEMMA GoesOn ==
  ASSUME NEW p, NEW r \in Rows, NEW n \in 3..4, pass'[p] = From(Reread(p, r), n)
  PROVE  Moved(p)
<1> DEFINE result(s, k) == From(Reread(p, s), k)
<1>1. pass'[p] = result(r, n)
  OBVIOUS
<1> HIDE DEF result
<1>2. \E s \in Rows, k \in 3..4 : pass'[p] = result(s, k)
  BY <1>1
<1> QED
  BY <1>2 DEF Moved, result

LEMMA SendsMovePass ==
  ASSUME ScheduleAssumption, PassTypes, NEW p \in Passes, Sends(p)
  PROVE  Moved(p)
<1> USE DEF PassTypes
<1>1. ASSUME NEW kind \in Kinds, FireEntry(p, kind) PROVE Moved(p)
  <2>1. Earliest(p, kind) \in Positions
    BY <1>1, EarliestIsPending, ListPositions DEF FireEntry, Pending, DueAt
  <2>2. pass[p].step # "activation"
    BY <1>1 DEF FireEntry, At, Kinds
  <2> QED
    BY <1>1, <2>1, <2>2 DEF FireEntry, Moved
<1>2. ASSUME NEW kind \in Kinds, EntriesDone(p, kind) PROVE Moved(p)
  <2>1. pass'[p] = From(Reread(p, row), After(kind))
    BY <1>2, Resumed DEF EntriesDone
  <2>2. CASE kind = "invite"
    BY <1>2, <2>1, <2>2 DEF EntriesDone, After, Moved
  <2>3. CASE kind # "invite"
    BY <2>1, <2>3, GoesOn DEF After
  <2> QED
    BY <2>2, <2>3
<1>3. ASSUME NEW kind \in Kinds, EntryFails(p, kind) PROVE Moved(p)
  <2>1. PICK n \in 3..4 : Resume(p, row, n)
    BY <1>3 DEF EntryFails
  <2> QED
    BY <2>1, Resumed, GoesOn
<1> QED
  BY <1>1, <1>2, <1>3 DEF Sends

LEMMA OwnStepMovesPass ==
  ASSUME ScheduleAssumption, PassTypes, NEW p \in Passes, PassStep(p)
  PROVE  Moved(p)
<1>0. row' \in Rows
  BY PassesKeepRow DEF PassTypes
<1> USE DEF PassTypes
<1>1. ASSUME NEW mails \in BOOLEAN, BeginPass(p, mails) PROVE Moved(p)
  BY <1>1 DEF BeginPass, Fresh, Moved
<1>2. CASE ActivationMoot(p)
  BY <1>2, Resumed, GoesOn DEF ActivationMoot
<1>3. CASE ScheduledActivation(p)
  BY <1>0, <1>3, Resumed, GoesOn DEF ScheduledActivation
<1>4. CASE ActivationFails(p)
  BY <1>0, <1>4, Resumed, GoesOn DEF ActivationFails
<1>5. CASE CloseAtEnd(p) \/ PassEnds(p)
  BY <1>5 DEF CloseAtEnd, PassEnds, Moved
<1> QED
  BY <1>1, <1>2, <1>3, <1>4, <1>5, SendsMovePass DEF PassStep

LEMMA OtherStepMovesPass ==
  ASSUME PassTypes, NEW p \in Passes, NEW q \in Passes, p # q, PassStep(q)
  PROVE  pass'[p] = pass[p]
<1>1. ASSUME NEW kind \in Kinds,
             FireEntry(q, kind) \/ EntriesDone(q, kind) \/ EntryFails(q, kind)
      PROVE  pass'[p] = pass[p]
  BY <1>1 DEF PassTypes, FireEntry, EntriesDone, EntryFails, Resume
<1> QED
  BY <1>1 DEF PassTypes, PassStep, Sends, BeginPass, ActivationMoot, ScheduledActivation,
     ActivationFails, CloseAtEnd, PassEnds, Resume

(* No pass has set out or gone on: the steps of the operators, the         *)
(* reviewers and time, and the deployment that ends them all.              *)
LEMMA OthersMovePass ==
  ASSUME PassTypes, [Next]_vars, ~\E q \in Passes : PassStep(q)
  PROVE  \/ pass' = pass
         \/ pass' = [p \in Passes |-> NoPass]
<1>1. Saves => pass' = pass
  BY DEF Saves, SaveSchedule, ImportSchedule, StoreSchedule
<1>2. StageMoves => pass' = pass
  BY DEF StageMoves, Prepare, Activate, Close, RevertToDraft, MoveTo
<1> QED
  BY <1>1, <1>2 DEF Next, Tick, TurnSendingOn, DrawPrompt, MarkDone, DropPrompt, SendByHand, Submit, vars

LEMMA PassMoves ==
  ASSUME ScheduleAssumption, PassTypes, [Next]_vars
  PROVE  \A p \in Passes : Moved(p)
<1>1. CASE \E q \in Passes : PassStep(q)
  BY <1>1, OwnStepMovesPass, OtherStepMovesPass DEF Moved
<1>2. CASE ~\E q \in Passes : PassStep(q)
  BY <1>2, OthersMovePass DEF Moved
<1> QED
  BY <1>1, <1>2

LEMMA PassDomain ==
  ASSUME PassTypes, [Next]_vars
  PROVE  DOMAIN pass' = Passes /\ pass' = [p \in Passes |-> pass'[p]]
<1>1. ASSUME NEW q \in Passes, PassStep(q) PROVE pass' = [p \in Passes |-> pass'[p]]
  <2>1. ASSUME NEW kind \in Kinds,
               FireEntry(q, kind) \/ EntriesDone(q, kind) \/ EntryFails(q, kind)
        PROVE  pass' = [p \in Passes |-> pass'[p]]
    BY <2>1 DEF PassTypes, FireEntry, EntriesDone, EntryFails, Resume
  <2> QED
    BY <1>1, <2>1 DEF PassTypes, PassStep, Sends, BeginPass, ActivationMoot, ScheduledActivation,
       ActivationFails, CloseAtEnd, PassEnds, Resume
<1>2. CASE ~\E q \in Passes : PassStep(q)
  BY <1>2, OthersMovePass DEF PassTypes
<1> QED
  BY <1>1, <1>2

LEMMA PassTypesStep ==
  ASSUME ScheduleAssumption, PassTypes, [Next]_vars
  PROVE  PassTypes'
<1>1. row' \in Rows
  BY StepKeepsRow DEF PassTypes
<1>2. now' \in Instants /\ sending' \in BOOLEAN
  <2>1. Saves \/ StageMoves => now' = now /\ sending' = sending
    BY DEF Saves, SaveSchedule, ImportSchedule, StoreSchedule, StageMoves, Prepare, Activate,
       Close, RevertToDraft, MoveTo
  <2>2. ASSUME NEW p \in Passes, PassStep(p) PROVE now' = now /\ sending' = sending
    <3>1. ASSUME NEW kind \in Kinds,
                 FireEntry(p, kind) \/ EntriesDone(p, kind) \/ EntryFails(p, kind)
          PROVE  now' = now /\ sending' = sending
      BY <3>1 DEF FireEntry, EntriesDone, EntryFails, sessionVars
    <3> QED
      BY <2>2, <3>1 DEF PassStep, Sends, BeginPass, ActivationMoot, ScheduledActivation,
         ActivationFails, CloseAtEnd, PassEnds, sessionVars
  <2>3. Tick => now' \in Instants /\ sending' = sending
    BY DEF Tick, PassTypes, Instants, ScheduleAssumption
  <2>4. TurnSendingOn \/ DrawPrompt \/ MarkDone \/ DropPrompt
        \/ (\E r \in Reviewers : SendByHand(r) \/ Submit(r)) \/ UNCHANGED vars
        => now' = now /\ sending' \in {sending, TRUE}
    BY DEF TurnSendingOn, DrawPrompt, MarkDone, DropPrompt, SendByHand, Submit, vars
  <2> QED
    BY <2>1, <2>2, <2>3, <2>4 DEF Next, PassTypes
<1>3. ASSUME NEW p \in Passes PROVE pass'[p] \in PassStates
  <2>1. pass[p] \in PassStates /\ row \in Rows
    BY DEF PassTypes
  <2>2. ASSUME NEW r \in Rows PROVE Reread(p, r) \in PassStates
    BY <2>1 DEF Reread, PassStates
  <2>3. ASSUME NEW mails \in BOOLEAN PROVE Fresh(mails) \in PassStates
    BY DEF Fresh, PassStates, PassTypes, Steps
  <2>4. ASSUME NEW i \in Positions
        PROVE  [pass[p] EXCEPT !.mem = row, !.handled = @ \cup {i}] \in PassStates
    BY <2>1 DEF PassStates
  <2>5. NoPass \in PassStates
    BY IdlePass
  <2>6. ASSUME NEW r \in Rows, NEW n \in 2..4 PROVE From(Reread(p, r), n) \in PassStates
    BY <2>2, FromKeepsType
  <2>7. ASSUME NEW mails \in BOOLEAN PROVE From(Fresh(mails), 1) \in PassStates
    BY <2>3, FromKeepsType
  <2>8. ASSUME NEW r \in Rows, NEW n \in 3..4, pass'[p] = From(Reread(p, r), n)
        PROVE  pass'[p] \in PassStates
    <3>1. n \in 2..4
      OBVIOUS
    <3> QED
      BY <2>6, <2>8, <3>1
  <2>9. 2 \in 2..4
    OBVIOUS
  <2>10. Pending(p, "invite") = {} /\ pass'[p] = From(Reread(p, row), 2) => pass'[p] \in PassStates
    BY <2>1, <2>6, <2>9
  <2> QED
    BY <2>1, <2>4, <2>5, <2>7, <2>8, <2>10, PassMoves DEF Moved
<1>4. pass' \in [Passes -> PassStates]
  BY <1>3, PassDomain
<1> QED
  BY <1>1, <1>2, <1>4 DEF PassTypes

-----------------------------------------------------------------------------
(* A pass that is to activate and may send has left no invite of the row   *)
(* it read: each is on record or taken.  An entry lies before its anchor,  *)
(* so with Start passed every one of them was due.                         *)
NothingLeft(q) ==
  q.step = "activation" /\ q.sends =>
    \A i \in DOMAIN q.mem.list["invite"] :
      i \in Consumed("invite", q.mem.anchor["invite"]) \cup q.handled

AllDue(r, at) == DueAt(r, "invite", at) = DOMAIN r.list["invite"]

LEMMA StartPassedAllDue ==
  ASSUME ScheduleAssumption, NEW r \in Rows, NEW at \in Instants, StartPassed(r, at)
  PROVE  AllDue(r, at)
<1>1. r.anchor["invite"] # Unset /\ r.anchor["invite"] <= at
  BY DEF StartPassed
<1>2. r.anchor["invite"] \in Nat /\ at \in Nat
  BY <1>1 DEF Rows, Kinds, Instants, ScheduleAssumption
<1>3. \A i \in DOMAIN r.list["invite"] : r.list["invite"][i] \in Nat
  BY ListPositions DEF Kinds
<1>4. \A i \in DOMAIN r.list["invite"] : FireAt(r, "invite", i) <= at
  BY <1>1, <1>2, <1>3 DEF FireAt
<1> QED
  BY <1>1, <1>4 DEF AllDue, DueAt

LEMMA FreshLeavesNothing ==
  ASSUME ScheduleAssumption, PassTypes, NEW mails \in BOOLEAN
  PROVE  NothingLeft(From(Fresh(mails), 1))
<1> DEFINE q == Fresh(mails)
<1>1. q \in PassStates /\ q.at \in Instants /\ q.mem \in Rows
  BY DEF Fresh, PassStates, PassTypes, Steps
<1> HIDE DEF q
<1> SUFFICES ASSUME From(q, 1).step = "activation", q.sends
             PROVE  DOMAIN q.mem.list["invite"] = {}
  <2>1. From(q, 1).step = "activation" => From(q, 1) = [q EXCEPT !.step = "activation"]
    BY <1>1, ReachesActivation
  <2> QED
    BY <1>1, <2>1 DEF NothingLeft, PassStates, q
<1>2. StartPassed(q.mem, q.at) /\ ~Held(q) /\ ~HasWork(q, "invite")
  <2>1. HasWork(q, "activation") /\ ~HasWork(q, "invite")
    BY <1>1, ReachesActivation
  <2> QED
    BY <2>1 DEF HasWork, Kinds
<1>3. CASE q.mails
  <2>1. DueAt(q.mem, "invite", q.at) = {}
    BY <1>2, <1>3 DEF HasWork, Kinds
  <2> QED
    BY <1>1, <1>2, <2>1, StartPassedAllDue DEF AllDue
<1>4. CASE ~q.mails
  BY <1>2, <1>4 DEF Held
<1> QED
  BY <1>3, <1>4

LEMMA InvitesDoneLeaveNothing ==
  ASSUME ScheduleAssumption, PassTypes, NEW p \in Passes, Pending(p, "invite") = {}
  PROVE  NothingLeft(From(Reread(p, row), 2))
<1> DEFINE q == Reread(p, row)
<1>1. /\ q \in PassStates /\ q.mem = row /\ q.handled = pass[p].handled /\ q.at = pass[p].at
      /\ q.at \in Instants /\ row \in Rows
  BY DEF Reread, PassStates, PassTypes
<1> HIDE DEF q
<1>2. SUFFICES ASSUME From(q, 2).step = "activation"
               PROVE  DOMAIN row.list["invite"] \subseteq
                        Consumed("invite", row.anchor["invite"]) \cup pass[p].handled
  <2>1. From(q, 2).step = "activation" => From(q, 2) = [q EXCEPT !.step = "activation"]
    BY <1>1, ReachesActivation
  <2> QED
    BY <1>1, <2>1 DEF NothingLeft, PassStates, q
<1>3. StartPassed(row, q.at)
  <2>1. HasWork(q, "activation")
    BY <1>1, <1>2, ReachesActivation
  <2> QED
    BY <1>1, <2>1 DEF HasWork, Kinds
<1>4. DueAt(row, "invite", pass[p].at) = DOMAIN row.list["invite"]
  BY <1>1, <1>3, StartPassedAllDue DEF AllDue
<1> QED
  BY <1>4 DEF Pending

WaitInv == PassTypes /\ \A p \in Passes : NothingLeft(pass[p])

LEMMA TakingLeavesNothing ==
  ASSUME PassTypes, NEW p \in Passes, pass[p].step # "activation", NEW i,
         pass'[p] = [pass[p] EXCEPT !.mem = row, !.handled = @ \cup {i}]
  PROVE  NothingLeft(pass'[p])
  BY DEF NothingLeft, PassTypes, PassStates

LEMMA GoingOnLeavesNothing ==
  ASSUME PassTypes, NEW p \in Passes, NEW r \in Rows, NEW n \in 3..4
  PROVE  NothingLeft(From(Reread(p, r), n))
<1>1. Reread(p, r) \in PassStates
  BY DEF Reread, PassTypes, PassStates
<1>2. From(Reread(p, r), n).step # "activation"
  BY <1>1, ReachesActivation
<1> QED
  BY <1>2 DEF NothingLeft

LEMMA WaitStep ==
  ASSUME ScheduleAssumption, WaitInv, [Next]_vars
  PROVE  WaitInv'
<1>1. PassTypes' /\ row \in Rows /\ PassTypes
  BY PassTypesStep DEF WaitInv, PassTypes
<1>2. record \subseteq record'
  <2>1. ASSUME NEW kind, NEW i, NEW how, Recorded(kind, i, how) PROVE record \subseteq record'
    BY <2>1 DEF Recorded, RecordEntry
  <2> QED
    BY <1>1, <2>1, RecordGrows
<1>3. ASSUME NEW p \in Passes PROVE NothingLeft(pass'[p])
  <2>1. NothingLeft(pass[p]) /\ NothingLeft(NoPass)
    BY DEF WaitInv, NothingLeft, NoPass
  <2>2. ASSUME NEW mails \in BOOLEAN, pass'[p] = From(Fresh(mails), 1) PROVE NothingLeft(pass'[p])
    BY <1>1, <2>2, FreshLeavesNothing
  <2>3. Pending(p, "invite") = {} /\ pass'[p] = From(Reread(p, row), 2) => NothingLeft(pass'[p])
    BY <1>1, InvitesDoneLeaveNothing
  <2>4. ASSUME NEW r \in Rows, NEW n \in 3..4, pass'[p] = From(Reread(p, r), n)
        PROVE  NothingLeft(pass'[p])
    BY <1>1, <2>4, GoingOnLeavesNothing
  <2>5. ASSUME pass[p].step # "activation", NEW i \in Positions,
               pass'[p] = [pass[p] EXCEPT !.mem = row, !.handled = @ \cup {i}]
        PROVE  NothingLeft(pass'[p])
    BY <1>1, <2>5, TakingLeavesNothing
  <2> QED
    BY <1>1, <2>1, <2>2, <2>3, <2>4, <2>5, PassMoves DEF Moved
<1>4. ASSUME NEW p \in Passes PROVE NothingLeft(pass[p])'
  BY <1>2, <1>3 DEF NothingLeft, Consumed, RecordOn
<1> QED
  BY <1>1, <1>4 DEF WaitInv

(* _observe_all: of every step, with sending on the activation that clears *)
(* Start comes after the invites it was to come after, for any passes that *)
(* overlap, saves between their locks and entries that fail.               *)
THEOREM InvitesComeFirst ==
  ASSUME ScheduleAssumption PROVE Spec => [][ActivationWaitsForInvites]_vars
<1>1. Init => WaitInv
  <2> SUFFICES ASSUME Init PROVE WaitInv
    OBVIOUS
  <2>1. \A p \in Passes : pass[p] = NoPass
    BY DEF Init
  <2>2. NothingLeft(NoPass)
    BY DEF NothingLeft, NoPass
  <2>3. PassTypes
    BY IdlePass DEF Init, PassTypes, ScheduleAssumption, Instants
  <2> QED
    BY <2>1, <2>2, <2>3 DEF WaitInv
<1>2. WaitInv => ActivationWaitsForInvites
  <2> SUFFICES ASSUME WaitInv, NEW p \in Passes, At(p, "activation"), pass[p].sends,
                      row.anchor["invite"] = pass[p].mem.anchor["invite"],
                      NEW i \in DOMAIN row.list["invite"] \cap DOMAIN pass[p].mem.list["invite"]
               PROVE  i \in Consumed("invite", row.anchor["invite"]) \cup pass[p].handled
    BY DEF ActivationWaitsForInvites
  <2> QED
    BY DEF WaitInv, NothingLeft, At
<1> QED
  BY <1>1, <1>2, WaitStep, PTL DEF Spec
=============================================================================
