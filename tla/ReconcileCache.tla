--------------------------- MODULE ReconcileCache ---------------------------
(***************************************************************************)
(* The cached verdict "would regenerating change which pairs exist?" of    *)
(* one instrument.  A page load recomputes it when the stamp of the        *)
(* verdict's inputs has moved and commits it; Generate writes it through.  *)
(* Page loads take no lock; they read the instrument, the roster, the row  *)
(* summary and the rows in statements of their own, under READ COMMITTED.  *)
(*                                                                         *)
(* The verdict and its stamp are columns of the instrument, set on an      *)
(* object the request loaded earlier; its UPDATE sends only the columns    *)
(* whose value differs from the one it loaded.                             *)
(***************************************************************************)
EXTENDS Integers, FiniteSets, SequencesExt

CONSTANTS
    Loads,          \* page loads in flight at once
    People,         \* rows of the roster
    Rules,          \* pinned rules: [name, keeps] with the people it keeps
    MaxIds,         \* bound on the assignment ids handed out
    MaxEdits,       \* bound on the operator's edits
    MaxLoads        \* bound on the page loads begun

BoundsAssumption ==
    /\ MaxIds \in Nat /\ MaxEdits \in Nat /\ MaxLoads \in Nat
    /\ IsFiniteSet(People)
    /\ \A r \in Rules : r.keeps \subseteq People

\* Every person is reviewed by one reviewer, so a pair is a person.
FullMatrix == [name |-> "full", keeps |-> People]       \* nothing pinned
Pinned == Rules \cup {FullMatrix}

Fan(rule, roster) == rule.keeps \cap roster

\* mutant: the rows are told apart by their number alone
SummaryByCount(rs) == [count |-> Cardinality(DOMAIN rs), maxId |-> 0]

\* MaterializedRows: never the rows, only how many and the highest id.
Summary(rs) == [count |-> Cardinality(DOMAIN rs),
                maxId |-> IF DOMAIN rs = {} THEN 0 ELSE Max(DOMAIN rs)]

Stamp(rule, roster, summary) == [rule |-> rule, roster |-> roster, rows |-> summary]

\* Never generated is not stale.
Verdict(fan, rs) ==
    [stale |-> IF DOMAIN rs # {} /\ Range(rs) # fan THEN "yes" ELSE "no",
     eligible |-> Cardinality(fan)]

NoCache == [stamp |-> Stamp([name |-> "none", keeps |-> {}], {}, Summary(<< >>)),
            stale |-> "null", eligible |-> -1]
Stored(stamp, verdict) == [stamp |-> stamp, stale |-> verdict.stale, eligible |-> verdict.eligible]

VARIABLES
    rule, roster,   \* the inputs of the verdict
    rows,           \* assignment rows: id -> person
    lastId,         \* the sequence; an id is never handed out again
    cache,          \* instruments.cached_reconcile_*
    load,           \* [Loads -> what the page load has read so far]
    generate,       \* the instrument as a Generate in flight loaded it
    computed,       \* history: the verdicts computed, with their stamps
    edits, loads

vars == <<rule, roster, rows, lastId, cache, load, generate, computed, edits, loads>>

Idle == [at |-> "idle"]

TypeOK ==
    /\ rule \in Pinned /\ roster \subseteq People
    /\ DOMAIN rows \subseteq 1..lastId /\ Range(rows) \subseteq roster
    /\ IsInjective(rows)
    /\ lastId \in 0..MaxIds
    /\ cache.stale \in {"null", "yes", "no"} /\ cache.eligible \in -1..Cardinality(People)
    /\ \A p \in Loads : load[p].at \in {"idle", "rule", "roster", "missed", "computed"}
    /\ edits \in 0..MaxEdits /\ loads \in 0..MaxLoads

Init ==
    /\ rule = FullMatrix /\ roster = People
    /\ rows = << >> /\ lastId = 0
    /\ cache = NoCache
    /\ load = [p \in Loads |-> Idle]
    /\ generate = Idle
    /\ computed = {}
    /\ edits = 0 /\ loads = 0

-----------------------------------------------------------------------------
(* The operator's writes hold the session lock. *)

Unlocked == generate = Idle

Edit ==
    /\ Unlocked
    /\ edits < MaxEdits /\ edits' = edits + 1
    /\ UNCHANGED <<lastId, cache, load, generate, computed, loads>>

PinRule(r) ==
    /\ Edit /\ r # rule
    /\ rule' = r
    /\ UNCHANGED <<roster, rows>>

\* A deleted person's rows go with it; a person added is a new row of the
\* roster, so one that went never comes back.
DeletePerson(x) ==
    /\ Edit /\ x \in roster
    /\ roster' = roster \ {x}
    /\ rows' = Restrict(rows, {i \in DOMAIN rows : rows[i] # x})
    /\ UNCHANGED rule

BeginGenerate ==
    /\ Unlocked
    /\ generate' = [at |-> "running", loaded |-> cache]
    /\ UNCHANGED <<rule, roster, rows, lastId, cache, load, computed, edits, loads>>

\* The columns of `new` that differ from the ones the request loaded.
Update(loaded, new) == [c \in DOMAIN cache |-> IF new[c] = loaded[c] THEN cache[c] ELSE new[c]]

Kept(fan) == {i \in DOMAIN rows : rows[i] \in fan}
Inserted(fan) == SetToSeq(fan \ Range(rows))

\* The rows after a run: kept pairs keep their row, the others get fresh ids.
Materialised(fan) ==
    [i \in Kept(fan) \cup {lastId + k : k \in DOMAIN Inserted(fan)} |->
        IF i > lastId THEN Inserted(fan)[i - lastId] ELSE rows[i]]

CommitGenerate ==
    /\ generate # Idle
    /\ LET fan == Fan(rule, roster)
           written == Materialised(fan)
           fresh == Stored(Stamp(rule, roster, Summary(written)),
                           Verdict(fan, written))
       IN  /\ lastId' = lastId + Len(Inserted(fan))
           /\ lastId' <= MaxIds
           /\ rows' = written
           /\ cache' = Update(generate.loaded, fresh)
           /\ computed' = computed \cup {fresh}
    /\ generate' = Idle
    /\ UNCHANGED <<rule, roster, load, edits, loads>>

-----------------------------------------------------------------------------
(* A page load, statement by statement. *)

Steps(p, at, next) ==
    /\ load[p].at = at
    /\ load' = [load EXCEPT ![p] = next]
    /\ UNCHANGED <<rule, roster, rows, lastId, generate, edits>>

ReadInstrument(p) ==
    /\ loads < MaxLoads /\ loads' = loads + 1
    /\ Steps(p, "idle", [at |-> "rule", loaded |-> cache, rule |-> rule])
    /\ UNCHANGED <<cache, computed>>

ReadRoster(p) ==
    /\ Steps(p, "rule", [at |-> "roster", loaded |-> load[p].loaded, rule |-> load[p].rule,
                         roster |-> roster])
    /\ UNCHANGED <<cache, computed, loads>>

\* A hit, with every column there, ends the load: nothing to store.
ReadSummary(p) ==
    LET stamp == Stamp(load[p].rule, load[p].roster, Summary(rows))
        hit == load[p].loaded.stamp = stamp
    IN  /\ Steps(p, "roster", IF hit THEN Idle
                              ELSE [at |-> "missed", loaded |-> load[p].loaded, stamp |-> stamp,
                                    seen |-> rows])
        /\ UNCHANGED <<cache, computed, loads>>

\* The diff reads the rows in a later statement, unless nothing is pinned
\* and there were none: then the fan-out is counted, not walked.
Diff(p) ==
    LET stamp == load[p].stamp
        counted == stamp.rule = FullMatrix /\ stamp.rows.count = 0
        read == IF counted THEN << >> ELSE rows
        fresh == Stored(stamp, Verdict(Fan(stamp.rule, stamp.roster), read))
    IN  /\ Steps(p, "missed", [at |-> "computed", loaded |-> load[p].loaded, fresh |-> fresh])
        /\ computed' = IF counted \/ read = load[p].seen THEN computed \cup {fresh} ELSE computed
        /\ UNCHANGED <<cache, loads>>

\* The flush and persist_reconcile_warm's commit: the row's lock orders them.
CommitWarm(p) ==
    /\ Steps(p, "computed", Idle)
    /\ cache' = Update(load[p].loaded, load[p].fresh)
    /\ UNCHANGED <<computed, loads>>

\* The page ends before its commit: what it flushed is rolled back.
AbandonLoad(p) ==
    /\ Steps(p, "computed", Idle)
    /\ UNCHANGED <<cache, computed, loads>>

Next ==
    \/ \E r \in Pinned : PinRule(r)
    \/ \E x \in People : DeletePerson(x)
    \/ BeginGenerate \/ CommitGenerate
    \/ \E p \in Loads : \/ ReadInstrument(p) \/ ReadRoster(p) \/ ReadSummary(p)
                        \/ Diff(p) \/ CommitWarm(p) \/ AbandonLoad(p)

Spec == Init /\ [][Next]_vars

-----------------------------------------------------------------------------
(* Properties. *)

Current == Stamp(rule, roster, Summary(rows))
Truth == Stored(Current, Verdict(Fan(rule, roster), rows))

\* A verdict computed from one view of the rows is the verdict whenever its
\* stamp is the current one: the count and the highest id are enough to tell
\* the row sets apart over any sequence of runs and deletes, and reads of
\* the rule and the roster from different moments cannot pass for the
\* present (reconcile_stamp, MaterializedRows).
ComputedVerdictsAreRight == \A v \in computed : v.stamp = Current => v = Truth

\* _store_state: the four columns go "together, so the read above never sees
\* a stamp that matches beside a value that was not computed with it".
CachedVerdictWasComputed == cache.stamp = Current => cache = Truth
=============================================================================
