------------------------------ MODULE Rosters ------------------------------
(***************************************************************************)
(* The Reviewers and Reviewees rosters of one session: whose row an        *)
(* address is, which directory account the row is bound to, and, under     *)
(* symmetric review, the Reviewees roster kept as the mirror of the        *)
(* Reviewers roster.                                                       *)
(*                                                                         *)
(* Every write holds the session lock from its gate to its commit, so a    *)
(* write is one step.  What a request read before it waited for the lock   *)
(* is not read again: the names an upload was checked against and the      *)
(* directory's answers for it, the row an edit loaded, the addresses a     *)
(* recheck asked about, the route's look at the symmetric flag.  Such a    *)
(* request is begun in one step and saved in another, and `raced` says     *)
(* whether another write committed between the two.                        *)
(*                                                                         *)
(* An address is its lookup key (folded); a name is compared exactly.  The *)
(* database's row ids only grow; here a freed id is used again, and a      *)
(* request in flight on a deleted row fails at once, as its UPDATE would.  *)
(* The directory changes between any two lookups: a lookup may answer any  *)
(* account, nobody, or nothing at all.                                     *)
(***************************************************************************)
EXTENDS Integers, FiniteSets, Functions, TLC

CONSTANTS
    Addresses, Names,
    Accounts,       \* directory accounts
    None,           \* no account; no request in flight
    Unanswered,     \* a lookup the directory gave no answer for
    Requests,       \* requests that may wait for the lock at once
    MaxRows,        \* bound on the rows of one roster
    MaxWrites       \* bound on the requests

ASSUME RostersAssumption ==
    /\ None \notin Accounts /\ Unanswered \notin Accounts \cup {None}
    /\ MaxRows \in Nat \ {0} /\ MaxWrites \in Nat

Kinds == {"reviewers", "reviewees"}
Ids == 1 .. MaxRows

Row == [address : Addresses, name : Names, account : Accounts \cup {None}]
RosterRows == UNION {[ids -> Row] : ids \in SUBSET Ids}
Modes == {"replace", "append", "merge"}

\* The outcomes of a lookup: an account, nobody (None), or no answer.
Outcome == Accounts \cup {None, Unanswered}
AccountOf(outcome) == IF outcome = Unanswered THEN None ELSE outcome
Lookups(as) == [as -> Outcome]

\* An uploaded file: an address is named once.
Files == UNION {[as -> Names] : as \in {b \in SUBSET Addresses \ {{}} : IsFiniteSet(b)}}

\* A request waiting for the lock, and what it read before.
Edits == [op : {"edit"}, kind : Kinds, id : Ids, seen : Row, raced : BOOLEAN]
Deletions == [op : {"delete_all"}, raced : BOOLEAN]
Uploads ==
    UNION {[op : Modes, kind : Kinds, file : {f}, answers : Lookups(DOMAIN f), raced : BOOLEAN] :
           f \in Files}
Rechecks ==
    UNION {[op : {"recheck"}, kind : Kinds, answers : Lookups(as), raced : BOOLEAN] :
           as \in SUBSET Addresses}

VARIABLES
    roster,         \* [Kinds -> (ids -> Row)]
    mirrors,        \* reviewee id -> the reviewer it mirrors, where linked
    symmetric,      \* ReviewSession.symmetric_review
    request,        \* [Requests -> the request waiting for the lock, or None]
    answered,       \* history: every account the directory gave per address
    shared,         \* history: accounts one file gave two rows
    split,          \* history: addresses a raced save left under two names
    stale,          \* history: <<address, account>> a raced edit left
    unmirrored,     \* history: a raced delete emptied the mirror
    writes

state == <<roster, mirrors, symmetric>>
history == <<answered, shared, split, stale, unmirrored>>
vars == <<state, request, history, writes>>

TypeOK ==
    /\ roster \in [Kinds -> RosterRows]
    /\ mirrors \in UNION {[es -> Ids] : es \in SUBSET Ids}
    /\ symmetric \in BOOLEAN
    /\ request \in [Requests -> {None} \cup Edits \cup Deletions \cup Uploads \cup Rechecks]
    /\ answered \in [Addresses -> SUBSET Accounts]
    /\ shared \subseteq Accounts
    /\ split \subseteq Addresses
    /\ stale \subseteq Addresses \X (Accounts \cup {None})
    /\ unmirrored \in BOOLEAN
    /\ writes \in 0..MaxWrites

----------------------------------------------------------------------------
\* What the writes ask of the rosters.

Held(rows) == {rows[i].account : i \in DOMAIN rows} \ {None}

EmailTaken(rows, a, except) == \E i \in DOMAIN rows \ {except} : rows[i].address = a
IdentifierTaken(rows, a, except) == \E i \in DOMAIN rows \ {except} : rows[i].address = a

AccountHolder(rows, account, except) ==
    {i \in DOMAIN rows \ {except} : account # None /\ rows[i].account = account}

\* The rosters a write of k is checked against: under symmetric review a
\* reviewer's own mirror never conflicts with it.
WithMirrors(k) == IF k = "reviewers" /\ symmetric THEN Kinds ELSE {k}

CrossTableConflict(k, a, n) ==
    \E o \in Kinds \ WithMirrors(k) : \E i \in DOMAIN roster[o] :
        roster[o][i].address = a /\ roster[o][i].name # n

\* mutant: an edit to an address the directory does not know keeps the account
RebindFound(row, a, account) ==
    IF a = row.address \/ account = None THEN row.account ELSE account

\* The same address keeps its account; another takes the answer, or none.
Rebind(row, a, account) == IF a = row.address THEN row.account ELSE account

Free(rows) == Ids \ DOMAIN rows
Least(S) == CHOOSE i \in S : \A j \in S : i <= j
\* The rows of a roster and those a write adds.
With(rows, new) ==
    [i \in DOMAIN rows \cup DOMAIN new |-> IF i \in DOMAIN rows THEN rows[i] ELSE new[i]]
Added(rows, row) == With(rows, [i \in {Least(Free(rows))} |-> row])

----------------------------------------------------------------------------
(* The mirror.  Each reviewer keeps the reviewee linked to it, else adopts *)
(* the unlinked one at its address, else gets a new one; every other       *)
(* reviewee is dropped.                                                    *)

\* The links a reviewer's deletion leaves: the foreign key clears the rest.
Links(reviewers, reviewees, links) ==
    Restrict(links, {e \in DOMAIN links : e \in DOMAIN reviewees /\ links[e] \in DOMAIN reviewers})

Adopts(reviewers, reviewees, links, r) ==
    {e \in DOMAIN reviewees \ DOMAIN links : reviewees[e].address = reviewers[r].address}

\* Which reviewer each reviewee mirrors afterwards.
MirrorMap(reviewers, reviewees, links) ==
    LET kept == Links(reviewers, reviewees, links)
        linked == {r \in DOMAIN reviewers : \E e \in DOMAIN kept : kept[e] = r}
        first(r) == Least({e \in DOMAIN kept : kept[e] = r})
        adopter == {r \in DOMAIN reviewers \ linked : Adopts(reviewers, reviewees, kept, r) # {}}
        old(r) == IF r \in linked THEN first(r) ELSE Least(Adopts(reviewers, reviewees, kept, r))
        taken == {old(r) : r \in linked \cup adopter}
        new == DOMAIN reviewers \ (linked \cup adopter)
        slot(r) == CHOOSE e \in Ids \ taken :
            Cardinality({f \in Ids \ taken : f < e}) = Cardinality({s \in new : s < r})
    IN  [e \in taken \cup {slot(r) : r \in new} |->
            CHOOSE r \in DOMAIN reviewers :
                IF r \in new THEN slot(r) = e ELSE old(r) = e]

\* sync_reviewees_from_reviewers, after `reviewers` is flushed.
SyncReviewees(reviewers) ==
    IF symmetric
    THEN LET map == MirrorMap(reviewers, roster["reviewees"], mirrors) IN
         /\ mirrors' = map
         /\ roster' = [reviewers |-> reviewers,
                       reviewees |-> [e \in DOMAIN map |-> reviewers[map[e]]]]
         /\ unmirrored' = FALSE
    ELSE /\ roster' = [roster EXCEPT !["reviewers"] = reviewers]
         /\ UNCHANGED <<mirrors, unmirrored>>

\* What follows a write of `rows` to roster k.
Write(k, rows) ==
    IF k = "reviewers" THEN SyncReviewees(rows)
    ELSE /\ roster' = [roster EXCEPT !["reviewees"] = rows]
         /\ mirrors' = Restrict(mirrors, DOMAIN mirrors \cap DOMAIN rows)
         /\ UNCHANGED unmirrored

----------------------------------------------------------------------------
\* Addresses the two rosters name differently, and the requests' bookkeeping.

Disagree(r) ==
    {a \in Addresses : \E i \in DOMAIN r["reviewers"], j \in DOMAIN r["reviewees"] :
        /\ r["reviewers"][i].address = a /\ r["reviewees"][j].address = a
        /\ r["reviewers"][i].name # r["reviewees"][j].name}

Count == writes < MaxWrites /\ writes' = writes + 1

\* A write commits while another request may be waiting: that one is raced,
\* and fails when the row it edits is gone.
Raced(r) ==
    IF r = None THEN None
    ELSE IF r.op = "edit" /\ r.id \notin DOMAIN roster'[r.kind] THEN None
    ELSE [r EXCEPT !.raced = TRUE]
OthersRaced == request' = [p \in Requests |-> Raced(request[p])]

\* A replace deletes the row of every edit waiting on its roster.
Replaced(q, r) == request[q].op = "replace" /\ r.op = "edit" /\ r.kind = request[q].kind
Finished(q) ==
    request' = [p \in Requests |->
        IF p = q \/ (request[p] # None /\ Replaced(q, request[p])) THEN None
        ELSE Raced(request[p])]

Begun(q, r) == request[q] = None /\ request' = [request EXCEPT ![q] = r]

Looked(answers) ==      \* answers: addresses -> outcomes
    answered' = [a \in Addresses |->
        answered[a] \cup (IF a \in DOMAIN answers THEN {answers[a]} \cap Accounts ELSE {})]

----------------------------------------------------------------------------
\* Single-row forms.  The lookup is made under the lock.

NewRow(a, n, account) == [address |-> a, name |-> n, account |-> account]

CreateReviewer(a, n, outcome) ==
    LET rows == roster["reviewers"] IN
    /\ Count /\ Free(rows) # {}
    /\ symmetric => Cardinality(DOMAIN rows) < MaxRows
    /\ ~EmailTaken(rows, a, 0)
    /\ ~CrossTableConflict("reviewers", a, n)
    /\ AccountHolder(rows, AccountOf(outcome), 0) = {}
    /\ Write("reviewers", Added(rows, NewRow(a, n, AccountOf(outcome))))
    /\ Looked([x \in {a} |-> outcome])
    /\ OthersRaced
    /\ UNCHANGED <<symmetric, shared, split, stale>>

\* mutant: the mode is read at the route's gate alone
CreateRevieweeUngated(a, n, outcome) ==
    LET rows == roster["reviewees"] IN
    /\ Count /\ Free(rows) # {}
    /\ ~IdentifierTaken(rows, a, 0)
    /\ ~CrossTableConflict("reviewees", a, n)
    /\ AccountHolder(rows, AccountOf(outcome), 0) = {}
    /\ Write("reviewees", Added(rows, NewRow(a, n, AccountOf(outcome))))
    /\ Looked([x \in {a} |-> outcome])
    /\ OthersRaced
    /\ UNCHANGED <<symmetric, shared, split, stale>>

CreateReviewee(a, n, outcome) ==
    LET rows == roster["reviewees"] IN
    /\ Count /\ Free(rows) # {}
    /\ ~symmetric                               \* refuse_reviewee_write
    /\ ~IdentifierTaken(rows, a, 0)
    /\ ~CrossTableConflict("reviewees", a, n)
    /\ AccountHolder(rows, AccountOf(outcome), 0) = {}
    /\ Write("reviewees", Added(rows, NewRow(a, n, AccountOf(outcome))))
    /\ Looked([x \in {a} |-> outcome])
    /\ OthersRaced
    /\ UNCHANGED <<symmetric, shared, split, stale>>

\* The route loads the row, then waits for the lock; the lock re-reads the
\* session, not the row.
BeginEdit(q, k, i) ==
    /\ Count
    /\ k = "reviewees" => ~symmetric            \* require_reviewees_editable_session
    /\ i \in DOMAIN roster[k]
    /\ Begun(q, [op |-> "edit", kind |-> k, id |-> i, seen |-> roster[k][i], raced |-> FALSE])
    /\ UNCHANGED <<state, history>>

\* Only the columns that differ from the row as it was loaded are written.
Edited(row, seen, a, n, account) ==
    LET bound == Rebind(seen, a, account) IN
    [address |-> IF a # seen.address THEN a ELSE row.address,
     name    |-> IF n # seen.name THEN n ELSE row.name,
     account |-> IF bound # seen.account THEN bound ELSE row.account]

SaveEdit(q, k, a, n, outcome) ==
    LET i == request[q].id
        rows == roster[k]
        seen == request[q].seen
        account == IF a = seen.address THEN None ELSE AccountOf(outcome)
        row == Edited(rows[i], seen, a, n, account)
        changes == a # seen.address \/ n # seen.name
    IN
    /\ request[q] # None /\ request[q].op = "edit" /\ request[q].kind = k
    /\ a # seen.address => ~(IF k = "reviewers" THEN EmailTaken(rows, a, i)
                                                ELSE IdentifierTaken(rows, a, i))
    /\ ~CrossTableConflict(k, a, n)
    /\ AccountHolder(rows, account, i) = {}
    /\ IF changes THEN Write(k, [rows EXCEPT ![i] = row])
       ELSE IF k = "reviewers" THEN SyncReviewees(rows)     \* repairs the mirror
       ELSE UNCHANGED <<roster, mirrors, unmirrored>>
    /\ IF a # seen.address THEN Looked([x \in {a} |-> outcome]) ELSE UNCHANGED answered
    /\ split' = IF request[q].raced THEN split \cup (Disagree(roster') \ Disagree(roster)) ELSE split
    /\ stale' = IF request[q].raced THEN stale \cup {<<row.address, row.account>>} ELSE stale
    /\ Finished(q)
    /\ UNCHANGED <<symmetric, shared, writes>>

\* Refused (a conflict), or given up.
DropRequest(q) ==
    /\ request[q] # None /\ request' = [request EXCEPT ![q] = None]
    /\ UNCHANGED <<state, history, writes>>

----------------------------------------------------------------------------
\* Deletes.

BulkDelete(k, ids) ==
    /\ Count /\ ids # {} /\ ids \subseteq DOMAIN roster[k]
    /\ k = "reviewees" => ~symmetric
    /\ Write(k, Restrict(roster[k], DOMAIN roster[k] \ ids))
    /\ OthersRaced
    /\ UNCHANGED <<symmetric, answered, shared, split, stale>>

DeleteAllReviewers ==
    /\ Count
    /\ Write("reviewers", << >>)
    /\ OthersRaced
    /\ UNCHANGED <<symmetric, answered, shared, split, stale>>

\* The route refuses under symmetric review; the service does not.
BeginDeleteAllReviewees(q) ==
    /\ Count /\ ~symmetric
    /\ Begun(q, [op |-> "delete_all", raced |-> FALSE])
    /\ UNCHANGED <<state, history>>

DeleteAllReviewees(q) ==
    /\ request[q] # None /\ request[q].op = "delete_all"
    /\ roster' = [roster EXCEPT !["reviewees"] = << >>]
    /\ mirrors' = << >>
    /\ unmirrored' = (symmetric /\ request[q].raced)
    /\ Finished(q)
    /\ UNCHANGED <<symmetric, answered, shared, split, stale, writes>>

----------------------------------------------------------------------------
(* Uploads.  The route parses the file (an address is named once), checks  *)
(* its names against the other roster, looks the addresses up, and then    *)
(* saves under the lock; an append's and a merge's refusals are decided    *)
(* there again, the names are not.                                         *)

FileConflicts(k, file) == {a \in DOMAIN file : CrossTableConflict(k, a, file[a])}

BeginUpload(q, k, mode, file, answers) ==
    /\ Count
    /\ k = "reviewees" => ~symmetric
    /\ Cardinality(DOMAIN file) <= MaxRows
    /\ mode # "replace" => DOMAIN roster[k] # {}
    /\ FileConflicts(k, file) = {}
    /\ Begun(q, [op |-> mode, kind |-> k, file |-> file, answers |-> answers, raced |-> FALSE])
    /\ Looked(answers)
    /\ UNCHANGED <<state, shared, split, stale, unmirrored>>

Answer(q, a) == AccountOf(request[q].answers[a])
Answers(q) == {Answer(q, a) : a \in DOMAIN request[q].file} \ {None}
GivenTwice(q) ==
    {x \in Accounts : \E a, b \in DOMAIN request[q].file : a # b /\ Answer(q, a) = x /\ Answer(q, b) = x}

\* mutant: kept whatever the file's other rows got
EarlierWhateverElse(q, rows, a) ==
    IF request[q].answers[a] # Unanswered THEN {}
    ELSE {rows[i].account : i \in {j \in DOMAIN rows : rows[j].address = a}} \ {None}

\* The account a replaced row held, kept where the directory gave no answer
\* and no other row of the file got that account.
Earlier(q, rows, a) ==
    IF request[q].answers[a] # Unanswered THEN {}
    ELSE {rows[i].account : i \in {j \in DOMAIN rows : rows[j].address = a}} \ (Answers(q) \cup {None})

\* One step orders the file's rows; ids follow the order.
Numbered(as, base) ==
    CHOOSE f \in [as -> Ids \ base] : \A a, b \in as : a # b => f[a] # f[b]

FileRows(q, as, base, accounts) ==
    LET at == Numbered(as, base) IN
    [i \in {at[a] : a \in as} |-> LET a == CHOOSE b \in as : at[b] = i IN
        NewRow(a, request[q].file[a], accounts[a])]

\* What every upload's save shares.
Saved(q, k) ==
    /\ request[q] # None /\ request[q].op \in Modes /\ request[q].kind = k
    /\ k = "reviewees" => ~symmetric            \* refuse_reviewee_write
    /\ split' = IF request[q].raced THEN split \cup (Disagree(roster') \ Disagree(roster)) ELSE split
    /\ Finished(q)
    /\ UNCHANGED <<symmetric, answered, stale, writes>>

SaveReplace(q, k) ==
    LET rows == roster[k]
        accounts == [a \in DOMAIN request[q].file |->
            IF Earlier(q, rows, a) = {} THEN Answer(q, a) ELSE CHOOSE x \in Earlier(q, rows, a) : TRUE]
    IN
    /\ request[q] # None /\ request[q].op = "replace"
    /\ Write(k, FileRows(q, DOMAIN request[q].file, {}, accounts))
    /\ shared' = shared \cup GivenTwice(q)
    /\ Saved(q, k)

AppendConflicts(q, rows) ==
    {a \in DOMAIN request[q].file :
        \/ \E i \in DOMAIN rows : rows[i].address = a
        \/ Answer(q, a) \in Held(rows)}

SaveAppend(q, k) ==
    LET rows == roster[k]
        accounts == [a \in DOMAIN request[q].file |-> Answer(q, a)]
    IN
    /\ request[q] # None /\ request[q].op = "append"
    /\ AppendConflicts(q, rows) = {}
    /\ Cardinality(DOMAIN rows) + Cardinality(DOMAIN request[q].file) <= MaxRows
    /\ Write(k, With(rows, FileRows(q, DOMAIN request[q].file, DOMAIN rows, accounts)))
    /\ shared' = shared \cup GivenTwice(q)
    /\ Saved(q, k)

\* The row a merged file row is: by its address, else by its account.
ByAddress(rows, a) == {i \in DOMAIN rows : rows[i].address = a}
Matches(q, rows, a) ==
    IF ByAddress(rows, a) # {} THEN {Least(ByAddress(rows, a))}
    ELSE LET held == AccountHolder(rows, Answer(q, a), 0) IN
         IF held = {} THEN {} ELSE {Least(held)}

MergeConflict(q, k, rows) ==
    \/ GivenTwice(q) # {}
    \/ \E a, b \in DOMAIN request[q].file :                    \* one row claimed twice
            a # b /\ Matches(q, rows, a) \cap Matches(q, rows, b) # {}
    \/ \E a \in DOMAIN request[q].file : \E i \in Matches(q, rows, a) :
            \/ /\ rows[i].address # a                       \* the kept address's name
               /\ CrossTableConflict(k, rows[i].address, request[q].file[a])
            \/ /\ rows[i].account = None                    \* another row's account
               /\ AccountHolder(rows, Answer(q, a), i) # {}

SaveMerge(q, k) ==
    LET rows == roster[k]
        accounts == [a \in DOMAIN request[q].file |-> Answer(q, a)]
        new == {a \in DOMAIN request[q].file : Matches(q, rows, a) = {}}
        merged(i) == {a \in DOMAIN request[q].file : i \in Matches(q, rows, a)}
        update(i) == LET a == CHOOSE b \in merged(i) : TRUE IN
            [rows[i] EXCEPT !.name = request[q].file[a],
                            !.account = IF @ = None THEN Answer(q, a) ELSE @]
    IN
    /\ request[q] # None /\ request[q].op = "merge"
    /\ ~MergeConflict(q, k, rows)
    /\ Cardinality(DOMAIN rows) + Cardinality(new) <= MaxRows
    /\ Write(k, With([i \in DOMAIN rows |-> IF merged(i) = {} THEN rows[i] ELSE update(i)],
                     FileRows(q, new, DOMAIN rows, accounts)))
    /\ UNCHANGED shared
    /\ Saved(q, k)

----------------------------------------------------------------------------
\* The recheck of the unmatched rows.

Unmatched(rows) == {i \in DOMAIN rows : rows[i].account = None}

BeginRecheck(q, k, answers) ==
    /\ Count
    /\ k = "reviewees" => ~symmetric
    /\ Unmatched(roster[k]) # {}
    /\ DOMAIN answers = {roster[k][i].address : i \in Unmatched(roster[k])}
    /\ Begun(q, [op |-> "recheck", kind |-> k, answers |-> answers, raced |-> FALSE])
    /\ Looked(answers)
    /\ UNCHANGED <<state, shared, split, stale, unmirrored>>

\* The rows, read again, that take an account: one no other row holds, and
\* no earlier row of this recheck took.
Rechecked(q, rows) ==
    LET found(i) == IF rows[i].address \in DOMAIN request[q].answers
                    THEN AccountOf(request[q].answers[rows[i].address]) ELSE None
    IN  {i \in Unmatched(rows) :
            /\ found(i) # None
            /\ AccountHolder(rows, found(i), i) = {}
            /\ \A j \in Unmatched(rows) : j < i => found(j) # found(i)}

Recheck(q, k) ==
    LET rows == roster[k]
        bound == Rechecked(q, rows)
        after == [i \in DOMAIN rows |->
                    IF i \in bound THEN [rows[i] EXCEPT !.account = AccountOf(request[q].answers[rows[i].address])]
                    ELSE rows[i]]
    IN
    /\ request[q] # None /\ request[q].op = "recheck" /\ request[q].kind = k
    /\ k = "reviewees" => ~symmetric
    /\ Write(k, after)
    /\ Finished(q)
    /\ UNCHANGED <<symmetric, answered, shared, split, stale, writes>>

----------------------------------------------------------------------------
\* The session's switches.

TurnSymmetricOn ==
    /\ Count /\ ~symmetric
    /\ \A k \in Kinds : DOMAIN roster[k] = {}               \* has_roster_rows
    /\ symmetric' = TRUE
    /\ OthersRaced
    /\ UNCHANGED <<roster, mirrors, history>>

TurnSymmetricOff ==
    /\ Count /\ symmetric
    /\ symmetric' = FALSE /\ mirrors' = << >>               \* clear_mirror_links
    /\ unmirrored' = FALSE
    /\ UNCHANGED roster
    /\ OthersRaced
    /\ UNCHANGED <<answered, shared, split, stale>>

Init ==
    /\ roster = [k \in Kinds |-> << >>]
    /\ mirrors = << >>
    /\ symmetric = FALSE
    /\ request = [q \in Requests |-> None]
    /\ answered = [a \in Addresses |-> {}]
    /\ shared = {} /\ split = {} /\ stale = {} /\ unmirrored = FALSE
    /\ writes = 0

Next ==
    \/ \E a \in Addresses, n \in Names : \E outcome \in Outcome :
        \/ CreateReviewer(a, n, outcome)
        \/ CreateReviewee(a, n, outcome)
        \/ \E q \in Requests, k \in Kinds : SaveEdit(q, k, a, n, outcome)
    \/ \E k \in Kinds, ids \in SUBSET Ids : BulkDelete(k, ids)
    \/ DeleteAllReviewers
    \/ \E q \in Requests :
        \/ DropRequest(q)
        \/ BeginDeleteAllReviewees(q) \/ DeleteAllReviewees(q)
        \/ \E k \in Kinds :
            \/ \E i \in Ids : BeginEdit(q, k, i)
            \/ SaveReplace(q, k) \/ SaveAppend(q, k) \/ SaveMerge(q, k) \/ Recheck(q, k)
            \/ \E mode \in Modes, file \in Files :
                \E answers \in Lookups(DOMAIN file) : BeginUpload(q, k, mode, file, answers)
            \/ \E as \in SUBSET Addresses \ {{}} :
                \E answers \in Lookups(as) : BeginRecheck(q, k, answers)
    \/ TurnSymmetricOn \/ TurnSymmetricOff

Spec == Init /\ [][Next]_vars

----------------------------------------------------------------------------
\* A row admits only an account the directory gave for the row's own address:
\* through replaces that keep an earlier account, merges matched by account,
\* rechecks whose rows moved on, and the mirror.  The one exception is an edit
\* saved from a row another write had bound since (directory_accounts.rebind).
BindingsAreAnswers ==
    \A k \in Kinds : \A i \in DOMAIN roster[k] :
        LET row == roster[k][i] IN
        row.account # None => \/ row.account \in answered[row.address]
                              \/ <<row.address, row.account>> \in stale

\* One person is one row of a roster: an address is on one row, and an account
\* on two only when one uploaded file named it twice (csv_imports, reviewers,
\* reviewees_recheck).
OneRowPerPerson ==
    \A k \in Kinds : \A i, j \in DOMAIN roster[k] : i # j =>
        /\ roster[k][i].address # roster[k][j].address
        /\ roster[k][i].account # None =>
              \/ roster[k][i].account # roster[k][j].account
              \/ roster[k][i].account \in shared

\* An address goes by one name in both rosters, unless a save decided on the
\* rosters of before another write (csv_imports._identity).
NamesAgree == Disagree(roster) \subseteq split

OnePersonOneName == OneRowPerPerson /\ NamesAgree

\* Under symmetric review every reviewer has exactly one reviewee, linked to
\* it and equal to it, after every write (symmetric_review).
InStep ==
    /\ DOMAIN mirrors = DOMAIN roster["reviewees"]
    /\ Range(mirrors) = DOMAIN roster["reviewers"]
    /\ IsInjective(mirrors)
    /\ \A e \in DOMAIN mirrors : roster["reviewees"][e] = roster["reviewers"][mirrors[e]]
MirrorInStep == symmetric => InStep \/ unmirrored

\* The claim beside rebind: an account is never kept across a change of
\* address.  An edit saved from an older copy of the row keeps it.
AddressChangeDropsTheAccount ==
    \A k \in Kinds : \A i \in DOMAIN roster[k] :
        roster[k][i].account # None => roster[k][i].account \in answered[roster[k][i].address]
=============================================================================
