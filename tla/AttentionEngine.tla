--------------------------- MODULE AttentionEngine ---------------------------
(***************************************************************************)
(* The attention engine of ONE organisation: attention scans (the nightly  *)
(* worker job and any number of manual POST /attention/scan requests) that *)
(* upsert signals, and users who triage those signals, all over Postgres   *)
(* at READ COMMITTED.                                                      *)
(*                                                                         *)
(* A scan is one transaction.  It first lists the rules (list_rules, which *)
(* seeds missing rows and takes SELECT ... FOR UPDATE on each), then, rule *)
(* by rule, asks the rule for its candidates and upserts one signal per    *)
(* candidate (upsert_signal), and commits once at the end.  A triage       *)
(* request is one transaction that loads a signal and writes its status.   *)
(*                                                                         *)
(* A row carries its committed status, the status its lock owner has       *)
(* written (`next`), and the transaction that holds its row lock.  The     *)
(* explanation, severity and detected_at columns are abstracted: what a    *)
(* refresh does that matters here is that it locks the row and leaves the  *)
(* status column alone.                                                    *)
(***************************************************************************)
EXTENDS Integers, FiniteSets

CONSTANTS
    Scanners,       \* transactions that run run_attention_scan
    Users,          \* transactions that run update_signal_status
    NumRules,       \* size of RULE_REGISTRY
    Entities,       \* the entities a rule may report
    SignalIds,      \* primary keys a new signal may draw
    NoTx, NoPair, NoEntity, NoSignal,
    MaxScans,       \* bound: scans begun in a behaviour
    MaxTriages      \* bound: triage requests begun in a behaviour

Rules == 1..NumRules
Pairs == Rules \X Entities
Txs   == Scanners \union Users

ASSUME NumRulesAssumption == NumRules \in Nat \ {0}
ASSUME BoundsAssumption   == MaxScans \in Nat /\ MaxTriages \in Nat
ASSUME NullAssumption ==
    /\ Scanners \cap Users = {}
    /\ NoTx \notin Txs
    /\ NoPair \notin Pairs
    /\ NoEntity \notin Entities
    /\ NoSignal \notin SignalIds

Statuses == {"OPEN", "ACKNOWLEDGED", "RESOLVED", "DISMISSED"}
Live     == {"OPEN", "ACKNOWLEDGED"}

VARIABLES
    rule,        \* attention_rules: row state, is_active and row lock
    row,         \* attention_signals
    scan,        \* local state of each scan
    triage,      \* local state of each triage request
    scansBegun, triagesBegun,   \* bounded counters
    settled      \* observer: signals DISMISSED since before the scan began

vars == <<rule, row, scan, triage, scansBegun, triagesBegun, settled>>

RuleRow == [state  : {"absent", "pending", "present"},
            active : BOOLEAN,
            lock   : Scanners \union {NoTx}]

SignalRow == [pair   : Pairs \union {NoPair},
              status : Statuses \union {"ABSENT"},
              next   : Statuses \union {"ABSENT"},
              lock   : Txs \union {NoTx}]

ListingPCs == {"select_rule", "seed_rule"}
UpsertPCs  == {"next_rule", "next_candidate", "refresh", "check_dismissed",
               "insert", "recover"}

ScanState == [pc     : {"idle"} \union ListingPCs \union UpsertPCs,
              cursor : 1..(NumRules + 1),
              todo   : SUBSET Entities,
              entity : Entities \union {NoEntity},
              target : SignalIds \union {NoSignal}]

TriageState == [pc     : {"idle", "loaded", "locked", "written"},
                signal : SignalIds \union {NoSignal},
                seen   : Statuses \union {"ABSENT"},
                new    : Statuses]

\* A scan at rule r: with candidates to do, and one of them in hand.
At(pc, r, todo, e, s) ==
    [pc |-> pc, cursor |-> r, todo |-> todo, entity |-> e, target |-> s]
Between(pc, r, todo) == At(pc, r, todo, NoEntity, NoSignal)

IdleScan   == Between("idle", 1, {})
IdleTriage == [pc |-> "idle", signal |-> NoSignal,
               seen |-> "ABSENT", new |-> "OPEN"]
AbsentRow  == [pair |-> NoPair, status |-> "ABSENT",
               next |-> "ABSENT", lock |-> NoTx]

(***************************************************************************)
(* Postgres: row visibility, the partial unique index, commit, rollback.   *)
(***************************************************************************)

\* What a statement of transaction t reads in row s (READ COMMITTED).
Visible(t, s) == IF row[s].lock = t THEN row[s].next ELSE row[s].status

\* A tuple the partial index covers, in its committed or its written version.
Claims(s) == row[s].status \in Live \/ row[s].next \in Live

\* The index makes t wait: another transaction has an uncommitted change to
\* a tuple of pair p that is or may become live.
IndexWait(t, p, s) ==
    \E q \in SignalIds \ {s} :
        row[q].pair = p /\ row[q].lock \notin {NoTx, t} /\ Claims(q)

\* Mutant: the index predicate covers OPEN only.
IndexTakenOpenOnly(t, p, s) ==
    \E q \in SignalIds \ {s} : row[q].pair = p /\ Visible(t, q) = "OPEN"

\* The index rejects t's entry: a live tuple of pair p is already there.
IndexTaken(t, p, s) ==
    \E q \in SignalIds \ {s} : row[q].pair = p /\ Visible(t, q) \in Live

Committed(t) ==
    [s \in SignalIds |->
        IF row[s].lock = t
        THEN [row[s] EXCEPT !.status = row[s].next, !.lock = NoTx]
        ELSE row[s]]

RolledBack(t) ==
    [s \in SignalIds |->
        IF row[s].lock # t THEN row[s]
        ELSE IF row[s].status = "ABSENT" THEN AbsentRow
        ELSE [row[s] EXCEPT !.next = row[s].status, !.lock = NoTx]]

CommittedRules(t) ==
    [r \in Rules |->
        IF rule[r].lock = t
        THEN [rule[r] EXCEPT !.state = "present", !.lock = NoTx]
        ELSE rule[r]]

RolledBackRules(t) ==
    [r \in Rules |->
        IF rule[r].lock # t THEN rule[r]
        ELSE [rule[r] EXCEPT
                !.state = IF @ = "pending" THEN "absent" ELSE @,
                !.lock  = NoTx]]

Init ==
    /\ rule = [r \in Rules |->
                  [state |-> "absent", active |-> TRUE, lock |-> NoTx]]
    /\ row = [s \in SignalIds |-> AbsentRow]
    /\ scan = [t \in Scanners |-> IdleScan]
    /\ triage = [u \in Users |-> IdleTriage]
    /\ scansBegun = 0 /\ triagesBegun = 0
    /\ settled = [t \in Scanners |-> {}]

(***************************************************************************)
(* list_rules / get_or_create_rule: seed, then lock, every registered rule *)
(* in registry order.                                                      *)
(***************************************************************************)

BeginScan(t) ==
    /\ scan[t].pc = "idle"
    /\ scansBegun < MaxScans
    /\ scansBegun' = scansBegun + 1
    /\ scan' = [scan EXCEPT ![t].pc = "select_rule"]
    /\ settled' = [settled EXCEPT ![t] =
                      {s \in SignalIds : row[s].status = "DISMISSED"}]
    /\ UNCHANGED <<rule, row, triage, triagesBegun>>

\* The scan has the rule row at its cursor: go on to the next one.
RuleInHand(t) ==
    \/ /\ scan[t].cursor = NumRules
       /\ scan' = [scan EXCEPT ![t] = Between("next_rule", 1, {})]
    \/ /\ scan[t].cursor < NumRules
       /\ scan' = [scan EXCEPT ![t] =
                      Between("select_rule", scan[t].cursor + 1, {})]

\* Mutant: _select_rule without FOR UPDATE.
SelectRuleUnlocked(t) ==
    LET r == scan[t].cursor IN
    /\ scan[t].pc = "select_rule"
    /\ \/ rule[r].state = "present" /\ RuleInHand(t)
       \/ /\ rule[r].state # "present"
          /\ scan' = [scan EXCEPT ![t].pc = "seed_rule"]
    /\ UNCHANGED <<rule, row, triage, scansBegun, triagesBegun, settled>>

\* _select_rule: FOR UPDATE waits for the lock of a committed row; an absent
\* row, or one another scan has inserted but not committed, is not seen.
SelectRule(t) ==
    LET r == scan[t].cursor IN
    /\ scan[t].pc = "select_rule"
    /\ \/ /\ rule[r].state = "present"
          /\ rule[r].lock = NoTx
          /\ rule' = [rule EXCEPT ![r].lock = t]
          /\ RuleInHand(t)
       \/ /\ rule[r].state # "present"
          /\ scan' = [scan EXCEPT ![t].pc = "seed_rule"]
          /\ UNCHANGED rule
    /\ UNCHANGED <<row, triage, scansBegun, triagesBegun, settled>>

\* Mutant: the IntegrityError of a lost seeding race is not recovered.
SeedRuleUnrecovered(t) ==
    LET r == scan[t].cursor IN
    /\ scan[t].pc = "seed_rule"
    /\ rule[r].state = "absent"
    /\ rule' = [rule EXCEPT ![r] =
                   [state |-> "pending", active |-> TRUE, lock |-> t]]
    /\ RuleInHand(t)
    /\ UNCHANGED <<row, triage, scansBegun, triagesBegun, settled>>

\* The nested INSERT waits for a concurrent one.  If that one committed, the
\* unique constraint fails, the savepoint rolls back and the row is selected
\* again (rules are never deleted, so this time it is there).
SeedRule(t) ==
    LET r == scan[t].cursor IN
    /\ scan[t].pc = "seed_rule"
    /\ \/ /\ rule[r].state = "absent"
          /\ rule' = [rule EXCEPT ![r] =
                         [state |-> "pending", active |-> TRUE, lock |-> t]]
          /\ RuleInHand(t)
       \/ /\ rule[r].state = "present"
          /\ scan' = [scan EXCEPT ![t].pc = "select_rule"]
          /\ UNCHANGED rule
    /\ UNCHANGED <<row, triage, scansBegun, triagesBegun, settled>>

(***************************************************************************)
(* run_attention_scan and upsert_signal.                                   *)
(***************************************************************************)

\* Take the next rule: skip an inactive one, evaluate an active one (its
\* candidates come from the other domains: any set of entities).
EvaluateRule(t) ==
    LET r == scan[t].cursor IN
    /\ scan[t].pc = "next_rule"
    /\ r <= NumRules
    /\ \/ /\ ~rule[r].active
          /\ scan' = [scan EXCEPT ![t].cursor = r + 1]
       \/ /\ rule[r].active
          /\ \E found \in SUBSET Entities :
                scan' = [scan EXCEPT ![t] =
                           Between("next_candidate", r, found)]
    /\ UNCHANGED <<rule, row, triage, scansBegun, triagesBegun, settled>>

RuleDone(t) ==
    /\ scan[t].pc = "next_candidate"
    /\ scan[t].todo = {}
    /\ scan' = [scan EXCEPT ![t] =
                  Between("next_rule", scan[t].cursor + 1, {})]
    /\ UNCHANGED <<rule, row, triage, scansBegun, triagesBegun, settled>>

LiveSignals(t, p) ==
    {s \in SignalIds : row[s].pair = p /\ Visible(t, s) \in Live}

\* upsert_signal's first query: a live signal is refreshed, no live signal
\* leads to the DISMISSED query.
SelectLiveSignal(t) ==
    /\ scan[t].pc = "next_candidate"
    /\ \E e \in scan[t].todo :
          LET r    == scan[t].cursor
              live == LiveSignals(t, <<r, e>>)
          IN
          \/ /\ live = {}
             /\ scan' = [scan EXCEPT ![t] =
                   At("check_dismissed", r, scan[t].todo, e, NoSignal)]
          \/ \E s \in live :
                scan' = [scan EXCEPT ![t] = At("refresh", r, scan[t].todo, e, s)]
    /\ UNCHANGED <<rule, row, triage, scansBegun, triagesBegun, settled>>

CandidateDone(t) ==
    scan' = [scan EXCEPT ![t] =
                Between("next_candidate", scan[t].cursor,
                        scan[t].todo \ {scan[t].entity})]

\* Mutant: a refresh writes the whole row, status included.
RefreshedWhole(t, s) == [row[s] EXCEPT !.lock = t, !.next = "OPEN"]

\* What a refresh leaves of the row: everything but the abstracted columns.
Refreshed(t, s) == [row[s] EXCEPT !.lock = t]

\* UPDATE of explanation, severity and detected_at, by primary key: it waits
\* for the row lock and writes no other column.
RefreshSignal(t) ==
    LET s == scan[t].target IN
    /\ scan[t].pc = "refresh"
    /\ row[s].lock \in {NoTx, t}
    /\ row' = [row EXCEPT ![s] = Refreshed(t, s)]
    /\ CandidateDone(t)
    /\ UNCHANGED <<rule, triage, scansBegun, triagesBegun, settled>>

\* Mutant: the second query filters on the wrong status.
ResolvedSignals(t, p) ==
    {s \in SignalIds : row[s].pair = p /\ Visible(t, s) = "RESOLVED"}

DismissedSignals(t, p) ==
    {s \in SignalIds : row[s].pair = p /\ Visible(t, s) = "DISMISSED"}

\* upsert_signal's second query: a dismissed signal suppresses the insert.
CheckDismissed(t) ==
    LET dismissed == DismissedSignals(t, <<scan[t].cursor, scan[t].entity>>)
    IN
    /\ scan[t].pc = "check_dismissed"
    /\ \/ dismissed # {} /\ CandidateDone(t)
       \/ dismissed = {} /\ scan' = [scan EXCEPT ![t].pc = "insert"]
    /\ UNCHANGED <<rule, row, triage, scansBegun, triagesBegun, settled>>

\* The nested INSERT of an OPEN signal, under the partial unique index.
InsertSignal(t) ==
    LET p == <<scan[t].cursor, scan[t].entity>> IN
    /\ scan[t].pc = "insert"
    /\ ~IndexWait(t, p, NoSignal)
    /\ \/ /\ IndexTaken(t, p, NoSignal)
          /\ scan' = [scan EXCEPT ![t].pc = "recover"]
          /\ UNCHANGED row
       \/ /\ ~IndexTaken(t, p, NoSignal)
          /\ \E s \in SignalIds :
                /\ row[s] = AbsentRow
                /\ row' = [row EXCEPT ![s] =
                              [pair |-> p, status |-> "ABSENT",
                               next |-> "OPEN", lock |-> t]]
          /\ CandidateDone(t)
    /\ UNCHANGED <<rule, triage, scansBegun, triagesBegun, settled>>

EndScan(t) ==
    /\ scan' = [scan EXCEPT ![t] = IdleScan]
    /\ settled' = [settled EXCEPT ![t] = {}]
    /\ UNCHANGED <<triage, scansBegun, triagesBegun>>

RollBackScan(t) ==
    /\ row' = RolledBack(t)
    /\ rule' = RolledBackRules(t)
    /\ EndScan(t)

\* After the IntegrityError: the winner's live row is returned as it is.
RecoverWinner(t) ==
    /\ scan[t].pc = "recover"
    /\ LiveSignals(t, <<scan[t].cursor, scan[t].entity>>) # {}
    /\ CandidateDone(t)
    /\ UNCHANGED <<rule, row, triage, scansBegun, triagesBegun, settled>>

\* Mutant: no winner, look again.
RecoverSpins(t) ==
    /\ scan[t].pc = "recover"
    /\ LiveSignals(t, <<scan[t].cursor, scan[t].entity>>) = {}
    /\ UNCHANGED vars

\* No winner (it has been resolved or dismissed meanwhile): the error is
\* raised again and the whole scan of the organisation is rolled back.
RecoverFails(t) ==
    /\ scan[t].pc = "recover"
    /\ LiveSignals(t, <<scan[t].cursor, scan[t].entity>>) = {}
    /\ RollBackScan(t)

CommitScan(t) ==
    /\ scan[t].pc = "next_rule"
    /\ scan[t].cursor > NumRules
    /\ row' = Committed(t)
    /\ rule' = CommittedRules(t)
    /\ EndScan(t)

\* GET /attention/rules is the same transaction without the evaluation.
CommitListing(t) ==
    /\ scan[t].pc = "next_rule"
    /\ scan[t].cursor = 1
    /\ rule' = CommittedRules(t)
    /\ EndScan(t)
    /\ UNCHANGED row

\* The process dies or its connection drops: Postgres rolls back.
CrashScan(t) ==
    /\ scan[t].pc # "idle"
    /\ RollBackScan(t)

(***************************************************************************)
(* update_signal_status and update_rule.                                   *)
(***************************************************************************)

\* SignalStatus(new_status): any status may follow any other.
RequestedStatus == Statuses

\* _get_org_signal, then the assignment of the new status in memory.
LoadSignal(u) ==
    /\ triage[u].pc = "idle"
    /\ triagesBegun < MaxTriages
    /\ triagesBegun' = triagesBegun + 1
    /\ \E s \in SignalIds, new \in RequestedStatus :
          /\ row[s].status # "ABSENT"
          /\ triage' = [triage EXCEPT ![u] =
                [pc |-> "loaded", signal |-> s,
                 seen |-> row[s].status, new |-> new]]
    /\ UNCHANGED <<rule, row, scan, scansBegun, settled>>

EndTriage(u) == triage' = [triage EXCEPT ![u] = IdleTriage]

\* flush: no UPDATE is sent when the loaded value is the new one; otherwise
\* the UPDATE waits for the row lock.
FlushStatus(u) ==
    LET s == triage[u].signal IN
    /\ triage[u].pc = "loaded"
    /\ \/ /\ triage[u].new = triage[u].seen
          /\ EndTriage(u)
          /\ UNCHANGED row
       \/ /\ triage[u].new # triage[u].seen
          /\ row[s].lock = NoTx
          /\ row' = [row EXCEPT ![s].lock = u]
          /\ triage' = [triage EXCEPT ![u].pc = "locked"]
    /\ UNCHANGED <<rule, scan, scansBegun, triagesBegun, settled>>

\* The new tuple enters the partial index when its status is live: reopening
\* a signal beside another live one is an IntegrityError (a 500) and rolls
\* back.
WriteStatus(u) ==
    LET s == triage[u].signal
        p == row[s].pair
    IN
    /\ triage[u].pc = "locked"
    /\ \/ /\ triage[u].new \in Live
          /\ ~IndexWait(u, p, s)
          /\ IndexTaken(u, p, s)
          /\ row' = RolledBack(u)
          /\ EndTriage(u)
       \/ /\ triage[u].new \in Live =>
                ~IndexWait(u, p, s) /\ ~IndexTaken(u, p, s)
          /\ row' = [row EXCEPT ![s].next = triage[u].new]
          /\ triage' = [triage EXCEPT ![u].pc = "written"]
    /\ UNCHANGED <<rule, scan, scansBegun, triagesBegun, settled>>

CommitTriage(u) ==
    LET s == triage[u].signal IN
    /\ triage[u].pc = "written"
    /\ row' = Committed(u)
    /\ EndTriage(u)
    /\ settled' = [t \in Scanners |-> settled[t] \ {s}]
    /\ UNCHANGED <<rule, scan, scansBegun, triagesBegun>>

CrashTriage(u) ==
    /\ triage[u].pc # "idle"
    /\ row' = RolledBack(u)
    /\ EndTriage(u)
    /\ UNCHANGED <<rule, scan, scansBegun, triagesBegun, settled>>

\* PATCH /attention/rules/{id}: the UPDATE waits for the row lock a scan
\* holds, then commits.
UpdateRule(r) ==
    /\ rule[r].state = "present"
    /\ rule[r].lock = NoTx
    /\ \E active \in BOOLEAN : rule' = [rule EXCEPT ![r].active = active]
    /\ UNCHANGED <<row, scan, triage, scansBegun, triagesBegun, settled>>

ScanStep(t) ==
    \/ SelectRule(t) \/ SeedRule(t) \/ EvaluateRule(t) \/ RuleDone(t)
    \/ SelectLiveSignal(t) \/ RefreshSignal(t) \/ CheckDismissed(t)
    \/ InsertSignal(t) \/ RecoverWinner(t) \/ RecoverFails(t)
    \/ CommitScan(t) \/ CommitListing(t)

TriageStep(u) == FlushStatus(u) \/ WriteStatus(u) \/ CommitTriage(u)

Next ==
    \/ \E t \in Scanners : BeginScan(t) \/ ScanStep(t) \/ CrashScan(t)
    \/ \E u \in Users : LoadSignal(u) \/ TriageStep(u) \/ CrashTriage(u)
    \/ \E r \in Rules : UpdateRule(r)

\* A running request goes on as long as the database lets it; nobody has to
\* start a scan, triage a signal or crash.
Fairness ==
    /\ \A t \in Scanners : WF_vars(ScanStep(t))
    /\ \A u \in Users : WF_vars(TriageStep(u))

Spec     == Init /\ [][Next]_vars
FairSpec == Spec /\ Fairness

-----------------------------------------------------------------------------
(***************************************************************************)
(* Properties                                                              *)
(***************************************************************************)

\* Type correctness.
TypeOK ==
    /\ rule \in [Rules -> RuleRow]
    /\ row \in [SignalIds -> SignalRow]
    /\ scan \in [Scanners -> ScanState]
    /\ triage \in [Users -> TriageState]
    /\ scansBegun \in 0..MaxScans
    /\ triagesBegun \in 0..MaxTriages
    /\ settled \in [Scanners -> SUBSET SignalIds]

\* At most one committed OPEN/ACKNOWLEDGED signal per (rule, entity), however
\* scans, reopenings and rollbacks interleave (models.py's partial index and
\* upsert_signal's use of it).
AtMostOneLive ==
    \A s, q \in SignalIds :
        /\ s # q
        /\ row[s].status \in Live
        /\ row[q].status \in Live
        => row[s].pair # row[q].pair

\* Two scans of one organisation never upsert at the same time: list_rules'
\* FOR UPDATE (or the seeding INSERT) on every rule row makes the second one
\* wait for the first to end.  The scan-against-scan race upsert_signal
\* guards against therefore needs a third party.
ScansSerialised ==
    \A t1, t2 \in Scanners :
        scan[t1].pc \in UpsertPCs /\ scan[t2].pc \in UpsertPCs => t1 = t2

\* A scan never inserts a signal for a pair with one a user dismissed before
\* the scan began and nobody has touched since: the part of "a DISMISSED
\* signal is never silently recreated" that upsert_signal does guarantee.
SettledDismissalRespected ==
    \A t \in Scanners :
        scan[t].pc = "insert" =>
            \A s \in settled[t] :
                row[s].pair # <<scan[t].cursor, scan[t].entity>>

\* Only a user's commit changes the status of an existing signal: a scan that
\* read a signal as live and refreshes it after a user has closed it does not
\* put the old status back.
TriageIsUsersAlone ==
    [][ \A s \in SignalIds :
          row[s].status # "ABSENT" /\ row'[s].status # row[s].status
          => \E u \in Users : triage[u].signal = s /\ CommitTriage(u) ]_vars

\* A rule switched off stays silent: whenever a new signal of a rule becomes
\* visible, that rule is active at that very moment, though the scan read
\* is_active long before its commit.
InactiveRuleSilent ==
    [][ \A s \in SignalIds, p \in Pairs :
          row[s].status = "ABSENT" /\ row'[s].status # "ABSENT"
            /\ row'[s].pair = p
          => rule[p[1]].active /\ rule'[p[1]].active ]_vars

\* No scan waits for ever (on a rule row, a signal row or the index), and no
\* triage request does: there is no deadlock among them.
EveryRequestEnds ==
    /\ \A t \in Scanners : scan[t].pc # "idle" ~> scan[t].pc = "idle"
    /\ \A u \in Users : triage[u].pc # "idle" ~> triage[u].pc = "idle"

=============================================================================
