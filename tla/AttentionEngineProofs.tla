------------------------ MODULE AttentionEngineProofs ------------------------
(***************************************************************************)
(* Theorems about AttentionEngine, for every set of scanners, users,       *)
(* entities and signal ids and every number of rules.                      *)
(***************************************************************************)
EXTENDS AttentionEngine, TLAPS

(***************************************************************************)
(* The inductive invariant, in parts; each theorem takes the parts it      *)
(* needs.  TypeOK and AtMostOneLive are not inductive: RuleDone needs the  *)
(* cursor to be inside the registry, and the partial index looks at what   *)
(* the lock owners have written but not committed.                         *)
(***************************************************************************)

InHandPCs == {"refresh", "check_dismissed", "insert", "recover"}

\* Only a scan that is between rules may have run off the registry; one with a
\* candidate in hand knows which, and one that refreshes knows the signal.
Consistent(st) ==
    /\ st.pc # "next_rule" => st.cursor \in Rules
    /\ st.pc = "idle" => st.cursor = 1
    /\ st.pc \in InHandPCs => st.entity \in Entities
    /\ st.pc = "refresh" => st.target \in SignalIds

ScansConsistent == \A t \in Scanners : Consistent(scan[t])

\* A scan holds the rule rows it has listed; nobody holds an absent one.
RuleLocks ==
    /\ \A r \in Rules : rule[r].state = "absent" => rule[r].lock = NoTx
    /\ \A t \in Scanners, r \in Rules :
          \/ scan[t].pc \in ListingPCs /\ r < scan[t].cursor
          \/ scan[t].pc \in UpsertPCs
          => rule[r].lock = t

Writing(u) == triage[u].pc \in {"locked", "written"}

\* What a row's two versions say, by the kind of transaction that locks it.
RowLock(s) ==
    /\ row[s].lock = NoTx => row[s].next = row[s].status
    /\ row[s].lock \in Scanners =>
          row[s].next = row[s].status \/ row[s].status = "ABSENT"
    /\ row[s].status # "ABSENT" => row[s].next # "ABSENT"
    /\ \A u \in Users :
          row[s].lock = u <=> Writing(u) /\ triage[u].signal = s

RowLocks == \A s \in SignalIds : RowLock(s)

\* A triage request is about a signal that is committed.
TriagedExists ==
    \A u \in Users : triage[u].pc # "idle" =>
        /\ triage[u].signal \in SignalIds
        /\ row[triage[u].signal].status # "ABSENT"

\* At most one row of a pair is live in its committed or its written version.
OneClaim ==
    \A s, q \in SignalIds :
        s # q /\ Claims(s) /\ Claims(q) => row[s].pair # row[q].pair

\* The settled signals of a scan are still dismissed, and an insert is about
\* a pair that has none.
SettledInv ==
    /\ \A t \in Scanners : \A s \in settled[t] : row[s].status = "DISMISSED"
    /\ SettledDismissalRespected

-----------------------------------------------------------------------------
(***************************************************************************)
(* Type correctness.                                                       *)
(***************************************************************************)

LEMMA CommittedType ==
    ASSUME TypeOK, NEW t
    PROVE  /\ Committed(t) \in [SignalIds -> SignalRow]
           /\ CommittedRules(t) \in [Rules -> RuleRow]
  BY DEF TypeOK, Committed, CommittedRules, SignalRow, RuleRow

LEMMA RolledBackType ==
    ASSUME TypeOK, NEW t
    PROVE  /\ RolledBack(t) \in [SignalIds -> SignalRow]
           /\ RolledBackRules(t) \in [Rules -> RuleRow]
  <1>1. AbsentRow \in SignalRow
    BY DEF AbsentRow, SignalRow
  <1>2. RolledBack(t) \in [SignalIds -> SignalRow]
    BY <1>1 DEF TypeOK, RolledBack, SignalRow
  <1>3. RolledBackRules(t) \in [Rules -> RuleRow]
    BY DEF TypeOK, RolledBackRules, RuleRow
  <1> QED BY <1>2, <1>3

LEMMA IdleTypes == IdleScan \in ScanState /\ IdleTriage \in TriageState
  BY NumRulesAssumption DEF IdleScan, Between, At, IdleTriage, ScanState, TriageState, Statuses

LEMMA EndScanType ==
    ASSUME TypeOK, ScansConsistent, NEW t \in Scanners, EndScan(t)
    PROVE  /\ scan' \in [Scanners -> ScanState]
           /\ settled' \in [Scanners -> SUBSET SignalIds]
           /\ triage' \in [Users -> TriageState]
           /\ scansBegun' \in 0..MaxScans
           /\ triagesBegun' \in 0..MaxTriages
           /\ ScansConsistent'
  BY IdleTypes, NumRulesAssumption
     DEF TypeOK, EndScan, ScansConsistent, Consistent, InHandPCs, IdleScan, Between, At, Rules

LEMMA RollBackScanType ==
    ASSUME TypeOK, ScansConsistent, NEW t \in Scanners, RollBackScan(t)
    PROVE  (TypeOK /\ ScansConsistent)'
  BY EndScanType, RolledBackType DEF RollBackScan, TypeOK

\* What an update of one scan's local state has to show.
LEMMA ScanUpdate ==
    ASSUME TypeOK, ScansConsistent, NEW t \in Scanners, NEW st \in ScanState,
           Consistent(st), scan' = [scan EXCEPT ![t] = st]
    PROVE  scan' \in [Scanners -> ScanState] /\ ScansConsistent'
  BY DEF TypeOK, ScansConsistent, Consistent

LEMMA AtUpdate ==
    ASSUME TypeOK, ScansConsistent, NEW t \in Scanners,
           NEW pc \in ListingPCs \union UpsertPCs, NEW r \in 1..(NumRules + 1),
           NEW todo \in SUBSET Entities, NEW e \in Entities \union {NoEntity},
           NEW s \in SignalIds \union {NoSignal},
           pc # "next_rule" => r \in Rules,
           pc \in InHandPCs => e \in Entities,
           pc = "refresh" => s \in SignalIds,
           scan' = [scan EXCEPT ![t] = At(pc, r, todo, e, s)]
    PROVE  scan' \in [Scanners -> ScanState] /\ ScansConsistent'
  <1> DEFINE st == At(pc, r, todo, e, s)
  <1>1. st \in ScanState /\ Consistent(st)
    BY DEF At, ScanState, Consistent, ListingPCs, UpsertPCs
  <1>2. scan' = [scan EXCEPT ![t] = st]
    OBVIOUS
  <1> HIDE DEF st
  <1> QED BY <1>1, <1>2, ScanUpdate

LEMMA BetweenUpdate ==
    ASSUME TypeOK, ScansConsistent, NEW t \in Scanners,
           NEW pc \in (ListingPCs \union UpsertPCs) \ InHandPCs,
           NEW r \in 1..(NumRules + 1), NEW todo \in SUBSET Entities,
           pc # "next_rule" => r \in Rules,
           scan' = [scan EXCEPT ![t] = Between(pc, r, todo)]
    PROVE  scan' \in [Scanners -> ScanState] /\ ScansConsistent'
  <1>1. pc # "refresh"
    BY DEF InHandPCs
  <1> QED BY <1>1, AtUpdate DEF Between

LEMMA PCUpdate ==
    ASSUME TypeOK, ScansConsistent, NEW t \in Scanners,
           NEW pc \in ListingPCs \union UpsertPCs,
           scan[t].cursor \in Rules, pc # "refresh",
           pc \in InHandPCs => scan[t].entity \in Entities,
           scan' = [scan EXCEPT ![t].pc = pc]
    PROVE  scan' \in [Scanners -> ScanState] /\ ScansConsistent'
  BY DEF TypeOK, ScansConsistent, Consistent, ScanState, ListingPCs, UpsertPCs

LEMMA RuleInHandType ==
    ASSUME TypeOK, ScansConsistent, NEW t \in Scanners, RuleInHand(t),
           scan[t].cursor \in Rules
    PROVE  scan' \in [Scanners -> ScanState] /\ ScansConsistent'
  <1>1. CASE scan[t].cursor = NumRules
    <2>1. scan' = [scan EXCEPT ![t] = Between("next_rule", 1, {})]
      BY <1>1, NumRulesAssumption DEF RuleInHand
    <2>2. "next_rule" \in (ListingPCs \union UpsertPCs) \ InHandPCs 
        /\ {} \in SUBSET Entities
      BY DEF UpsertPCs, InHandPCs
    <2>3. 1 \in 1..(NumRules + 1)
      BY NumRulesAssumption
    <2> QED BY <2>1, <2>2, <2>3, BetweenUpdate
  <1>2. CASE scan[t].cursor < NumRules
    <2> DEFINE r == scan[t].cursor + 1
    <2>1. r \in Rules
      BY <1>2, NumRulesAssumption DEF Rules
    <2>2. r \in 1..(NumRules + 1)
      BY <2>1, NumRulesAssumption DEF Rules
    <2>3. scan' = [scan EXCEPT ![t] = Between("select_rule", r, {})]
      BY <1>2, NumRulesAssumption DEF RuleInHand, Rules
    <2> HIDE DEF r
    <2>4. "select_rule" \in (ListingPCs \union UpsertPCs) \ InHandPCs 
        /\ {} \in SUBSET Entities
      BY DEF ListingPCs, InHandPCs
    <2> QED BY <2>1, <2>2, <2>3, <2>4, BetweenUpdate
  <1> QED BY <1>1, <1>2, NumRulesAssumption DEF Rules

LEMMA CandidateDoneType ==
    ASSUME TypeOK, ScansConsistent, NEW t \in Scanners, CandidateDone(t),
           scan[t].cursor \in Rules
    PROVE  scan' \in [Scanners -> ScanState] /\ ScansConsistent'
  <1> DEFINE todo == scan[t].todo \ {scan[t].entity}
  <1>1. todo \in SUBSET Entities
    BY DEF TypeOK, ScanState
  <1>2. scan[t].cursor \in 1..(NumRules + 1)
    BY DEF TypeOK, ScanState
  <1>3. scan' = [scan EXCEPT
                   ![t] = Between("next_candidate", scan[t].cursor, todo)]
    BY DEF CandidateDone
  <1> HIDE DEF todo
  <1> QED BY <1>1, <1>2, <1>3, BetweenUpdate DEF UpsertPCs, InHandPCs

\* One case per action.
LEMMA TypeStep ==
    TypeOK /\ ScansConsistent /\ [Next]_vars => (TypeOK /\ ScansConsistent)'
  <1> SUFFICES ASSUME TypeOK, ScansConsistent, [Next]_vars
               PROVE  (TypeOK /\ ScansConsistent)'
    OBVIOUS
  <1> DEFINE Goal == (TypeOK /\ ScansConsistent)'
  <1>1. ASSUME NEW t \in Scanners, BeginScan(t) PROVE Goal
    <2>1. scan[t].cursor \in Rules
      BY <1>1 DEF BeginScan, ScansConsistent, Consistent
    <2>2. scan' \in [Scanners -> ScanState] /\ ScansConsistent'
      BY <1>1, <2>1, PCUpdate DEF BeginScan, ListingPCs, InHandPCs
    <2>3. scansBegun' \in 0..MaxScans
      BY <1>1, BoundsAssumption DEF BeginScan, TypeOK
    <2> QED BY <1>1, <2>2, <2>3 DEF BeginScan, TypeOK
  <1>2. ASSUME NEW t \in Scanners, SelectRule(t) PROVE Goal
    <2>1. scan[t].cursor \in Rules
      BY <1>2 DEF SelectRule, ScansConsistent, Consistent
    <2>2. scan' \in [Scanners -> ScanState] /\ ScansConsistent'
      BY <1>2, <2>1, RuleInHandType, PCUpdate DEF SelectRule, ListingPCs, InHandPCs
    <2>3. rule' \in [Rules -> RuleRow]
      BY <1>2, <2>1 DEF SelectRule, TypeOK, RuleRow
    <2> QED BY <1>2, <2>2, <2>3 DEF SelectRule, TypeOK
  <1>3. ASSUME NEW t \in Scanners, SeedRule(t) PROVE Goal
    <2>1. scan[t].cursor \in Rules
      BY <1>3 DEF SeedRule, ScansConsistent, Consistent
    <2>2. scan' \in [Scanners -> ScanState] /\ ScansConsistent'
      BY <1>3, <2>1, RuleInHandType, PCUpdate DEF SeedRule, ListingPCs, InHandPCs
    <2>3. [state |-> "pending", active |-> TRUE, lock |-> t] \in RuleRow
      BY DEF RuleRow
    <2>4. rule' \in [Rules -> RuleRow]
      BY <1>3, <2>1, <2>3 DEF SeedRule, TypeOK
    <2> QED BY <1>3, <2>2, <2>4 DEF SeedRule, TypeOK
  <1>4. ASSUME NEW t \in Scanners, EvaluateRule(t) PROVE Goal
    <2> DEFINE r == scan[t].cursor
    <2>1. r \in Rules /\ r \in 1..(NumRules + 1)
      BY <1>4, NumRulesAssumption DEF EvaluateRule, TypeOK, ScanState, Rules
    <2>2. CASE ~rule[r].active
      <3>1. scan' = [scan EXCEPT ![t].cursor = r + 1] /\ scan[t].pc = "next_rule"
        BY <1>4, <2>2 DEF EvaluateRule
      <3>2. r + 1 \in 1..(NumRules + 1)
        BY <2>1, NumRulesAssumption DEF Rules
      <3>3. scan' \in [Scanners -> ScanState] /\ ScansConsistent'
        BY <3>1, <3>2 DEF TypeOK, ScansConsistent, Consistent, InHandPCs, ScanState
      <3> QED BY <1>4, <3>3 DEF EvaluateRule, TypeOK
    <2>3. ASSUME NEW found \in SUBSET Entities,
                 scan' = [scan EXCEPT ![t] = Between("next_candidate", r, found)]
          PROVE  scan' \in [Scanners -> ScanState] /\ ScansConsistent'
      <3> HIDE DEF r
      <3> QED BY <2>1, <2>3, BetweenUpdate DEF UpsertPCs, InHandPCs
    <2> QED BY <1>4, <2>2, <2>3 DEF EvaluateRule, TypeOK
  <1>5. ASSUME NEW t \in Scanners, RuleDone(t) PROVE Goal
    <2> DEFINE r == scan[t].cursor + 1
    <2>1. r \in 1..(NumRules + 1)
      BY <1>5, NumRulesAssumption DEF RuleDone, ScansConsistent, Consistent, Rules
    <2>2. scan' = [scan EXCEPT ![t] = Between("next_rule", r, {})]
      BY <1>5 DEF RuleDone
    <2>3. scan' \in [Scanners -> ScanState] /\ ScansConsistent'
      <3>1. "next_rule" \in (ListingPCs \union UpsertPCs) \ InHandPCs 
        /\ {} \in SUBSET Entities
        BY DEF UpsertPCs, InHandPCs
      <3> HIDE DEF r
      <3> QED BY <2>1, <2>2, <3>1, BetweenUpdate
    <2> QED BY <1>5, <2>3 DEF RuleDone, TypeOK
  <1>6. ASSUME NEW t \in Scanners, SelectLiveSignal(t) PROVE Goal
    <2> DEFINE r == scan[t].cursor
    <2> DEFINE todo == scan[t].todo
    <2>1. r \in Rules /\ r \in 1..(NumRules + 1) /\ todo \in SUBSET Entities
      BY <1>6 DEF SelectLiveSignal, TypeOK, ScansConsistent, Consistent, ScanState
    <2>2. PICK e \in todo, pc \in UpsertPCs, s \in SignalIds \union {NoSignal} :
             (pc = "refresh" => s \in SignalIds) /\ pc # "next_rule" /\ scan' = [scan EXCEPT ![t] = At(pc, r, todo, e, s)]
      BY <1>6 DEF SelectLiveSignal, LiveSignals, UpsertPCs
    <2>3. scan' \in [Scanners -> ScanState] /\ ScansConsistent'
      <3> HIDE DEF r, todo
      <3> QED BY <2>1, <2>2, AtUpdate
    <2> QED BY <1>6, <2>3 DEF SelectLiveSignal, TypeOK
  <1>7. ASSUME NEW t \in Scanners, RefreshSignal(t) PROVE Goal
    <2>1. scan' \in [Scanners -> ScanState] /\ ScansConsistent'
      BY <1>7, CandidateDoneType DEF RefreshSignal, ScansConsistent, Consistent
    <2>2. row' \in [SignalIds -> SignalRow]
      <3> DEFINE s == scan[t].target
      <3>1. [row[s] EXCEPT !.lock = t] \in SignalRow \/ s \notin SignalIds
        BY DEF TypeOK, SignalRow, Txs
      <3>2. row' = [row EXCEPT ![s] = [row[s] EXCEPT !.lock = t]]
        BY <1>7 DEF RefreshSignal, Refreshed
      <3> QED BY <3>1, <3>2 DEF TypeOK
    <2> QED BY <1>7, <2>1, <2>2 DEF RefreshSignal, TypeOK
  <1>8. ASSUME NEW t \in Scanners, CheckDismissed(t) PROVE Goal
    <2>1. scan' \in [Scanners -> ScanState] /\ ScansConsistent'
      BY <1>8, CandidateDoneType, PCUpdate
         DEF CheckDismissed, ScansConsistent, Consistent, UpsertPCs, InHandPCs
    <2> QED BY <1>8, <2>1 DEF CheckDismissed, TypeOK
  <1>9. ASSUME NEW t \in Scanners, InsertSignal(t) PROVE Goal
    <2>1. scan[t].cursor \in Rules
      BY <1>9 DEF InsertSignal, ScansConsistent, Consistent
    <2>2. scan' \in [Scanners -> ScanState] /\ ScansConsistent'
      BY <1>9, <2>1, CandidateDoneType, PCUpdate
         DEF InsertSignal, ScansConsistent, Consistent, UpsertPCs, InHandPCs
    <2>3. row' \in [SignalIds -> SignalRow]
      <3> DEFINE p == <<scan[t].cursor, scan[t].entity>>
      <3> DEFINE new == [pair |-> p, status |-> "ABSENT",
                         next |-> "OPEN", lock |-> t]
      <3>1. p \in Pairs
        BY <1>9, <2>1 DEF InsertSignal, ScansConsistent, Consistent, InHandPCs, Pairs
      <3>2. new \in SignalRow
        BY <3>1 DEF SignalRow, Txs, Statuses
      <3> QED BY <1>9, <3>2 DEF InsertSignal, TypeOK
    <2> QED BY <1>9, <2>2, <2>3 DEF InsertSignal, TypeOK
  <1>10. ASSUME NEW t \in Scanners, RecoverWinner(t) PROVE Goal
    <2>1. scan' \in [Scanners -> ScanState] /\ ScansConsistent'
      BY <1>10, CandidateDoneType DEF RecoverWinner, ScansConsistent, Consistent
    <2> QED BY <1>10, <2>1 DEF RecoverWinner, TypeOK
  <1>11. ASSUME NEW t \in Scanners, RecoverFails(t) PROVE Goal
    BY <1>11, RollBackScanType DEF RecoverFails
  <1>12. ASSUME NEW t \in Scanners, CommitScan(t) PROVE Goal
    BY <1>12, EndScanType, CommittedType DEF CommitScan, TypeOK
  <1>22. ASSUME NEW t \in Scanners, CommitListing(t) PROVE Goal
    BY <1>22, EndScanType, CommittedType DEF CommitListing, TypeOK
  <1>13. ASSUME NEW t \in Scanners, CrashScan(t) PROVE Goal
    BY <1>13, RollBackScanType DEF CrashScan
  <1>14. ASSUME NEW u \in Users, EndTriage(u)
         PROVE  triage' \in [Users -> TriageState]
    BY <1>14, IdleTypes DEF EndTriage, TypeOK
  <1>15. ASSUME NEW u \in Users, LoadSignal(u) PROVE Goal
    <2>1. triage' \in [Users -> TriageState]
      BY <1>15 DEF LoadSignal, RequestedStatus, TypeOK, TriageState, SignalRow
    <2> QED BY <1>15, <2>1, BoundsAssumption DEF LoadSignal, TypeOK, ScansConsistent
  <1>16. ASSUME NEW u \in Users, FlushStatus(u) PROVE Goal
    <2>1. triage' \in [Users -> TriageState]
      BY <1>16, <1>14 DEF FlushStatus, TypeOK, TriageState
    <2>2. row' \in [SignalIds -> SignalRow]
      BY <1>16 DEF FlushStatus, TypeOK, SignalRow, Txs
    <2> QED BY <1>16, <2>1, <2>2 DEF FlushStatus, TypeOK, ScansConsistent
  <1>17. ASSUME NEW u \in Users, WriteStatus(u) PROVE Goal
    <2>1. triage' \in [Users -> TriageState]
      BY <1>17, <1>14 DEF WriteStatus, TypeOK, TriageState
    <2>2. triage[u].new \in Statuses
      BY DEF TypeOK, TriageState
    <2>3. row' \in [SignalIds -> SignalRow]
      <3>1. CASE row' = RolledBack(u)
        BY <3>1, RolledBackType
      <3>2. CASE row' = [row EXCEPT ![triage[u].signal].next = triage[u].new]
        BY <3>2, <2>2 DEF TypeOK, SignalRow
      <3> QED BY <1>17, <3>1, <3>2 DEF WriteStatus
    <2> QED BY <1>17, <2>1, <2>3 DEF WriteStatus, TypeOK, ScansConsistent
  <1>18. ASSUME NEW u \in Users, CommitTriage(u) PROVE Goal
    BY <1>18, <1>14, CommittedType DEF CommitTriage, TypeOK, ScansConsistent
  <1>19. ASSUME NEW u \in Users, CrashTriage(u) PROVE Goal
    BY <1>19, <1>14, RolledBackType DEF CrashTriage, TypeOK, ScansConsistent
  <1>20. ASSUME NEW r \in Rules, UpdateRule(r) PROVE Goal
    BY <1>20 DEF UpdateRule, TypeOK, RuleRow, ScansConsistent
  <1>21. CASE UNCHANGED vars
    BY <1>21 DEF vars, TypeOK, ScansConsistent
  <1> QED
    BY <1>1, <1>2, <1>3, <1>4, <1>5, <1>6, <1>7, <1>8, <1>9, <1>10, <1>11,
       <1>12, <1>13, <1>15, <1>16, <1>17, <1>18, <1>19, <1>20, <1>21, <1>22
       DEF Next, ScanStep, TriageStep

LEMMA TypeInit == Init => TypeOK /\ ScansConsistent
  BY IdleTypes, BoundsAssumption, NumRulesAssumption
     DEF Init, TypeOK, RuleRow, SignalRow, AbsentRow, ScansConsistent, Consistent,
         InHandPCs, IdleScan, Between, At, Rules

\* Every variable keeps its type, for every registry size and every number of
\* scanners, users and signals (models.py, service.py).
THEOREM TypeCorrect == Spec => []TypeOK
  BY TypeInit, TypeStep, PTL DEF Spec

-----------------------------------------------------------------------------
(***************************************************************************)
(* Scans of one organisation are serialised by the rule rows.              *)
(***************************************************************************)

\* A step of one scan inside the upsert phase that leaves the rules alone.
LEMMA UpsertMove ==
    ASSUME TypeOK, RuleLocks, NEW t \in Scanners, scan[t].pc \in UpsertPCs,
           scan'[t].pc \in UpsertPCs, UNCHANGED rule,
           \A q \in Scanners \ {t} : scan'[q] = scan[q]
    PROVE  RuleLocks'
  BY DEF RuleLocks, ListingPCs, UpsertPCs

\* The end of a scan releases its locks and nobody else's.
LEMMA LocksReleased ==
    ASSUME TypeOK, RuleLocks, NEW t \in Scanners, EndScan(t),
           rule' = CommittedRules(t) \/ rule' = RolledBackRules(t)
    PROVE  RuleLocks'
  <1>1. ASSUME NEW r \in Rules
        PROVE  rule'[r].state = "absent" => rule'[r].lock = NoTx
    <2>1. CASE rule[r].lock = t /\ rule' = CommittedRules(t)
      <3>1. rule'[r] = [rule[r] EXCEPT !.state = "present", !.lock = NoTx]
        BY <2>1 DEF CommittedRules
      <3> QED BY <3>1 DEF TypeOK, RuleRow
    <2>2. CASE rule[r].lock = t /\ rule' = RolledBackRules(t)
      <3> DEFINE st == IF rule[r].state = "pending" THEN "absent" ELSE rule[r].state
      <3>1. rule'[r] = [rule[r] EXCEPT !.state = st, !.lock = NoTx]
        BY <2>2 DEF RolledBackRules
      <3> HIDE DEF st
      <3> QED BY <3>1 DEF TypeOK, RuleRow
    <2>3. CASE rule[r].lock # t
      BY <2>3 DEF RuleLocks, CommittedRules, RolledBackRules
    <2> QED BY <2>1, <2>2, <2>3
  <1>2. \A r \in Rules, q \in Scanners \ {t} :
          rule[r].lock = q => rule'[r].lock = q
    BY DEF CommittedRules, RolledBackRules
  <1>3. scan'[t].pc = "idle" /\ \A q \in Scanners \ {t} : scan'[q] = scan[q]
    BY DEF EndScan, IdleScan, Between, At, TypeOK
  <1> QED BY <1>1, <1>2, <1>3 DEF RuleLocks, ListingPCs, UpsertPCs

\* A scan that takes the lock of the rule at its cursor and moves on.
LEMMA LockTaken ==
    ASSUME TypeOK, ScansConsistent, RuleLocks, NEW t \in Scanners,
           scan[t].pc \in ListingPCs, RuleInHand(t),
           rule[scan[t].cursor].lock = NoTx,
           NEW new \in RuleRow, new.lock = t, new.state # "absent",
           rule' = [rule EXCEPT ![scan[t].cursor] = new]
    PROVE  RuleLocks'
  <1> DEFINE c == scan[t].cursor
  <1>1. c \in Rules /\ t # NoTx
    BY NullAssumption DEF ScansConsistent, Consistent, ListingPCs, Txs
  <1>2. \A r \in Rules : rule'[r].state = "absent" => rule'[r].lock = NoTx
    BY <1>1 DEF RuleLocks, TypeOK
  <1>3. \A q \in Scanners \ {t} : scan'[q] = scan[q]
    BY DEF RuleInHand, TypeOK
  <1>4. \A r \in Rules : r <= c => rule'[r].lock = t
    BY <1>1 DEF RuleLocks, TypeOK, Rules
  <1>5. ASSUME NEW q \in Scanners \ {t}, NEW r \in Rules, rule[r].lock = q
        PROVE  rule'[r].lock = q
    <2>1. r # c
      BY <1>5, NullAssumption DEF Txs
    <2> QED BY <1>5, <2>1 DEF TypeOK
  <1>6. ASSUME NEW r \in Rules,
               \/ scan'[t].pc \in ListingPCs /\ r < scan'[t].cursor
               \/ scan'[t].pc \in UpsertPCs
        PROVE  r <= c
    <2>1. CASE c = NumRules
      BY <2>1, NumRulesAssumption DEF Rules
    <2>2. CASE c < NumRules
      <3>1. scan'[t] = Between("select_rule", c + 1, {})
        BY <2>2, NumRulesAssumption DEF RuleInHand, TypeOK
      <3>2. scan'[t].pc = "select_rule" /\ scan'[t].cursor = c + 1
        BY <3>1 DEF Between, At
      <3> QED BY <1>1, <1>6, <3>2, NumRulesAssumption DEF UpsertPCs, Rules
    <2> QED BY <1>1, <2>1, <2>2, NumRulesAssumption DEF Rules
  <1>7. \A q \in Scanners \ {t}, r \in Rules :
           \/ scan'[q].pc \in ListingPCs /\ r < scan'[q].cursor
           \/ scan'[q].pc \in UpsertPCs
           => rule'[r].lock = q
    BY <1>3, <1>5 DEF RuleLocks
  <1>8. \A r \in Rules :
           \/ scan'[t].pc \in ListingPCs /\ r < scan'[t].cursor
           \/ scan'[t].pc \in UpsertPCs
           => rule'[r].lock = t
    BY <1>4, <1>6
  <1> QED BY <1>2, <1>7, <1>8 DEF RuleLocks

LEMMA RuleLocksStep ==
    TypeOK /\ ScansConsistent /\ RuleLocks /\ [Next]_vars => RuleLocks'
  <1> SUFFICES ASSUME TypeOK, ScansConsistent, RuleLocks, [Next]_vars
               PROVE  RuleLocks'
    OBVIOUS
  <1>1. ASSUME NEW t \in Scanners, BeginScan(t) PROVE RuleLocks'
    <2>1. scan[t].cursor = 1
      BY <1>1 DEF BeginScan, ScansConsistent, Consistent
    <2>2. scan'[t].pc = "select_rule" /\ scan'[t].cursor = 1
      BY <1>1, <2>1 DEF BeginScan, TypeOK, ScanState
    <2> QED
      BY <1>1, <2>2 DEF BeginScan, RuleLocks, TypeOK, Rules, ListingPCs, UpsertPCs
  <1>2. ASSUME NEW t \in Scanners, scan[t].pc \in ListingPCs,
               NEW pc \in ListingPCs, scan' = [scan EXCEPT ![t].pc = pc],
               UNCHANGED rule
        PROVE  RuleLocks'
    <2>1. scan'[t].pc = pc /\ scan'[t].cursor = scan[t].cursor
      BY <1>2 DEF TypeOK, ScanState
    <2> QED BY <1>2, <2>1 DEF RuleLocks, TypeOK, ListingPCs, UpsertPCs
  <1>3. ASSUME NEW t \in Scanners, SelectRule(t) PROVE RuleLocks'
    <2> DEFINE r == scan[t].cursor
    <2>1. r \in Rules /\ scan[t].pc \in ListingPCs
      BY <1>3 DEF SelectRule, ScansConsistent, Consistent, ListingPCs
    <2>2. CASE rule[r].state = "present" /\ RuleInHand(t)
      <3> DEFINE new == [rule[r] EXCEPT !.lock = t]
      <3>1. new \in RuleRow /\ new.lock = t /\ new.state # "absent"
        BY <2>1, <2>2 DEF TypeOK, RuleRow
      <3>2. rule' = [rule EXCEPT ![r] = new] /\ rule[r].lock = NoTx
        BY <1>3, <2>2 DEF SelectRule
      <3> HIDE DEF new
      <3> QED BY <2>1, <2>2, <3>1, <3>2, LockTaken
    <2>3. CASE UNCHANGED rule /\ scan' = [scan EXCEPT ![t].pc = "seed_rule"]
      BY <1>2, <2>1, <2>3 DEF ListingPCs
    <2> QED BY <1>3, <2>2, <2>3 DEF SelectRule
  <1>4. ASSUME NEW t \in Scanners, SeedRule(t) PROVE RuleLocks'
    <2> DEFINE r == scan[t].cursor
    <2>1. r \in Rules /\ scan[t].pc \in ListingPCs
      BY <1>4 DEF SeedRule, ScansConsistent, Consistent, ListingPCs
    <2>2. CASE rule[r].state = "absent" /\ RuleInHand(t)
      <3> DEFINE new == [state |-> "pending", active |-> TRUE, lock |-> t]
      <3>1. new \in RuleRow /\ new.lock = t /\ new.state # "absent"
        BY DEF RuleRow
      <3>2. rule' = [rule EXCEPT ![r] = new] /\ rule[r].lock = NoTx
        BY <1>4, <2>1, <2>2 DEF SeedRule, RuleLocks
      <3> HIDE DEF new
      <3> QED BY <2>1, <2>2, <3>1, <3>2, LockTaken
    <2>3. CASE UNCHANGED rule /\ scan' = [scan EXCEPT ![t].pc = "select_rule"]
      BY <1>2, <2>1, <2>3 DEF ListingPCs
    <2> QED BY <1>4, <2>2, <2>3 DEF SeedRule
  <1>5. ASSUME NEW t \in Scanners,
               \/ EvaluateRule(t) \/ RuleDone(t) \/ SelectLiveSignal(t)
               \/ RefreshSignal(t) \/ CheckDismissed(t) \/ InsertSignal(t)
               \/ RecoverWinner(t)
        PROVE  RuleLocks'
    <2>1. scan[t].pc \in UpsertPCs /\ UNCHANGED rule
      BY <1>5 DEF EvaluateRule, RuleDone, SelectLiveSignal, RefreshSignal,
                  CheckDismissed, InsertSignal, RecoverWinner, UpsertPCs
    <2>2. scan'[t].pc \in UpsertPCs
      <3>1. CandidateDone(t) => scan'[t].pc = "next_candidate"
        BY DEF CandidateDone, Between, At, TypeOK
      <3>2. CASE EvaluateRule(t)
        BY <2>1, <3>2 DEF EvaluateRule, Between, At, UpsertPCs, TypeOK, ScanState
      <3>3. CASE RuleDone(t)
        BY <3>3 DEF RuleDone, Between, At, UpsertPCs, TypeOK
      <3>4. CASE SelectLiveSignal(t)
        BY <3>4 DEF SelectLiveSignal, At, UpsertPCs, TypeOK
      <3>5. CASE RefreshSignal(t) \/ RecoverWinner(t)
        BY <3>1, <3>5 DEF RefreshSignal, RecoverWinner, UpsertPCs
      <3>6. CASE CheckDismissed(t) \/ InsertSignal(t)
        BY <3>1, <3>6 DEF CheckDismissed, InsertSignal, UpsertPCs, TypeOK, ScanState
      <3> QED BY <1>5, <3>2, <3>3, <3>4, <3>5, <3>6
    <2>3. \A q \in Scanners \ {t} : scan'[q] = scan[q]
      BY <1>5 DEF EvaluateRule, RuleDone, SelectLiveSignal, RefreshSignal,
                  CheckDismissed, InsertSignal, RecoverWinner, CandidateDone, TypeOK
    <2> QED BY <2>1, <2>2, <2>3, UpsertMove
  <1>6. ASSUME NEW t \in Scanners,
               \/ RecoverFails(t) \/ CommitScan(t) \/ CommitListing(t)
               \/ CrashScan(t)
        PROVE  RuleLocks'
    BY <1>6, LocksReleased
       DEF RecoverFails, CommitScan, CommitListing, CrashScan, RollBackScan
  <1>7. ASSUME NEW u \in Users, LoadSignal(u) \/ TriageStep(u) \/ CrashTriage(u)
        PROVE  RuleLocks'
    BY <1>7 DEF LoadSignal, TriageStep, FlushStatus, WriteStatus, CommitTriage,
                CrashTriage, RuleLocks
  <1>8. ASSUME NEW r \in Rules, UpdateRule(r) PROVE RuleLocks'
    <2>1. \A q \in Rules : /\ rule'[q].lock = rule[q].lock
                           /\ rule'[q].state = rule[q].state
      BY <1>8 DEF UpdateRule, TypeOK, RuleRow
    <2> QED BY <1>8, <2>1 DEF UpdateRule, RuleLocks
  <1>9. CASE UNCHANGED vars
    BY <1>9 DEF vars, RuleLocks
  <1> QED
    BY <1>1, <1>3, <1>4, <1>5, <1>6, <1>7, <1>8, <1>9 DEF Next, ScanStep

LEMMA RuleLocksInit == Init => RuleLocks
  BY DEF Init, RuleLocks, IdleScan, Between, At, ListingPCs, UpsertPCs

\* Two scans never upsert at the same time: each would hold the lock of the
\* first rule (list_rules' FOR UPDATE, or its seeding INSERT).
THEOREM Serialised == Spec => []ScansSerialised
  <1>1. RuleLocks => ScansSerialised
    <2>1. 1 \in Rules
      BY NumRulesAssumption DEF Rules
    <2> QED BY <2>1 DEF RuleLocks, ScansSerialised
  <1> QED
    BY <1>1, TypeInit, TypeStep, RuleLocksInit, RuleLocksStep, PTL DEF Spec

-----------------------------------------------------------------------------
(***************************************************************************)
(* At most one live signal per pair.                                       *)
(***************************************************************************)

Uncommitted == RowLocks /\ TriagedExists

LEMMA TxsDistinct ==
    /\ \A t \in Scanners, u \in Users : t # u
    /\ \A t \in Txs : t # NoTx
    /\ Scanners \subseteq Txs /\ Users \subseteq Txs
  BY NullAssumption DEF Txs

\* Rows only lose claims, and keep their pairs while they have one.
LEMMA FewerClaims ==
    ASSUME OneClaim,
           \A s \in SignalIds :
              Claims(s)' => Claims(s) /\ row'[s].pair = row[s].pair
    PROVE  OneClaim'
  BY DEF OneClaim

LEMMA CommittedRow ==
    ASSUME TypeOK, NEW t, NEW s \in SignalIds
    PROVE  /\ Committed(t)[s].pair = row[s].pair
           /\ Committed(t)[s].next = row[s].next
           /\ row[s].lock = t => /\ Committed(t)[s].status = row[s].next
                                 /\ Committed(t)[s].lock = NoTx
           /\ row[s].lock # t => Committed(t)[s] = row[s]
  BY DEF TypeOK, Committed, SignalRow

LEMMA RolledBackRow ==
    ASSUME TypeOK, NEW t, NEW s \in SignalIds
    PROVE  /\ RolledBack(t)[s].status = row[s].status
           /\ row[s].status # "ABSENT" => RolledBack(t)[s].pair = row[s].pair
           /\ row[s].lock = t => /\ RolledBack(t)[s].next = row[s].status
                                 /\ RolledBack(t)[s].lock = NoTx
           /\ row[s].lock # t => RolledBack(t)[s] = row[s]
  BY DEF TypeOK, RolledBack, SignalRow, AbsentRow

\* Under the index check of transaction t, no other row of the pair claims.
LEMMA IndexExcludes ==
    ASSUME TypeOK, RowLocks, NEW t \in Txs, NEW p, NEW s,
           ~IndexWait(t, p, s), ~IndexTaken(t, p, s),
           NEW q \in SignalIds, q # s, row[q].pair = p,
           t \in Users => row[q].lock # t
    PROVE  ~Claims(q)
  <1>1. row[q].lock \in {NoTx, t} \/ ~Claims(q)
    BY DEF IndexWait
  <1>2. Visible(t, q) \notin Live
    BY DEF IndexTaken
  <1>3. CASE row[q].lock = NoTx
    BY <1>2, <1>3, TxsDistinct DEF RowLocks, RowLock, Visible, Claims
  <1>4. CASE row[q].lock = t
    BY <1>2, <1>4, TxsDistinct DEF RowLocks, RowLock, Visible, Claims, Live, Txs
  <1> QED BY <1>1, <1>3, <1>4

LEMMA EndOfTransaction ==
    ASSUME TypeOK, RowLocks, OneClaim, NEW t \in Txs,
           row' = Committed(t) \/ row' = RolledBack(t)
    PROVE  OneClaim'
  <1>1. ASSUME NEW s \in SignalIds, Claims(s)'
        PROVE  Claims(s) /\ row'[s].pair = row[s].pair
    <2>1. CASE row' = Committed(t)
      BY <1>1, <2>1, CommittedRow DEF Claims
    <2>2. CASE row' = RolledBack(t)
      BY <1>1, <2>2, RolledBackRow DEF Claims, Live
    <2> QED BY <2>1, <2>2
  <1> QED BY <1>1, FewerClaims

\* A scan's end leaves the rows of other transactions alone.
LEMMA ScanEndRows ==
    ASSUME TypeOK, Uncommitted, NEW t \in Scanners, UNCHANGED triage,
           row' = Committed(t) \/ row' = RolledBack(t)
    PROVE  Uncommitted'
  <1>1. ASSUME NEW s \in SignalIds PROVE RowLock(s)'
    <2>1. CASE row[s].lock = t
      <3>1. row'[s].lock = NoTx /\ row'[s].next = row'[s].status
        BY <2>1, CommittedRow, RolledBackRow
      <3>2. \A u \in Users : ~(Writing(u) /\ triage[u].signal = s)
        BY <2>1, TxsDistinct DEF Uncommitted, RowLocks, RowLock
      <3> QED
        BY <3>1, <3>2, TxsDistinct DEF RowLock, Writing
    <2>2. CASE row[s].lock # t
      BY <2>2, CommittedRow, RolledBackRow DEF Uncommitted, RowLocks, RowLock, Writing
    <2> QED BY <2>1, <2>2
  <1>2. ASSUME NEW s \in SignalIds, row[s].status # "ABSENT"
        PROVE  row'[s].status # "ABSENT"
    BY <1>2, CommittedRow, RolledBackRow DEF Uncommitted, RowLocks, RowLock
  <1> QED BY <1>1, <1>2 DEF Uncommitted, RowLocks, TriagedExists

\* So does the end of a triage request.
LEMMA TriageEndRows ==
    ASSUME TypeOK, Uncommitted, NEW u \in Users, EndTriage(u),
           row' = Committed(u) \/ row' = RolledBack(u)
    PROVE  Uncommitted'
  <1>1. /\ triage'[u].pc = "idle"
        /\ \A v \in Users \ {u} : triage'[v] = triage[v]
    BY DEF EndTriage, IdleTriage, TypeOK
  <1>2. ASSUME NEW s \in SignalIds PROVE RowLock(s)'
    <2>1. CASE row[s].lock = u
      <3>1. row'[s].lock = NoTx /\ row'[s].next = row'[s].status
        BY <2>1, CommittedRow, RolledBackRow
      <3>2. \A v \in Users \ {u} : ~(Writing(v) /\ triage[v].signal = s)
        BY <2>1 DEF Uncommitted, RowLocks, RowLock
      <3> QED
        BY <1>1, <3>1, <3>2, TxsDistinct DEF RowLock, Writing
    <2>2. CASE row[s].lock # u
      <3>1. row'[s] = row[s]
        BY <2>2, CommittedRow, RolledBackRow
      <3> QED
        BY <1>1, <2>2, <3>1 DEF Uncommitted, RowLocks, RowLock, Writing
    <2> QED BY <2>1, <2>2
  <1>3. ASSUME NEW s \in SignalIds, row[s].status # "ABSENT"
        PROVE  row'[s].status # "ABSENT"
    BY <1>3, CommittedRow, RolledBackRow DEF Uncommitted, RowLocks, RowLock
  <1> QED BY <1>1, <1>2, <1>3 DEF Uncommitted, RowLocks, TriagedExists

\* Uncommitted and OneClaim only look at the rows and the triage requests.
LEMMA RowsUnchanged ==
    ASSUME Uncommitted, OneClaim, UNCHANGED <<row, triage>>
    PROVE  (Uncommitted /\ OneClaim)'
  BY DEF Uncommitted, RowLocks, RowLock, Writing, TriagedExists, OneClaim, Claims

LEMMA RefreshRows ==
    ASSUME TypeOK, ScansConsistent, Uncommitted, OneClaim,
           NEW t \in Scanners, RefreshSignal(t)
    PROVE  (Uncommitted /\ OneClaim)'
  <1>1. PICK s \in SignalIds :
           s = scan[t].target /\ row[s].lock \in {NoTx, t} /\ UNCHANGED triage
    BY DEF RefreshSignal, ScansConsistent, Consistent
  <1>2. /\ row'[s].pair = row[s].pair /\ row'[s].status = row[s].status
        /\ row'[s].next = row[s].next /\ row'[s].lock = t
        /\ \A q \in SignalIds \ {s} : row'[q] = row[q]
    BY <1>1 DEF RefreshSignal, Refreshed, TypeOK, SignalRow
  <1>3. RowLock(s)'
    <2>1. \A u \in Users : ~(Writing(u) /\ triage[u].signal = s)
      BY <1>1, TxsDistinct DEF Uncommitted, RowLocks, RowLock
    <2> QED
      BY <1>1, <1>2, <2>1, TxsDistinct
         DEF Uncommitted, RowLocks, RowLock, Writing
  <1>4. \A q \in SignalIds \ {s} : RowLock(q)'
    BY <1>1, <1>2 DEF Uncommitted, RowLocks, RowLock, Writing
  <1>5. TriagedExists'
    BY <1>1, <1>2 DEF Uncommitted, TriagedExists
  <1>6. OneClaim'
    BY <1>1, <1>2, FewerClaims DEF Claims
  <1> QED BY <1>1, <1>3, <1>4, <1>5, <1>6 DEF Uncommitted, RowLocks

LEMMA InsertRows ==
    ASSUME TypeOK, ScansConsistent, Uncommitted, OneClaim,
           NEW t \in Scanners, InsertSignal(t)
    PROVE  (Uncommitted /\ OneClaim)'
  <1> DEFINE p == <<scan[t].cursor, scan[t].entity>>
  <1>1. CASE UNCHANGED row
    BY <1>1, RowsUnchanged DEF InsertSignal
  <1>2. CASE ~UNCHANGED row
    <2>1. ~IndexWait(t, p, NoSignal) /\ ~IndexTaken(t, p, NoSignal)
          /\ UNCHANGED triage
      BY <1>2 DEF InsertSignal
    <2>2. PICK s \in SignalIds :
             /\ row[s] = AbsentRow
             /\ row' = [row EXCEPT ![s] = [pair |-> p, status |-> "ABSENT",
                                          next |-> "OPEN", lock |-> t]]
      BY <1>2 DEF InsertSignal
    <2>3. /\ row'[s].pair = p /\ row'[s].status = "ABSENT"
          /\ row'[s].next = "OPEN" /\ row'[s].lock = t
          /\ row[s].status = "ABSENT" /\ row[s].lock = NoTx
          /\ \A q \in SignalIds \ {s} : row'[q] = row[q]
      BY <2>2 DEF TypeOK, AbsentRow
    <2>4. RowLock(s)'
      <3>1. \A u \in Users : ~(Writing(u) /\ triage[u].signal = s)
        BY <2>3, TxsDistinct DEF Uncommitted, RowLocks, RowLock
      <3> QED BY <2>1, <2>3, <3>1, TxsDistinct DEF RowLock, Writing
    <2>5. \A q \in SignalIds \ {s} : RowLock(q)'
      BY <2>1, <2>3 DEF Uncommitted, RowLocks, RowLock, Writing
    <2>6. TriagedExists'
      BY <2>1, <2>3 DEF Uncommitted, TriagedExists
    <2>7. ASSUME NEW q \in SignalIds \ {s}, row[q].pair = p PROVE ~Claims(q)
      BY <2>1, <2>7, IndexExcludes, TxsDistinct, NullAssumption DEF Uncommitted
    <2>8. OneClaim'
      BY <2>3, <2>7 DEF OneClaim, Claims
    <2> QED BY <2>4, <2>5, <2>6, <2>8 DEF Uncommitted, RowLocks
  <1> QED BY <1>1, <1>2

LEMMA FlushRows ==
    ASSUME TypeOK, Uncommitted, OneClaim, NEW u \in Users, FlushStatus(u)
    PROVE  (Uncommitted /\ OneClaim)'
  <1>1. PICK s \in SignalIds :
           s = triage[u].signal /\ triage[u].pc = "loaded"
             /\ row[s].status # "ABSENT"
    BY DEF FlushStatus, Uncommitted, TriagedExists
  <1>2. \A q \in SignalIds : row[q].lock # u
    BY <1>1 DEF Uncommitted, RowLocks, RowLock, Writing
  <1>3. CASE EndTriage(u) /\ UNCHANGED row
    <2>1. triage'[u].pc = "idle" /\ \A v \in Users \ {u} : triage'[v] = triage[v]
      BY <1>3 DEF EndTriage, IdleTriage, TypeOK
    <2>2. RowLocks'
      BY <1>2, <1>3, <2>1 DEF Uncommitted, RowLocks, RowLock, Writing
    <2>3. TriagedExists' /\ OneClaim'
      BY <1>3, <2>1 DEF Uncommitted, TriagedExists, OneClaim, Claims
    <2> QED BY <2>2, <2>3 DEF Uncommitted
  <1>4. CASE /\ row[s].lock = NoTx
             /\ row' = [row EXCEPT ![s].lock = u]
             /\ triage' = [triage EXCEPT ![u].pc = "locked"]
    <2>1. /\ row'[s].pair = row[s].pair /\ row'[s].status = row[s].status
          /\ row'[s].next = row[s].next /\ row'[s].lock = u
          /\ \A q \in SignalIds \ {s} : row'[q] = row[q]
      BY <1>1, <1>4 DEF TypeOK, SignalRow
    <2>2. /\ triage'[u].pc = "locked" /\ triage'[u].signal = s
          /\ \A v \in Users \ {u} : triage'[v] = triage[v]
      BY <1>1, <1>4 DEF TypeOK, TriageState
    <2>3. RowLock(s)'
      <3>1. \A v \in Users : ~(Writing(v) /\ triage[v].signal = s)
        BY <1>1, <1>4, TxsDistinct DEF Uncommitted, RowLocks, RowLock
      <3> QED
        BY <1>1, <1>4, <2>1, <2>2, <3>1, TxsDistinct
           DEF Uncommitted, RowLocks, RowLock, Writing
    <2>4. ASSUME NEW q \in SignalIds \ {s} PROVE RowLock(q)'
      BY <1>2, <2>1, <2>2 DEF Uncommitted, RowLocks, RowLock, Writing
    <2>5. TriagedExists'
      BY <1>1, <2>1, <2>2 DEF Uncommitted, TriagedExists
    <2>6. OneClaim'
      BY <1>1, <2>1, FewerClaims DEF Claims
    <2> QED BY <1>1, <2>3, <2>4, <2>5, <2>6 DEF Uncommitted, RowLocks
  <1> QED BY <1>1, <1>3, <1>4 DEF FlushStatus

LEMMA WriteRows ==
    ASSUME TypeOK, Uncommitted, OneClaim, NEW u \in Users, WriteStatus(u)
    PROVE  (Uncommitted /\ OneClaim)'
  <1>1. PICK s \in SignalIds, new \in Statuses :
           /\ s = triage[u].signal /\ new = triage[u].new
           /\ triage[u].pc = "locked" /\ row[s].status # "ABSENT"
    BY DEF WriteStatus, Uncommitted, TriagedExists, TypeOK, TriageState
  <1>2. \A q \in SignalIds : row[q].lock = u <=> q = s
    BY <1>1 DEF Uncommitted, RowLocks, RowLock, Writing
  <1>3. CASE row' = RolledBack(u) /\ EndTriage(u)
    BY <1>3, TriageEndRows, EndOfTransaction, TxsDistinct DEF Uncommitted
  <1>4. CASE /\ new \in Live => ~IndexWait(u, row[s].pair, s)
                                /\ ~IndexTaken(u, row[s].pair, s)
             /\ row' = [row EXCEPT ![s].next = new]
             /\ triage' = [triage EXCEPT ![u].pc = "written"]
    <2>1. /\ row'[s].pair = row[s].pair /\ row'[s].status = row[s].status
          /\ row'[s].next = new /\ row'[s].lock = u
          /\ \A q \in SignalIds \ {s} : row'[q] = row[q]
      BY <1>1, <1>2, <1>4 DEF TypeOK, SignalRow
    <2>2. /\ triage'[u].pc = "written" /\ triage'[u].signal = s
          /\ \A v \in Users \ {u} : triage'[v] = triage[v]
      BY <1>1, <1>4 DEF TypeOK, TriageState
    <2>3. RowLock(s)'
      BY <1>1, <1>2, <2>1, <2>2, TxsDistinct
         DEF Uncommitted, RowLocks, RowLock, Writing, Statuses
    <2>4. ASSUME NEW q \in SignalIds \ {s} PROVE RowLock(q)'
      BY <1>1, <2>1, <2>2 DEF Uncommitted, RowLocks, RowLock, Writing
    <2>5. TriagedExists'
      BY <1>1, <2>1, <2>2 DEF Uncommitted, TriagedExists
    <2>6. ASSUME new \notin Live PROVE OneClaim'
      <3>1. ASSUME NEW q \in SignalIds, Claims(q)'
            PROVE  Claims(q) /\ row'[q].pair = row[q].pair
        <4>1. CASE q = s
          BY <2>1, <2>6, <3>1, <4>1 DEF Claims
        <4>2. CASE q # s
          BY <2>1, <3>1, <4>2 DEF Claims
        <4> QED BY <4>1, <4>2
      <3> QED BY <3>1, FewerClaims
    <2>7. ASSUME new \in Live PROVE OneClaim'
      <3>1. ASSUME NEW q \in SignalIds \ {s}, row[q].pair = row[s].pair
            PROVE  ~Claims(q)
        BY <1>2, <1>4, <2>7, <3>1, IndexExcludes, TxsDistinct DEF Uncommitted
      <3>2. \A q \in SignalIds \ {s} :
               row'[q].pair = row'[s].pair => ~Claims(q)'
        BY <2>1, <3>1 DEF Claims
      <3>3. \A q, r \in SignalIds \ {s} :
               q # r /\ Claims(q)' /\ Claims(r)' => row'[q].pair # row'[r].pair
        BY <2>1 DEF OneClaim, Claims
      <3> QED BY <3>2, <3>3 DEF OneClaim, Claims
    <2> QED BY <1>1, <2>3, <2>4, <2>5, <2>6, <2>7 DEF Uncommitted, RowLocks
  <1> QED BY <1>1, <1>3, <1>4 DEF WriteStatus

LEMMA LoadRows ==
    ASSUME TypeOK, Uncommitted, OneClaim, NEW u \in Users, LoadSignal(u)
    PROVE  (Uncommitted /\ OneClaim)'
  <1>1. /\ triage'[u].pc = "loaded" /\ triage[u].pc = "idle"
        /\ triage'[u].signal \in SignalIds
        /\ row[triage'[u].signal].status # "ABSENT"
        /\ \A v \in Users \ {u} : triage'[v] = triage[v]
        /\ UNCHANGED row
    BY DEF LoadSignal, TypeOK
  <1>2. RowLocks'
    BY <1>1 DEF Uncommitted, RowLocks, RowLock, Writing
  <1>3. TriagedExists' /\ OneClaim'
    BY <1>1 DEF Uncommitted, TriagedExists, OneClaim, Claims
  <1> QED BY <1>2, <1>3 DEF Uncommitted

LEMMA RowsStep ==
    TypeOK /\ ScansConsistent /\ Uncommitted /\ OneClaim /\ [Next]_vars
      => (Uncommitted /\ OneClaim)'
  <1> SUFFICES ASSUME TypeOK, ScansConsistent, Uncommitted, OneClaim, [Next]_vars
               PROVE  (Uncommitted /\ OneClaim)'
    OBVIOUS
  <1>1. ASSUME NEW t \in Scanners,
               \/ BeginScan(t) \/ SelectRule(t) \/ SeedRule(t)
               \/ EvaluateRule(t) \/ RuleDone(t) \/ SelectLiveSignal(t)
               \/ CheckDismissed(t) \/ RecoverWinner(t) \/ CommitListing(t)
        PROVE  (Uncommitted /\ OneClaim)'
    <2>1. UNCHANGED <<row, triage>>
      BY <1>1 DEF BeginScan, SelectRule, SeedRule, EvaluateRule, RuleDone,
                  SelectLiveSignal, CheckDismissed, RecoverWinner,
                  CommitListing, EndScan
    <2> QED BY <2>1, RowsUnchanged
  <1>2. ASSUME NEW t \in Scanners, RefreshSignal(t) \/ InsertSignal(t)
        PROVE  (Uncommitted /\ OneClaim)'
    BY <1>2, RefreshRows, InsertRows
  <1>3. ASSUME NEW t \in Scanners,
               RecoverFails(t) \/ CommitScan(t) \/ CrashScan(t)
        PROVE  (Uncommitted /\ OneClaim)'
    <2>1. UNCHANGED triage /\ (row' = Committed(t) \/ row' = RolledBack(t))
      BY <1>3 DEF RecoverFails, CommitScan, CrashScan, RollBackScan, EndScan
    <2>2. Uncommitted'
      BY <2>1, ScanEndRows
    <2>3. OneClaim'
      BY <2>1, EndOfTransaction, TxsDistinct DEF Uncommitted
    <2> QED BY <2>2, <2>3
  <1>4. ASSUME NEW u \in Users, LoadSignal(u) \/ FlushStatus(u) \/ WriteStatus(u)
        PROVE  (Uncommitted /\ OneClaim)'
    BY <1>4, LoadRows, FlushRows, WriteRows
  <1>5. ASSUME NEW u \in Users, CommitTriage(u) \/ CrashTriage(u)
        PROVE  (Uncommitted /\ OneClaim)'
    <2>1. EndTriage(u) /\ (row' = Committed(u) \/ row' = RolledBack(u))
      BY <1>5 DEF CommitTriage, CrashTriage
    <2>2. Uncommitted'
      BY <2>1, TriageEndRows
    <2>3. OneClaim'
      BY <2>1, EndOfTransaction, TxsDistinct DEF Uncommitted
    <2> QED BY <2>2, <2>3
  <1>6. ASSUME NEW r \in Rules, UpdateRule(r)
        PROVE  (Uncommitted /\ OneClaim)'
    BY <1>6, RowsUnchanged DEF UpdateRule
  <1>7. CASE UNCHANGED vars
    BY <1>7, RowsUnchanged DEF vars
  <1> QED
    BY <1>1, <1>2, <1>3, <1>4, <1>5, <1>6, <1>7 DEF Next, ScanStep, TriageStep

LEMMA RowsInit == Init => Uncommitted /\ OneClaim
  BY TxsDistinct
     DEF Init, Uncommitted, RowLocks, RowLock, Writing, TriagedExists, OneClaim,
         Claims, AbsentRow, IdleTriage, Live

\* At most one OPEN or ACKNOWLEDGED signal per (rule, entity) is ever visible,
\* because the partial index admits a new claim only beside none, counting
\* what other transactions have written and not committed.
THEOREM OneLive == Spec => []AtMostOneLive
  <1>1. OneClaim => AtMostOneLive
    BY DEF OneClaim, AtMostOneLive, Claims
  <1> QED
    BY <1>1, TypeInit, TypeStep, RowsInit, RowsStep, PTL DEF Spec

-----------------------------------------------------------------------------
(***************************************************************************)
(* Settled dismissals.                                                     *)
(***************************************************************************)

\* A step keeps SettledInv when it adds nothing to settled, leaves the settled
\* signals dismissed and lets no scan begin or change an insert.
LEMMA SettledKept ==
    ASSUME SettledInv,
           \A t \in Scanners : settled'[t] \subseteq settled[t],
           \A t \in Scanners : \A s \in settled'[t] :
              row'[s].status = "DISMISSED" /\ row'[s].pair = row[s].pair,
           \A t \in Scanners : scan'[t].pc = "insert" =>
              /\ scan[t].pc = "insert"
              /\ scan'[t].cursor = scan[t].cursor
              /\ scan'[t].entity = scan[t].entity
    PROVE  SettledInv'
  BY DEF SettledInv, SettledDismissalRespected

\* The end of a transaction other than the commit of a user who is triaging s
\* leaves s dismissed.
LEMMA EndKeepsDismissed ==
    ASSUME TypeOK, Uncommitted, NEW t \in Txs, NEW s \in SignalIds,
           row[s].status = "DISMISSED",
           \/ row' = RolledBack(t)
           \/ row' = Committed(t) /\ (t \in Scanners \/ row[s].lock # t)
    PROVE  row'[s].status = "DISMISSED" /\ row'[s].pair = row[s].pair
  <1>1. RowLock(s) /\ row[s] \in SignalRow
    BY DEF Uncommitted, RowLocks, TypeOK
  <1>2. CASE row' = RolledBack(t)
    BY <1>1, <1>2 DEF RolledBack, SignalRow
  <1>3. CASE row' = Committed(t) /\ row[s].lock # t
    BY <1>3 DEF Committed
  <1>4. CASE row' = Committed(t) /\ t \in Scanners /\ row[s].lock = t
    <2>1. row[s].next = "DISMISSED"
      BY <1>1, <1>4 DEF RowLock
    <2> QED BY <1>1, <1>4, <2>1 DEF Committed, SignalRow
  <1> QED BY <1>2, <1>3, <1>4

\* A scan sees a settled signal as dismissed, even one it has refreshed.
LEMMA SettledSeen ==
    ASSUME Uncommitted, NEW t \in Scanners, NEW s \in SignalIds,
           row[s].status = "DISMISSED"
    PROVE  Visible(t, s) = "DISMISSED"
  BY DEF Uncommitted, RowLocks, RowLock, Visible

LEMMA SettledCheck ==
    ASSUME TypeOK, Uncommitted, SettledInv, NEW t \in Scanners,
           CheckDismissed(t)
    PROVE  SettledInv'
  <1>1. UNCHANGED <<row, settled>> /\ \A v \in Scanners \ {t} : scan'[v] = scan[v]
    BY DEF CheckDismissed, CandidateDone, TypeOK
  <1>2. CASE scan'[t].pc # "insert"
    <2>1. \A v \in Scanners : settled'[v] \subseteq settled[v]
      BY <1>1
    <2>2. \A v \in Scanners : \A s \in settled'[v] :
             row'[s].status = "DISMISSED" /\ row'[s].pair = row[s].pair
      BY <1>1 DEF SettledInv
    <2> QED BY <1>1, <1>2, <2>1, <2>2, SettledKept
  <1>3. CASE scan'[t].pc = "insert"
    <2>1. DismissedSignals(t, <<scan[t].cursor, scan[t].entity>>) = {}
      BY <1>3 DEF CheckDismissed, CandidateDone, Between, At, TypeOK
    <2>2. scan'[t].cursor = scan[t].cursor /\ scan'[t].entity = scan[t].entity
      BY <1>3 DEF CheckDismissed, CandidateDone, Between, At, TypeOK, ScanState
    <2>3. \A s \in settled[t] : row[s].pair # <<scan[t].cursor, scan[t].entity>>
      BY <2>1, SettledSeen DEF DismissedSignals, SettledInv, TypeOK
    <2> QED BY <1>1, <2>2, <2>3 DEF SettledInv, SettledDismissalRespected
  <1> QED BY <1>2, <1>3

\* Steps that leave rows and settled signals alone, and begin no insert.
LEMMA SettledIdle ==
    ASSUME SettledInv, UNCHANGED <<row, settled>>,
           \A v \in Scanners : scan'[v] = scan[v] \/ scan'[v].pc # "insert"
    PROVE  SettledInv'
  <1>1. \A v \in Scanners : \A s \in settled'[v] :
           row'[s].status = "DISMISSED" /\ row'[s].pair = row[s].pair
    BY DEF SettledInv
  <1> QED BY <1>1, SettledKept

LEMMA SettledStep ==
    TypeOK /\ Uncommitted /\ SettledInv /\ [Next]_vars => SettledInv'
  <1> SUFFICES ASSUME TypeOK, Uncommitted, SettledInv, [Next]_vars
               PROVE  SettledInv'
    OBVIOUS
  <1>1. ASSUME NEW t \in Scanners, BeginScan(t) PROVE SettledInv'
    <2>1. /\ UNCHANGED row
          /\ scan'[t].pc = "select_rule"
          /\ settled'[t] = {s \in SignalIds : row[s].status = "DISMISSED"}
          /\ \A v \in Scanners \ {t} : scan'[v] = scan[v] /\ settled'[v] = settled[v]
      BY <1>1 DEF BeginScan, TypeOK, ScanState
    <2> QED BY <2>1 DEF SettledInv, SettledDismissalRespected
  <1>2. ASSUME NEW t \in Scanners,
               \/ SelectRule(t) \/ SeedRule(t) \/ EvaluateRule(t)
               \/ RuleDone(t) \/ SelectLiveSignal(t) \/ RecoverWinner(t)
        PROVE  SettledInv'
    <2>1. UNCHANGED <<row, settled>>
      BY <1>2 DEF SelectRule, SeedRule, EvaluateRule, RuleDone,
                  SelectLiveSignal, RecoverWinner
    <2>2. \A v \in Scanners : scan'[v] = scan[v] \/ scan'[v].pc # "insert"
      <3>1. CASE SelectRule(t)
        BY <3>1 DEF SelectRule, RuleInHand, Between, At, TypeOK, ScanState
      <3>2. CASE SeedRule(t)
        BY <3>2 DEF SeedRule, RuleInHand, Between, At, TypeOK, ScanState
      <3>3. CASE EvaluateRule(t)
        <4>1. CASE scan' = [scan EXCEPT ![t].cursor = scan[t].cursor + 1]
          BY <3>3, <4>1 DEF EvaluateRule, TypeOK, ScanState
        <4>2. CASE \E found \in SUBSET Entities : scan' = [scan EXCEPT ![t] =
                      Between("next_candidate", scan[t].cursor, found)]
          BY <4>2 DEF Between, At, TypeOK
        <4> QED BY <3>3, <4>1, <4>2 DEF EvaluateRule
      <3>4. CASE RuleDone(t)
        BY <3>4 DEF RuleDone, Between, At, TypeOK
      <3>5. CASE SelectLiveSignal(t)
        BY <3>5 DEF SelectLiveSignal, At, TypeOK
      <3>6. CASE RecoverWinner(t)
        BY <3>6 DEF RecoverWinner, CandidateDone, Between, At, TypeOK
      <3> QED BY <1>2, <3>1, <3>2, <3>3, <3>4, <3>5, <3>6
    <2> QED BY <2>1, <2>2, SettledIdle
  <1>3. ASSUME NEW t \in Scanners, CheckDismissed(t) PROVE SettledInv'
    BY <1>3, SettledCheck
  <1>4. ASSUME NEW t \in Scanners, RefreshSignal(t) \/ InsertSignal(t)
        PROVE  SettledInv'
    <2>1. UNCHANGED settled
          /\ \A v \in Scanners : scan'[v] = scan[v] \/ scan'[v].pc # "insert"
      BY <1>4 DEF RefreshSignal, InsertSignal, CandidateDone, Between, At, TypeOK, ScanState
    <2>2. \A s \in SignalIds : row[s].status = "DISMISSED" =>
             row'[s].status = "DISMISSED" /\ row'[s].pair = row[s].pair
      BY <1>4 DEF RefreshSignal, Refreshed, InsertSignal, AbsentRow, TypeOK, SignalRow
    <2>3. \A v \in Scanners : \A s \in settled'[v] :
             row'[s].status = "DISMISSED" /\ row'[s].pair = row[s].pair
      BY <2>1, <2>2 DEF SettledInv, TypeOK
    <2> QED BY <2>1, <2>3, SettledKept
  <1>5. ASSUME NEW t \in Scanners,
               \/ RecoverFails(t) \/ CommitScan(t)
               \/ CommitListing(t) \/ CrashScan(t)
        PROVE  SettledInv'
    <2>1. /\ row' = RolledBack(t) \/ row' = Committed(t) \/ row' = row
          /\ EndScan(t)
      BY <1>5 DEF RecoverFails, CommitScan, CommitListing, CrashScan, RollBackScan
    <2>2. \A v \in Scanners : settled'[v] \subseteq settled[v]
      BY <2>1 DEF EndScan, TypeOK
    <2>3. \A v \in Scanners : scan'[v] = scan[v] \/ scan'[v].pc # "insert"
      BY <2>1 DEF EndScan, IdleScan, Between, At, TypeOK
    <2>4. \A v \in Scanners : \A s \in settled'[v] :
             row'[s].status = "DISMISSED" /\ row'[s].pair = row[s].pair
      <3> SUFFICES ASSUME NEW v \in Scanners, NEW s \in settled'[v]
                   PROVE  row'[s].status = "DISMISSED" /\ row'[s].pair = row[s].pair
        OBVIOUS
      <3>1. s \in SignalIds /\ row[s].status = "DISMISSED" /\ t \in Txs
        BY <2>2 DEF SettledInv, TypeOK, Txs
      <3>2. CASE row' = row
        BY <3>1, <3>2
      <3>3. CASE row' = RolledBack(t) \/ row' = Committed(t)
        BY <3>1, <3>3, EndKeepsDismissed
      <3> QED BY <2>1, <3>2, <3>3
    <2> QED BY <2>2, <2>3, <2>4, SettledKept
  <1>6. ASSUME NEW u \in Users, LoadSignal(u) \/ FlushStatus(u) \/ WriteStatus(u)
        PROVE  SettledInv'
    <2>1. UNCHANGED <<settled, scan>>
      BY <1>6 DEF LoadSignal, FlushStatus, WriteStatus
    <2>2. \A s \in SignalIds : row[s].status = "DISMISSED" =>
             row'[s].status = "DISMISSED" /\ row'[s].pair = row[s].pair
      <3>1. CASE row' = RolledBack(u)
        BY <3>1, EndKeepsDismissed DEF Txs
      <3>2. CASE LoadSignal(u) \/ FlushStatus(u)
        BY <3>2 DEF LoadSignal, FlushStatus, TypeOK, SignalRow
      <3>3. CASE row' = [row EXCEPT ![triage[u].signal].next = triage[u].new]
        BY <3>3 DEF TypeOK, SignalRow
      <3> QED BY <1>6, <3>1, <3>2, <3>3 DEF WriteStatus
    <2>3. \A v \in Scanners : \A s \in settled'[v] :
             row'[s].status = "DISMISSED" /\ row'[s].pair = row[s].pair
      BY <2>1, <2>2 DEF SettledInv, TypeOK
    <2> QED BY <2>1, <2>3, SettledKept
  <1>7. ASSUME NEW u \in Users, CommitTriage(u) \/ CrashTriage(u)
        PROVE  SettledInv'
    <2>1. UNCHANGED scan /\ \A v \in Scanners : settled'[v] \subseteq settled[v]
      BY <1>7 DEF CommitTriage, CrashTriage
    <2>2. \A v \in Scanners : \A s \in settled'[v] :
             row'[s].status = "DISMISSED" /\ row'[s].pair = row[s].pair
      <3>1. CASE CommitTriage(u)
        <4> SUFFICES ASSUME NEW v \in Scanners, NEW s \in settled'[v]
                     PROVE  row'[s].status = "DISMISSED" /\ row'[s].pair = row[s].pair
          OBVIOUS
        <4>1. s \in settled[v] /\ s \in SignalIds /\ s # triage[u].signal
          BY <3>1 DEF CommitTriage, TypeOK
        <4>2. row[s].lock # u
          BY <4>1 DEF Uncommitted, RowLocks, RowLock
        <4> QED BY <3>1, <4>1, <4>2, EndKeepsDismissed DEF CommitTriage, SettledInv, Txs
      <3>2. CASE CrashTriage(u)
        BY <2>1, <3>2, EndKeepsDismissed DEF CrashTriage, SettledInv, TypeOK, Txs
      <3> QED BY <1>7, <3>1, <3>2
    <2> QED BY <2>1, <2>2, SettledKept
  <1>8. ASSUME NEW r \in Rules, UpdateRule(r) PROVE SettledInv'
    BY <1>8, SettledIdle DEF UpdateRule
  <1>9. CASE UNCHANGED vars
    BY <1>9, SettledIdle DEF vars
  <1> QED
    BY <1>1, <1>2, <1>3, <1>4, <1>5, <1>6, <1>7, <1>8, <1>9
       DEF Next, ScanStep, TriageStep

\* A scan never re-creates a signal that was dismissed before it began and has
\* not been touched since: what it would insert beside is still dismissed, and
\* upsert_signal's second query sees it.
THEOREM DismissalRespected == Spec => []SettledDismissalRespected
  <1>1. Init => SettledInv
    BY DEF Init, SettledInv, SettledDismissalRespected, IdleScan, Between, At
  <1>2. SettledInv => SettledDismissalRespected
    BY DEF SettledInv
  <1> QED
    BY <1>1, <1>2, TypeInit, TypeStep, RowsInit, RowsStep, SettledStep, PTL
       DEF Spec

-----------------------------------------------------------------------------
(***************************************************************************)
(* What a status change is, and what a new signal is.                      *)
(***************************************************************************)

\* The end of a scan, committed or not, changes no status that was there.
LEMMA ScanKeepsStatus ==
    ASSUME TypeOK, Uncommitted, NEW t \in Scanners, NEW s \in SignalIds,
           row[s].status # "ABSENT",
           row' = Committed(t) \/ row' = RolledBack(t)
    PROVE  row'[s].status = row[s].status
  BY CommittedRow, RolledBackRow DEF Uncommitted, RowLocks, RowLock

\* Only a user's commit changes the status of a signal that is there: a scan
\* rewrites what it read as live with the status left alone
\* (upsert_signal, update_signal_status).
THEOREM OnlyTriageChangesStatus == Spec => TriageIsUsersAlone
  <1> DEFINE Act == \A s \in SignalIds :
                row[s].status # "ABSENT" /\ row'[s].status # row[s].status
                => \E u \in Users : triage[u].signal = s /\ CommitTriage(u)
  <1>1. TypeOK /\ ScansConsistent /\ Uncommitted /\ [Next]_vars => [Act]_vars
    <2> SUFFICES ASSUME TypeOK, ScansConsistent, Uncommitted, [Next]_vars,
                        NEW s \in SignalIds,
                        row[s].status # "ABSENT", row'[s].status # row[s].status
                 PROVE  \E u \in Users : triage[u].signal = s /\ CommitTriage(u)
      OBVIOUS
    <2>1. ASSUME NEW t \in Scanners, BeginScan(t) \/ ScanStep(t) \/ CrashScan(t)
          PROVE  FALSE
      <3>1. CASE RefreshSignal(t)
        BY <3>1 DEF RefreshSignal, Refreshed, TypeOK, SignalRow
      <3>2. CASE InsertSignal(t)
        BY <3>2 DEF InsertSignal, AbsentRow, TypeOK
      <3>3. CASE RecoverFails(t) \/ CommitScan(t) \/ CrashScan(t)
        BY <3>3, ScanKeepsStatus DEF RecoverFails, CommitScan, CrashScan, RollBackScan
      <3> QED
        BY <2>1, <3>1, <3>2, <3>3
           DEF BeginScan, ScanStep, SelectRule, SeedRule, EvaluateRule, RuleDone,
               SelectLiveSignal, CheckDismissed, RecoverWinner, CommitListing
    <2>2. ASSUME NEW u \in Users, LoadSignal(u) \/ FlushStatus(u) \/ WriteStatus(u)
                                  \/ CrashTriage(u)
          PROVE  FALSE
      <3>1. CASE row' = RolledBack(u)
        BY <3>1, RolledBackRow
      <3>2. CASE LoadSignal(u) \/ FlushStatus(u)
        BY <3>2 DEF LoadSignal, FlushStatus, TypeOK, SignalRow
      <3>3. CASE row' = [row EXCEPT ![triage[u].signal].next = triage[u].new]
        BY <3>3 DEF TypeOK, SignalRow
      <3> QED BY <2>2, <3>1, <3>2, <3>3 DEF WriteStatus, CrashTriage
    <2>3. ASSUME NEW u \in Users, CommitTriage(u) PROVE triage[u].signal = s
      <3>1. row[s].lock = u
        BY <2>3, CommittedRow DEF CommitTriage
      <3> QED BY <3>1 DEF Uncommitted, RowLocks, RowLock
    <2>4. ASSUME NEW r \in Rules, UpdateRule(r) PROVE FALSE
      BY <2>4 DEF UpdateRule
    <2>5. CASE UNCHANGED vars
      BY <2>5 DEF vars
    <2> QED BY <2>1, <2>2, <2>3, <2>4, <2>5 DEF Next, TriageStep
  <1>2. Init /\ [][Next]_vars => [](TypeOK /\ ScansConsistent /\ Uncommitted)
    BY TypeInit, TypeStep, RowsInit, RowsStep, PTL
  <1> QED BY <1>1, <1>2, PTL DEF Spec, TriageIsUsersAlone

CandidatePCs == {"next_candidate"} \union InHandPCs

\* A scan past the evaluation of its first rule: the only ones with rows of their own.
Busy(t) == \/ scan[t].pc \in CandidatePCs
           \/ scan[t].pc = "next_rule" /\ scan[t].cursor > 1

\* A rule under evaluation is active, and so is the rule of a signal that is inserted and
\* not committed.
EvaluatedActive ==
    \A t \in Scanners : scan[t].pc \in CandidatePCs => rule[scan[t].cursor].active

InsertActive(s, t) ==
    row[s].status = "ABSENT" /\ row[s].lock = t =>
        Busy(t) /\ row[s].pair \in Pairs /\ rule[row[s].pair[1]].active

ActiveInv == EvaluatedActive /\ \A s \in SignalIds, t \in Scanners : InsertActive(s, t)

\* A scan that upserts holds every rule row, so no step switches one on or off.
LEMMA HeldActive ==
    ASSUME TypeOK, ScansConsistent, RuleLocks, [Next]_vars,
           NEW t \in Scanners, scan[t].pc \in UpsertPCs, NEW r \in Rules
    PROVE  rule'[r].active = rule[r].active
  <1>1. rule[r].lock = t /\ t # NoTx /\ rule[r].state # "absent"
    BY TxsDistinct DEF RuleLocks
  <1>2. ASSUME NEW v \in Scanners, SelectRule(v) \/ SeedRule(v)
        PROVE  rule'[r].active = rule[r].active
    BY <1>1, <1>2 DEF SelectRule, SeedRule, TypeOK, RuleRow
  <1>3. ASSUME NEW v, rule' = CommittedRules(v) \/ rule' = RolledBackRules(v)
        PROVE  rule'[r].active = rule[r].active
    BY <1>3 DEF CommittedRules, RolledBackRules, TypeOK, RuleRow
  <1>4. ASSUME NEW q \in Rules, UpdateRule(q)
        PROVE  rule'[r].active = rule[r].active
    BY <1>1, <1>4 DEF UpdateRule, TypeOK
  <1> QED
    BY <1>2, <1>3, <1>4
       DEF Next, vars, BeginScan, ScanStep, EvaluateRule, RuleDone, SelectLiveSignal,
           RefreshSignal, CheckDismissed, InsertSignal, RecoverWinner, RecoverFails,
           RollBackScan, CommitScan, CommitListing, CrashScan, LoadSignal, TriageStep,
           FlushStatus, WriteStatus, CommitTriage, CrashTriage

\* ActiveInv is kept when scans evaluate active rules only and what is inserted belongs to
\* a busy scan and an active rule.
LEMMA ActiveKept ==
    ASSUME TypeOK, ScansConsistent, RuleLocks, [Next]_vars,
           \A t \in Scanners : scan'[t].pc \in CandidatePCs =>
              /\ scan[t].pc \in UpsertPCs /\ scan'[t].cursor \in Rules
              /\ rule[scan'[t].cursor].active,
           \A s \in SignalIds, t \in Scanners : row'[s].status = "ABSENT" /\ row'[s].lock = t =>
              /\ scan[t].pc \in UpsertPCs /\ Busy(t)'
              /\ row'[s].pair \in Pairs /\ rule[row'[s].pair[1]].active
    PROVE  ActiveInv'
  <1>1. EvaluatedActive'
    BY HeldActive DEF EvaluatedActive
  <1>2. ASSUME NEW s \in SignalIds, NEW t \in Scanners,
               row'[s].status = "ABSENT", row'[s].lock = t
        PROVE  Busy(t)' /\ row'[s].pair \in Pairs /\ rule'[row'[s].pair[1]].active
    <2>1. row'[s].pair[1] \in Rules
      BY <1>2 DEF Pairs
    <2> QED BY <1>2, <2>1, HeldActive
  <1>3. \A s \in SignalIds, t \in Scanners : InsertActive(s, t)'
    BY <1>2 DEF InsertActive
  <1> QED BY <1>1, <1>3 DEF ActiveInv

LEMMA BusyUpserts ==
    ASSUME TypeOK, ScansConsistent, NEW t \in Scanners
    PROVE  /\ Busy(t) => scan[t].pc \in UpsertPCs
           /\ scan[t].pc \in CandidatePCs => scan[t].cursor \in Rules /\ Busy(t)
  BY DEF Busy, CandidatePCs, InHandPCs, UpsertPCs, ScansConsistent, Consistent

\* A scan moves and no row changes.
LEMMA ActiveScanMove ==
    ASSUME TypeOK, ScansConsistent, RuleLocks, ActiveInv, [Next]_vars, UNCHANGED row,
           NEW t \in Scanners, \A v \in Scanners \ {t} : scan'[v] = scan[v],
           Busy(t) => Busy(t)',
           scan'[t].pc \in CandidatePCs =>
              /\ scan[t].pc \in UpsertPCs /\ scan'[t].cursor \in Rules
              /\ rule[scan'[t].cursor].active
    PROVE  ActiveInv'
  <1>1. \A v \in Scanners : scan'[v].pc \in CandidatePCs =>
           /\ scan[v].pc \in UpsertPCs /\ scan'[v].cursor \in Rules
           /\ rule[scan'[v].cursor].active
    BY BusyUpserts DEF ActiveInv, EvaluatedActive
  <1>2. \A v \in Scanners : Busy(v) => scan[v].pc \in UpsertPCs /\ Busy(v)'
    BY BusyUpserts DEF Busy
  <1>3. \A s \in SignalIds, v \in Scanners : row'[s].status = "ABSENT" /\ row'[s].lock = v =>
           /\ scan[v].pc \in UpsertPCs /\ Busy(v)'
           /\ row'[s].pair \in Pairs /\ rule[row'[s].pair[1]].active
    BY <1>2 DEF ActiveInv, InsertActive
  <1> QED BY <1>1, <1>3, ActiveKept

\* Rows change and no scan moves.
LEMMA ActiveRowsMove ==
    ASSUME TypeOK, ScansConsistent, RuleLocks, ActiveInv, [Next]_vars, UNCHANGED scan,
           \A s \in SignalIds : row'[s].status = "ABSENT" /\ row'[s].lock \in Scanners =>
              /\ row[s].status = "ABSENT" /\ row'[s].lock = row[s].lock
              /\ row'[s].pair = row[s].pair
    PROVE  ActiveInv'
  <1>1. \A v \in Scanners : scan'[v].pc \in CandidatePCs =>
           /\ scan[v].pc \in UpsertPCs /\ scan'[v].cursor \in Rules
           /\ rule[scan'[v].cursor].active
    BY BusyUpserts DEF ActiveInv, EvaluatedActive
  <1>2. \A v \in Scanners : Busy(v) => scan[v].pc \in UpsertPCs /\ Busy(v)'
    BY BusyUpserts DEF Busy
  <1>3. \A s \in SignalIds, v \in Scanners : row'[s].status = "ABSENT" /\ row'[s].lock = v =>
           /\ scan[v].pc \in UpsertPCs /\ Busy(v)'
           /\ row'[s].pair \in Pairs /\ rule[row'[s].pair[1]].active
    BY <1>2 DEF ActiveInv, InsertActive
  <1> QED BY <1>1, <1>3, ActiveKept

\* A scan that ends has no row left.
LEMMA ActiveScanEnd ==
    ASSUME TypeOK, ScansConsistent, RuleLocks, Uncommitted, ActiveInv, [Next]_vars,
           NEW t \in Scanners, EndScan(t), row' = Committed(t) \/ row' = RolledBack(t)
    PROVE  ActiveInv'
  <1>1. scan'[t].pc = "idle" /\ \A v \in Scanners \ {t} : scan'[v] = scan[v]
    BY DEF EndScan, IdleScan, Between, At, TypeOK
  <1>2. \A v \in Scanners : scan'[v].pc \in CandidatePCs =>
           /\ scan[v].pc \in UpsertPCs /\ scan'[v].cursor \in Rules
           /\ rule[scan'[v].cursor].active
    BY <1>1, BusyUpserts DEF ActiveInv, EvaluatedActive, CandidatePCs, InHandPCs
  <1>3. ASSUME NEW s \in SignalIds, NEW v \in Scanners,
               row'[s].status = "ABSENT", row'[s].lock = v
        PROVE  /\ scan[v].pc \in UpsertPCs /\ Busy(v)'
               /\ row'[s].pair \in Pairs /\ rule[row'[s].pair[1]].active
    <2>1. v # t /\ row'[s] = row[s]
      BY <1>3, CommittedRow, RolledBackRow, TxsDistinct
    <2>2. Busy(v) /\ row[s].pair \in Pairs /\ rule[row[s].pair[1]].active
      BY <1>3, <2>1 DEF ActiveInv, InsertActive
    <2>3. scan[v].pc \in UpsertPCs /\ Busy(v)'
      BY <1>1, <1>3, <2>1, <2>2, BusyUpserts DEF Busy
    <2> QED BY <2>1, <2>2, <2>3
  <1> QED BY <1>2, <1>3, ActiveKept

\* A scan with a candidate in hand finishes it.
LEMMA ActiveCandidateDone ==
    ASSUME TypeOK, ScansConsistent, ActiveInv, NEW t \in Scanners, CandidateDone(t),
           scan[t].pc \in InHandPCs
    PROVE  /\ Busy(t)' /\ scan[t].pc \in UpsertPCs /\ scan'[t].cursor = scan[t].cursor
           /\ scan[t].cursor \in Rules /\ rule[scan[t].cursor].active
           /\ \A v \in Scanners \ {t} : scan'[v] = scan[v]
  <1>1. scan'[t].pc = "next_candidate" /\ scan'[t].cursor = scan[t].cursor
    BY DEF CandidateDone, Between, At, TypeOK
  <1>2. scan[t].pc \in CandidatePCs
    BY DEF CandidatePCs
  <1> QED
    BY <1>1, <1>2, BusyUpserts
       DEF Busy, CandidatePCs, ActiveInv, EvaluatedActive, CandidateDone, TypeOK

\* Steps other than the end of a scan keep the rows that scans have locked, and no step
\* takes a committed signal away.
LEMMA RowStays ==
    ASSUME TypeOK, ScansConsistent, Uncommitted, [Next]_vars, NEW s \in SignalIds
    PROVE  /\ row[s].status # "ABSENT" => row'[s].status # "ABSENT"
           /\ \A t \in Scanners :
                row[s].lock = t => row'[s].lock = t \/ scan'[t].pc = "idle"
  <1> DEFINE Goal == /\ row[s].status # "ABSENT" => row'[s].status # "ABSENT"
                     /\ \A t \in Scanners :
                          row[s].lock = t => row'[s].lock = t \/ scan'[t].pc = "idle"
  <1>1. RowLock(s)
    BY DEF Uncommitted, RowLocks
  <1>2. ASSUME NEW t \in Scanners, RecoverFails(t) \/ CommitScan(t) \/ CrashScan(t)
        PROVE  Goal
    <2>1. (row' = Committed(t) \/ row' = RolledBack(t)) /\ scan'[t].pc = "idle"
      BY <1>2 DEF RecoverFails, CommitScan, CrashScan, RollBackScan, EndScan, IdleScan,
                  Between, At, TypeOK
    <2> QED BY <1>1, <2>1, CommittedRow, RolledBackRow DEF RowLock
  <1>3. ASSUME NEW u \in Users, row' = Committed(u) \/ row' = RolledBack(u) PROVE Goal
    BY <1>1, <1>3, CommittedRow, RolledBackRow, TxsDistinct DEF RowLock
  <1>4. ASSUME NEW t \in Scanners, RefreshSignal(t) PROVE Goal
    BY <1>4, TxsDistinct DEF RefreshSignal, Refreshed, TypeOK, SignalRow
  <1>5. ASSUME NEW t \in Scanners, InsertSignal(t) PROVE Goal
    BY <1>5, TxsDistinct DEF InsertSignal, AbsentRow, TypeOK, SignalRow
  <1>6. ASSUME NEW u \in Users, LoadSignal(u) \/ FlushStatus(u) PROVE Goal
    BY <1>6, TxsDistinct DEF LoadSignal, FlushStatus, TypeOK, SignalRow
  <1>7. ASSUME NEW u \in Users, row' = [row EXCEPT ![triage[u].signal].next = triage[u].new]
        PROVE  Goal
    BY <1>7 DEF TypeOK, SignalRow
  <1>8. CASE UNCHANGED row
    BY <1>8
  <1> QED
    BY <1>2, <1>3, <1>4, <1>5, <1>6, <1>7, <1>8
       DEF Next, vars, BeginScan, ScanStep, SelectRule, SeedRule, EvaluateRule, RuleDone,
           SelectLiveSignal, CheckDismissed, RecoverWinner, CommitListing, TriageStep,
           WriteStatus, CommitTriage, CrashTriage, UpdateRule

\* What a scan refreshes is committed, or its own.
TargetThere ==
    \A t \in Scanners : scan[t].pc = "refresh" =>
        row[scan[t].target].status # "ABSENT" \/ row[scan[t].target].lock = t

LEMMA TargetStep ==
    TypeOK /\ ScansConsistent /\ Uncommitted /\ TargetThere /\ [Next]_vars => TargetThere'
  <1> SUFFICES ASSUME TypeOK, ScansConsistent, Uncommitted, TargetThere, [Next]_vars,
                      NEW v \in Scanners, scan'[v].pc = "refresh"
               PROVE  \/ row'[scan'[v].target].status # "ABSENT"
                      \/ row'[scan'[v].target].lock = v
    BY DEF TargetThere
  <1>1. CASE SelectLiveSignal(v)
    <2>1. PICK s \in SignalIds : Visible(v, s) \in Live /\ scan'[v].target = s
      BY <1>1 DEF SelectLiveSignal, LiveSignals, At, TypeOK
    <2>2. row[s].status # "ABSENT" \/ row[s].lock = v
      BY <2>1 DEF Visible, Live
    <2> QED BY <1>1, <2>1, <2>2 DEF SelectLiveSignal
  <1>2. CASE scan'[v] = scan[v]
    <2>1. scan[v].target \in SignalIds
      BY <1>2 DEF ScansConsistent, Consistent
    <2> QED BY <1>2, <2>1, RowStays DEF TargetThere
  <1>3. ASSUME NEW t \in Scanners, BeginScan(t) \/ ScanStep(t) \/ CrashScan(t), t # v
        PROVE  scan'[v] = scan[v]
    BY <1>3 DEF BeginScan, ScanStep, SelectRule, SeedRule, RuleInHand, EvaluateRule,
                RuleDone, SelectLiveSignal, RefreshSignal, CheckDismissed, InsertSignal,
                CandidateDone, RecoverWinner, RecoverFails, CommitScan, CommitListing,
                CrashScan, RollBackScan, EndScan, TypeOK
  <1>4. BeginScan(v) \/ ScanStep(v) \/ CrashScan(v) => SelectLiveSignal(v)
    <2>1. ~(BeginScan(v) \/ SelectRule(v) \/ SeedRule(v))
      BY DEF BeginScan, SelectRule, SeedRule, RuleInHand, Between, At, TypeOK, ScanState
    <2>2. ~EvaluateRule(v)
      <3>1. CASE scan' = [scan EXCEPT ![v].cursor = scan[v].cursor + 1]
        BY <3>1 DEF EvaluateRule, TypeOK, ScanState
      <3>2. CASE \E found \in SUBSET Entities : scan' = [scan EXCEPT ![v] =
                    Between("next_candidate", scan[v].cursor, found)]
        BY <3>2 DEF Between, At, TypeOK
      <3> QED BY <3>1, <3>2 DEF EvaluateRule
    <2>3. ~(RuleDone(v) \/ RefreshSignal(v) \/ RecoverWinner(v))
      BY DEF RuleDone, RefreshSignal, RecoverWinner, CandidateDone, Between, At, TypeOK
    <2>4. ~(CheckDismissed(v) \/ InsertSignal(v))
      BY DEF CheckDismissed, InsertSignal, CandidateDone, Between, At, TypeOK, ScanState
    <2>5. ~(RecoverFails(v) \/ CommitScan(v) \/ CommitListing(v) \/ CrashScan(v))
      BY DEF RecoverFails, CommitScan, CommitListing, CrashScan, RollBackScan, EndScan,
             IdleScan, Between, At, TypeOK
    <2> QED BY <2>1, <2>2, <2>3, <2>4, <2>5 DEF ScanStep
  <1>5. ASSUME NEW u \in Users, LoadSignal(u) \/ TriageStep(u) \/ CrashTriage(u)
        PROVE  scan'[v] = scan[v]
    BY <1>5 DEF LoadSignal, TriageStep, FlushStatus, WriteStatus, CommitTriage, CrashTriage
  <1>6. ASSUME NEW r \in Rules, UpdateRule(r) PROVE scan'[v] = scan[v]
    BY <1>6 DEF UpdateRule
  <1>7. CASE UNCHANGED vars
    BY <1>2, <1>7 DEF vars
  <1> QED BY <1>1, <1>2, <1>3, <1>4, <1>5, <1>6, <1>7 DEF Next

\* A step that writes one row and finishes the candidate of t.
LEMMA ActiveCandidate ==
    ASSUME TypeOK, ScansConsistent, RuleLocks, ActiveInv, [Next]_vars,
           NEW t \in Scanners, CandidateDone(t), scan[t].pc \in InHandPCs,
           NEW w \in SignalIds, \A q \in SignalIds \ {w} : row'[q] = row[q],
           row'[w].status = "ABSENT" =>
              /\ row'[w].lock = t /\ row'[w].pair \in Pairs
              /\ rule[row'[w].pair[1]].active
    PROVE  ActiveInv'
  <1>1. /\ Busy(t)' /\ scan[t].pc \in UpsertPCs /\ scan'[t].cursor = scan[t].cursor
        /\ scan[t].cursor \in Rules /\ rule[scan[t].cursor].active
        /\ \A v \in Scanners \ {t} : scan'[v] = scan[v]
    BY ActiveCandidateDone
  <1>2. \A v \in Scanners : scan'[v].pc \in CandidatePCs =>
           /\ scan[v].pc \in UpsertPCs /\ scan'[v].cursor \in Rules
           /\ rule[scan'[v].cursor].active
    BY <1>1, BusyUpserts DEF ActiveInv, EvaluatedActive
  <1>3. \A v \in Scanners : Busy(v) => scan[v].pc \in UpsertPCs /\ Busy(v)'
    BY <1>1, BusyUpserts DEF Busy
  <1>4. \A s \in SignalIds, v \in Scanners : row'[s].status = "ABSENT" /\ row'[s].lock = v =>
           /\ scan[v].pc \in UpsertPCs /\ Busy(v)'
           /\ row'[s].pair \in Pairs /\ rule[row'[s].pair[1]].active
    BY <1>1, <1>3 DEF ActiveInv, InsertActive
  <1> QED BY <1>2, <1>4, ActiveKept

LEMMA ActiveStep ==
    TypeOK /\ ScansConsistent /\ RuleLocks /\ Uncommitted /\ TargetThere /\ ActiveInv
      /\ [Next]_vars => ActiveInv'
  <1> SUFFICES ASSUME TypeOK, ScansConsistent, RuleLocks, Uncommitted, TargetThere,
                      ActiveInv, [Next]_vars
               PROVE  ActiveInv'
    OBVIOUS
  <1>1. ASSUME NEW t \in Scanners, BeginScan(t) \/ SelectRule(t) \/ SeedRule(t)
        PROVE  ActiveInv'
    <2>1. UNCHANGED row /\ \A v \in Scanners \ {t} : scan'[v] = scan[v]
      BY <1>1 DEF BeginScan, SelectRule, SeedRule, RuleInHand, TypeOK
    <2>2. ~Busy(t)
      BY <1>1 DEF BeginScan, SelectRule, SeedRule, Busy, CandidatePCs, InHandPCs
    <2>3. scan'[t].pc \notin CandidatePCs
      BY <1>1 DEF BeginScan, SelectRule, SeedRule, RuleInHand, Between, At, TypeOK,
                  ScanState, CandidatePCs, InHandPCs
    <2> QED BY <2>1, <2>2, <2>3, ActiveScanMove
  <1>2. ASSUME NEW t \in Scanners, EvaluateRule(t) PROVE ActiveInv'
    <2> DEFINE r == scan[t].cursor
    <2>1. r \in Rules /\ scan[t].pc \in UpsertPCs
      BY <1>2 DEF EvaluateRule, TypeOK, ScanState, Rules, UpsertPCs
    <2>2. UNCHANGED row /\ \A v \in Scanners \ {t} : scan'[v] = scan[v]
      BY <1>2 DEF EvaluateRule, TypeOK
    <2>3. CASE scan' = [scan EXCEPT ![t].cursor = r + 1]
      <3>1. scan'[t].pc = "next_rule" /\ scan'[t].cursor > 1
        BY <1>2, <2>1, <2>3, NumRulesAssumption DEF EvaluateRule, TypeOK, ScanState, Rules
      <3> QED BY <2>2, <3>1, ActiveScanMove DEF Busy, CandidatePCs, InHandPCs
    <2>4. ASSUME rule[r].active, NEW found \in SUBSET Entities,
                 scan' = [scan EXCEPT ![t] = Between("next_candidate", r, found)]
          PROVE  ActiveInv'
      <3>1. scan'[t].pc = "next_candidate" /\ scan'[t].cursor = r
        BY <2>4 DEF Between, At, TypeOK
      <3>2. Busy(t)'
        BY <3>1 DEF Busy, CandidatePCs
      <3> QED BY <2>1, <2>2, <2>4, <3>1, <3>2, ActiveScanMove
    <2> QED BY <1>2, <2>3, <2>4 DEF EvaluateRule
  <1>3. ASSUME NEW t \in Scanners, RuleDone(t) PROVE ActiveInv'
    <2>1. scan'[t].pc = "next_rule" /\ scan'[t].cursor > 1
      BY <1>3, NumRulesAssumption
         DEF RuleDone, Between, At, TypeOK, ScansConsistent, Consistent, Rules
    <2>2. UNCHANGED row /\ \A v \in Scanners \ {t} : scan'[v] = scan[v]
      BY <1>3 DEF RuleDone, TypeOK
    <2> QED BY <2>1, <2>2, ActiveScanMove DEF Busy, CandidatePCs, InHandPCs
  <1>4. ASSUME NEW t \in Scanners, SelectLiveSignal(t) PROVE ActiveInv'
    <2>1. scan[t].pc \in CandidatePCs /\ scan[t].pc \in UpsertPCs
      BY <1>4 DEF SelectLiveSignal, CandidatePCs, UpsertPCs
    <2>2. scan[t].cursor \in Rules /\ rule[scan[t].cursor].active
      BY <2>1, BusyUpserts DEF ActiveInv, EvaluatedActive
    <2>3. scan'[t].pc \in InHandPCs /\ scan'[t].cursor = scan[t].cursor
      BY <1>4 DEF SelectLiveSignal, InHandPCs, At, TypeOK
    <2>4. UNCHANGED row /\ \A v \in Scanners \ {t} : scan'[v] = scan[v]
      BY <1>4 DEF SelectLiveSignal, TypeOK
    <2>5. Busy(t)'
      BY <2>3 DEF Busy, CandidatePCs
    <2> QED BY <2>1, <2>2, <2>3, <2>4, <2>5, ActiveScanMove
  <1>5. ASSUME NEW t \in Scanners, CandidateDone(t), scan[t].pc \in InHandPCs, UNCHANGED row
        PROVE  ActiveInv'
    BY <1>5, ActiveCandidateDone, ActiveScanMove
  <1>6. ASSUME NEW t \in Scanners, scan[t].pc \in InHandPCs, NEW pc \in InHandPCs,
               scan' = [scan EXCEPT ![t].pc = pc], UNCHANGED row
        PROVE  ActiveInv'
    <2>1. scan'[t].pc = pc /\ scan'[t].cursor = scan[t].cursor
      BY <1>6 DEF TypeOK, ScanState
    <2>2. scan[t].pc \in UpsertPCs /\ scan[t].cursor \in Rules /\ rule[scan[t].cursor].active
      BY <1>6, BusyUpserts DEF ActiveInv, EvaluatedActive, CandidatePCs, InHandPCs, UpsertPCs
    <2>3. Busy(t)'
      BY <2>1 DEF Busy, CandidatePCs
    <2>4. \A v \in Scanners \ {t} : scan'[v] = scan[v]
      BY <1>6 DEF TypeOK
    <2> QED BY <1>6, <2>1, <2>2, <2>3, <2>4, ActiveScanMove
  <1>7. ASSUME NEW t \in Scanners, CheckDismissed(t) PROVE ActiveInv'
    BY <1>5, <1>6, <1>7 DEF CheckDismissed, InHandPCs
  <1>8. ASSUME NEW t \in Scanners, RecoverWinner(t) PROVE ActiveInv'
    BY <1>5, <1>8 DEF RecoverWinner, InHandPCs
  <1>9. ASSUME NEW t \in Scanners, RefreshSignal(t) PROVE ActiveInv'
    <2> DEFINE w == scan[t].target
    <2>1. w \in SignalIds /\ scan[t].pc \in InHandPCs /\ CandidateDone(t)
      BY <1>9 DEF RefreshSignal, ScansConsistent, Consistent, InHandPCs
    <2>2. /\ row'[w].status = row[w].status /\ row'[w].pair = row[w].pair
          /\ row'[w].lock = t /\ \A q \in SignalIds \ {w} : row'[q] = row[q]
      BY <1>9, <2>1 DEF RefreshSignal, Refreshed, TypeOK, SignalRow
    <2>3. row[w].status = "ABSENT" =>
             row[w].pair \in Pairs /\ rule[row[w].pair[1]].active
      BY <1>9, <2>1 DEF RefreshSignal, TargetThere, ActiveInv, InsertActive
    <2> HIDE DEF w
    <2> QED BY <2>1, <2>2, <2>3, ActiveCandidate
  <1>10. ASSUME NEW t \in Scanners, InsertSignal(t) PROVE ActiveInv'
    <2>1. CASE UNCHANGED row
      BY <1>5, <1>6, <1>10, <2>1 DEF InsertSignal, InHandPCs
    <2>2. CASE ~UNCHANGED row
      <3> DEFINE p == <<scan[t].cursor, scan[t].entity>>
      <3>1. scan[t].pc \in InHandPCs /\ CandidateDone(t)
        BY <1>10, <2>2 DEF InsertSignal, InHandPCs
      <3>2. p \in Pairs /\ rule[p[1]].active
        BY <3>1, BusyUpserts
           DEF ActiveInv, EvaluatedActive, CandidatePCs, ScansConsistent, Consistent, Pairs
      <3>3. PICK w \in SignalIds :
               row' = [row EXCEPT ![w] = [pair |-> p, status |-> "ABSENT",
                                          next |-> "OPEN", lock |-> t]]
        BY <1>10, <2>2 DEF InsertSignal
      <3>4. /\ row'[w].lock = t /\ row'[w].pair = p
            /\ \A q \in SignalIds \ {w} : row'[q] = row[q]
        BY <3>3 DEF TypeOK
      <3> HIDE DEF p
      <3> QED BY <3>1, <3>2, <3>4, ActiveCandidate
    <2> QED BY <2>1, <2>2
  <1>11. ASSUME NEW t \in Scanners, RecoverFails(t) \/ CommitScan(t) \/ CrashScan(t)
         PROVE  ActiveInv'
    BY <1>11, ActiveScanEnd DEF RecoverFails, CommitScan, CrashScan, RollBackScan
  <1>12. ASSUME NEW t \in Scanners, CommitListing(t) PROVE ActiveInv'
    <2>1. ~Busy(t) /\ UNCHANGED row
      BY <1>12 DEF CommitListing, Busy, CandidatePCs, InHandPCs
    <2>2. scan'[t].pc = "idle" /\ \A v \in Scanners \ {t} : scan'[v] = scan[v]
      BY <1>12 DEF CommitListing, EndScan, IdleScan, Between, At, TypeOK
    <2> QED BY <2>1, <2>2, ActiveScanMove DEF CandidatePCs, InHandPCs
  <1>13. ASSUME NEW u \in Users, LoadSignal(u) \/ TriageStep(u) \/ CrashTriage(u)
         PROVE  ActiveInv'
    <2>1. UNCHANGED scan
      BY <1>13 DEF LoadSignal, TriageStep, FlushStatus, WriteStatus, CommitTriage, CrashTriage
    <2>2. ASSUME NEW s \in SignalIds, NEW t \in Scanners, row'[s].status = "ABSENT",
                 row'[s].lock = t
          PROVE  row[s].status = "ABSENT" /\ row'[s].lock = row[s].lock
                 /\ row'[s].pair = row[s].pair
      <3>1. CASE row' = Committed(u) \/ row' = RolledBack(u)
        BY <2>2, <3>1, CommittedRow, RolledBackRow, TxsDistinct
      <3>2. CASE LoadSignal(u) \/ FlushStatus(u)
        BY <2>2, <3>2, TxsDistinct DEF LoadSignal, FlushStatus, TypeOK, SignalRow
      <3>3. CASE row' = [row EXCEPT ![triage[u].signal].next = triage[u].new]
        BY <2>2, <3>3 DEF TypeOK, SignalRow
      <3> QED BY <1>13, <3>1, <3>2, <3>3 DEF TriageStep, WriteStatus, CommitTriage, CrashTriage
    <2> QED BY <2>1, <2>2, ActiveRowsMove
  <1>14. ASSUME NEW r \in Rules, UpdateRule(r) PROVE ActiveInv'
    BY <1>14, ActiveRowsMove DEF UpdateRule
  <1>15. CASE UNCHANGED vars
    BY <1>15, ActiveRowsMove DEF vars
  <1> QED
    BY <1>1, <1>2, <1>3, <1>4, <1>7, <1>8, <1>9, <1>10, <1>11, <1>12, <1>13, <1>14, <1>15
       DEF Next, ScanStep

\* A signal becomes visible only while its rule is active: the scan that inserted it read
\* is_active under the lock of the rule row, and holds that lock until its commit
\* (list_rules, run_attention_scan).
THEOREM InactiveStaysSilent == Spec => InactiveRuleSilent
  <1> DEFINE I == /\ TypeOK /\ ScansConsistent /\ RuleLocks /\ Uncommitted /\ OneClaim
                  /\ TargetThere /\ ActiveInv
  <1> DEFINE Act == \A s \in SignalIds, p \in Pairs :
                row[s].status = "ABSENT" /\ row'[s].status # "ABSENT"
                  /\ row'[s].pair = p
                => rule[p[1]].active /\ rule'[p[1]].active
  <1>1. Init => TargetThere /\ ActiveInv
    BY TxsDistinct
       DEF Init, TargetThere, ActiveInv, EvaluatedActive, InsertActive, CandidatePCs,
           InHandPCs, IdleScan, Between, At, AbsentRow
  <1>2. I /\ [Next]_vars => [Act]_vars
    <2> SUFFICES ASSUME I, [Next]_vars, NEW s \in SignalIds, NEW p \in Pairs,
                        row[s].status = "ABSENT", row'[s].status # "ABSENT",
                        row'[s].pair = p
                 PROVE  rule[p[1]].active /\ rule'[p[1]].active
      OBVIOUS
    <2>1. ASSUME NEW t \in Scanners, CommitScan(t)
          PROVE  rule[p[1]].active /\ rule'[p[1]].active
      <3>1. row[s].lock = t /\ row[s].pair = p
        BY <2>1, CommittedRow DEF CommitScan
      <3>2. rule[p[1]].active /\ Busy(t)
        BY <3>1 DEF ActiveInv, InsertActive
      <3>3. p[1] \in Rules /\ scan[t].pc \in UpsertPCs
        BY <3>2, BusyUpserts DEF Pairs
      <3> QED BY <3>2, <3>3, HeldActive
    <2>2. ASSUME NEW t \in Scanners, RecoverFails(t) \/ CrashScan(t) PROVE FALSE
      BY <2>2, RolledBackRow DEF RecoverFails, CrashScan, RollBackScan
    <2>3. ASSUME NEW t \in Scanners, RefreshSignal(t) \/ InsertSignal(t) PROVE FALSE
      <3>1. CASE RefreshSignal(t)
        BY <3>1 DEF RefreshSignal, Refreshed, TypeOK, SignalRow
      <3>2. CASE InsertSignal(t)
        BY <3>2 DEF InsertSignal, TypeOK, SignalRow
      <3> QED BY <2>3, <3>1, <3>2
    <2>4. ASSUME NEW u \in Users, CommitTriage(u) PROVE FALSE
      <3>1. row[s].lock = u
        BY <2>4, CommittedRow DEF CommitTriage
      <3>2. triage[u].signal = s /\ triage[u].pc # "idle"
        BY <3>1 DEF Uncommitted, RowLocks, RowLock, Writing
      <3> QED BY <3>2 DEF Uncommitted, TriagedExists
    <2>5. ASSUME NEW u \in Users, row' = RolledBack(u) PROVE FALSE
      BY <2>5, RolledBackRow
    <2>6. ASSUME NEW u \in Users, LoadSignal(u) \/ FlushStatus(u) PROVE FALSE
      BY <2>6 DEF LoadSignal, FlushStatus, TypeOK, SignalRow
    <2>7. ASSUME NEW u \in Users, row' = [row EXCEPT ![triage[u].signal].next = triage[u].new]
          PROVE  FALSE
      BY <2>7 DEF TypeOK, SignalRow
    <2> QED
      BY <2>1, <2>2, <2>3, <2>4, <2>5, <2>6, <2>7
         DEF Next, vars, BeginScan, ScanStep, SelectRule, SeedRule, EvaluateRule, RuleDone,
             SelectLiveSignal, CheckDismissed, RecoverWinner, CommitListing, TriageStep,
             WriteStatus, CrashTriage, UpdateRule
  <1>3. Init => I
    BY <1>1, TypeInit, RuleLocksInit, RowsInit
  <1>4. I /\ [Next]_vars => I'
    BY TypeStep, RuleLocksStep, RowsStep, TargetStep, ActiveStep
  <1> HIDE DEF I
  <1> QED BY <1>2, <1>3, <1>4, PTL DEF Spec, InactiveRuleSilent
=============================================================================
