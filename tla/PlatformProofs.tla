---------------------------- MODULE PlatformProofs -----------------------------
(***************************************************************************)
(* Theorems about what runs under the domains: the configuration rows, the *)
(* worker loop, the invitations and the subscription, each for any number  *)
(* of callers, organisations, clerks and events, first of the component's  *)
(* own specification and then, at the end, of the platform's.              *)
(***************************************************************************)
EXTENDS Platform, WellFoundedInduction, TLAPS

------------------------------------------------------------------------------
(***************************************************************************)
(* For any callers, calls and bound: when the calls other than Ask's read  *)
(* the rows in one common order, every circle of requests that wait for    *)
(* one another goes through Ask or through a lost INSERT.                  *)
(*                                                                         *)
(* The inductive invariant says that no row is held twice and that a       *)
(* transaction that lost no INSERT holds exactly the rows it has read.  In *)
(* a circle of such transactions take the one that waits for the row of    *)
(* least rank: its holder waits for a row it has not read yet, which ranks *)
(* lower still.                                                            *)
(***************************************************************************)

\* Rank counts the rows from the last one read to the first: every code that a plan reaches
\* for the first time ranks below the codes before it.
InOrder(p, Rank) ==
    \A j \in 1..Len(p) :
        \/ \E i \in 1..(j - 1) : p[i] = p[j]
        \/ \A i \in 1..(j - 1) : Rank[p[j]] < Rank[p[i]]

Read(t) == {t.plan[i] : i \in 1..(t.next - 1)}

TxOK(t) ==
    /\ t = Tx(t, t.next, t.held, t.created, t.missed, t.lost)
    /\ t.asks \in BOOLEAN /\ t.plan \in Seq(Codes)
    /\ t.plan = <<>> \/ [asks |-> t.asks, plan |-> t.plan] \in Calls
    /\ t.next \in 1..(Len(t.plan) + 1)
    /\ t.created \subseteq t.held
    /\ t.held \subseteq Read(t)
    /\ t.missed \in BOOLEAN /\ t.lost \in BOOLEAN
    /\ ~t.lost => t.held = Read(t)

Disjoint == \A c, d \in Callers : c # d => tx[c].held \intersect tx[d].held = {}

LazyInv ==
    /\ row \subseteq Codes
    /\ DOMAIN tx = Callers /\ tx = [c \in Callers |-> tx[c]]
    /\ \A c \in Callers : TxOK(tx[c])
    /\ Disjoint

-----------------------------------------------------------------------------
LEMMA TxFields ==
  ASSUME NEW r, NEW n, NEW h, NEW k, NEW m, NEW l
  PROVE  /\ Tx(r, n, h, k, m, l).asks = r.asks /\ Tx(r, n, h, k, m, l).plan = r.plan
         /\ Tx(r, n, h, k, m, l).next = n /\ Tx(r, n, h, k, m, l).held = h
         /\ Tx(r, n, h, k, m, l).created = k /\ Tx(r, n, h, k, m, l).missed = m
         /\ Tx(r, n, h, k, m, l).lost = l
         /\ Tx(Tx(r, n, h, k, m, l), n, h, k, m, l) = Tx(r, n, h, k, m, l)
BY DEF Tx

\* One transaction replaced by another that is well formed and takes no row of the others.
LEMMA Update ==
  ASSUME LazyInv, NEW c \in Callers, NEW t, TxOK(t),
         \A d \in Callers \ {c} : t.held \intersect tx[d].held = {},
         tx' = [tx EXCEPT ![c] = t], row' \subseteq Codes
  PROVE  LazyInv'
<1>1. /\ tx'[c] = t
      /\ \A d \in Callers \ {c} : tx'[d] = tx[d]
      /\ DOMAIN tx' = Callers /\ tx' = [d \in Callers |-> tx'[d]]
  BY DEF LazyInv
<1>2. \A d \in Callers : TxOK(tx'[d])
  BY <1>1 DEF LazyInv
<1>3. Disjoint'
  BY <1>1 DEF LazyInv, Disjoint
<1> QED
  BY <1>1, <1>2, <1>3 DEF LazyInv, TxOK

\* A transaction that has nothing holds nothing.
LEMMA NoTxOK == TxOK(NoTx) /\ NoTx.held = {}
<1>1. /\ NoTx.asks = FALSE /\ NoTx.plan = <<>> /\ NoTx.next = 1 /\ NoTx.held = {} /\ NoTx.created = {}
      /\ NoTx.missed = FALSE /\ NoTx.lost = FALSE
  BY DEF NoTx, Tx
<1>2. NoTx = Tx(NoTx, NoTx.next, NoTx.held, NoTx.created, NoTx.missed, NoTx.lost)
  BY DEF NoTx, Tx
<1>3. Read(NoTx) = {}
  BY <1>1 DEF Read
<1>4. <<>> \in Seq(Codes) /\ Len(<<>>) = 0
  OBVIOUS
<1>5. NoTx.plan \in Seq(Codes) /\ NoTx.next \in 1..(Len(NoTx.plan) + 1)
  BY <1>1, <1>4
<1> QED
  BY <1>1, <1>2, <1>3, <1>5 DEF TxOK

\* What a step past one row of the plan reads.
LEMMA ReadNext ==
  ASSUME NEW t, t.plan \in Seq(Codes), t.next \in 1..Len(t.plan),
         NEW u, u.plan = t.plan, u.next = t.next + 1
  PROVE  Read(u) = Read(t) \union {t.plan[t.next]} /\ u.next \in 1..(Len(u.plan) + 1)
BY DEF Read

\* The same plan, the same rows and the same position: the transaction stays well formed.
LEMMA StandOK ==
  ASSUME NEW t, TxOK(t), NEW m \in BOOLEAN
  PROVE  LET u == Tx(t, t.next, t.held, t.created, m, t.lost) IN TxOK(u) /\ u.held = t.held
<1> DEFINE u == Tx(t, t.next, t.held, t.created, m, t.lost)
<1>1. /\ u.asks = t.asks /\ u.plan = t.plan /\ u.next = t.next /\ u.held = t.held
      /\ u.created = t.created /\ u.missed = m /\ u.lost = t.lost
      /\ Tx(u, t.next, t.held, t.created, m, t.lost) = u
  BY TxFields
<1>2. Read(u) = Read(t)
  BY <1>1 DEF Read
<1>3. u = Tx(u, u.next, u.held, u.created, u.missed, u.lost)
  BY <1>1
<1> HIDE DEF u
<1> QED
  BY <1>1, <1>2, <1>3 DEF TxOK, u

\* A row read and taken.
LEMMA TakeOK ==
  ASSUME NEW t, TxOK(t), t.next <= Len(t.plan), NEW w, w = t.plan[t.next],
         NEW k, k \subseteq t.held \union {w}
  PROVE  /\ TxOK(Tx(t, t.next + 1, (t.held \union {w}), k, FALSE, t.lost))
         /\ Tx(t, t.next + 1, (t.held \union {w}), k, FALSE, t.lost).held = (t.held \union {w})
<1> DEFINE u == Tx(t, t.next + 1, (t.held \union {w}), k, FALSE, t.lost)
<1>1. /\ u.asks = t.asks /\ u.plan = t.plan /\ u.next = t.next + 1 /\ u.held = (t.held \union {w})
      /\ u.created = k /\ u.missed = FALSE /\ u.lost = t.lost
      /\ Tx(u, t.next + 1, (t.held \union {w}), k, FALSE, t.lost) = u
  BY DEF Tx
<1>2. u = Tx(u, u.next, u.held, u.created, u.missed, u.lost)
  BY <1>1
<1> HIDE DEF u
<1>3. t.plan \in Seq(Codes) /\ t.next \in 1..Len(t.plan)
  BY DEF TxOK
<1>4. Read(u) = Read(t) \union {t.plan[t.next]} /\ u.next \in 1..(Len(u.plan) + 1)
  BY <1>1, <1>3, ReadNext
<1>5. t.held \union {w} \subseteq Read(u) /\ (~t.lost => t.held \union {w} = Read(u))
  BY <1>4 DEF TxOK
<1> QED
  BY <1>1, <1>2, <1>4, <1>5 DEF TxOK, u

\* A row read after a lost INSERT and not taken.
LEMMA SkipOK ==
  ASSUME NEW t, TxOK(t), t.next <= Len(t.plan)
  PROVE  /\ TxOK(Tx(t, t.next + 1, t.held, t.created, FALSE, TRUE))
         /\ Tx(t, t.next + 1, t.held, t.created, FALSE, TRUE).held = t.held
<1> DEFINE u == Tx(t, t.next + 1, t.held, t.created, FALSE, TRUE)
<1>1. /\ u.asks = t.asks /\ u.plan = t.plan /\ u.next = t.next + 1 /\ u.held = t.held
      /\ u.created = t.created /\ u.missed = FALSE /\ u.lost = TRUE
      /\ Tx(u, t.next + 1, t.held, t.created, FALSE, TRUE) = u
  BY DEF Tx
<1>2. u = Tx(u, u.next, u.held, u.created, u.missed, u.lost)
  BY <1>1
<1> HIDE DEF u
<1>3. t.plan \in Seq(Codes) /\ t.next \in 1..Len(t.plan)
  BY DEF TxOK
<1>4. Read(u) = Read(t) \union {t.plan[t.next]} /\ u.next \in 1..(Len(u.plan) + 1)
  BY <1>1, <1>3, ReadNext
<1>5. t.held \subseteq Read(u)
  BY <1>4 DEF TxOK
<1> QED
  BY <1>1, <1>2, <1>4, <1>5 DEF TxOK, u

\* A row that no other transaction holds, added to what this one holds.
LEMMA TakeAlone ==
  ASSUME LazyInv, NEW c \in Callers, NEW w, Others(c, w) = {}
  PROVE  \A d \in Callers \ {c} : (tx[c].held \union {w}) \intersect tx[d].held = {}
<1>1. \A d \in Callers \ {c} : w \notin tx[d].held
  BY DEF Others
<1>2. \A d \in Callers \ {c} : tx[c].held \intersect tx[d].held = {}
  BY DEF LazyInv, Disjoint
<1> QED
  BY <1>1, <1>2

LEMMA LazyInitInv == ASSUME CallsAssumption, LazyInit PROVE LazyInv
BY NoTxOK DEF LazyInit, LazyInv, Disjoint

-----------------------------------------------------------------------------
\* One lemma for each action.

LEMMA BeginCallInv ==
  ASSUME LazyInv, CallsAssumption, NEW c \in Callers, BeginCall(c) PROVE LazyInv'
<1>1. PICK r \in Calls : tx' = [tx EXCEPT ![c] = Tx(r, 1, {}, {}, FALSE, FALSE)]
  BY DEF BeginCall
<1> DEFINE u == Tx(r, 1, {}, {}, FALSE, FALSE)
<1>2. /\ u.asks = r.asks /\ u.plan = r.plan /\ u.next = 1 /\ u.held = {} /\ u.created = {}
      /\ u.missed = FALSE /\ u.lost = FALSE /\ Tx(u, 1, {}, {}, FALSE, FALSE) = u
  BY DEF Tx
<1>3. u = Tx(u, u.next, u.held, u.created, u.missed, u.lost)
  BY <1>2
<1> HIDE DEF u
<1>4. r.asks \in BOOLEAN /\ r.plan \in Seq(Codes) /\ [asks |-> r.asks, plan |-> r.plan] \in Calls
  BY DEF CallsAssumption
<1>5. Read(u) = {} /\ u.next \in 1..(Len(u.plan) + 1)
  BY <1>2, <1>4 DEF Read
<1>6. TxOK(u)
  BY <1>2, <1>3, <1>4, <1>5 DEF TxOK
<1>7. row' \subseteq Codes /\ tx' = [tx EXCEPT ![c] = u]
  BY <1>1 DEF BeginCall, LazyInv, u
<1> QED
  BY <1>2, <1>6, <1>7, Update

LEMMA SelectForUpdateInv ==
  ASSUME LazyInv, NEW c \in Callers, SelectForUpdate(c) PROVE LazyInv'
<1> DEFINE t == tx[c]
           u == Tx(t, t.next + 1, t.held \union {Wanted(c)}, t.created, FALSE, t.lost)
<1>1. TxOK(t) /\ t.next <= Len(t.plan) /\ t.lost \in BOOLEAN /\ t.created \subseteq t.held \union {Wanted(c)}
  BY DEF SelectForUpdate, Reading, LazyInv, TxOK
<1>5. Wanted(c) = t.plan[t.next] /\ Others(c, Wanted(c)) = {}
  BY DEF Wanted, SelectForUpdate
<1>2. TxOK(u) /\ u.held = t.held \union {Wanted(c)}
  BY <1>1, <1>5, TakeOK
<1>3. tx' = [tx EXCEPT ![c] = u] /\ row' \subseteq Codes
  BY DEF SelectForUpdate, LazyInv
<1>4. \A d \in Callers \ {c} : u.held \intersect tx[d].held = {}
  BY <1>2, <1>5, TakeAlone
<1> QED
  BY <1>2, <1>3, <1>4, Update

LEMMA SelectNothingInv ==
  ASSUME LazyInv, NEW c \in Callers, SelectNothing(c) PROVE LazyInv'
<1> DEFINE t == tx[c]
           u == Tx(t, t.next, t.held, t.created, TRUE, t.lost)
<1>1. TxOK(t)
  BY DEF LazyInv
<1>2. TxOK(u) /\ u.held = t.held
  BY <1>1, StandOK
<1>3. tx' = [tx EXCEPT ![c] = u] /\ row' \subseteq Codes
  BY DEF SelectNothing, LazyInv
<1>4. \A d \in Callers \ {c} : u.held \intersect tx[d].held = {}
  BY <1>2 DEF LazyInv, Disjoint
<1> QED
  BY <1>2, <1>3, <1>4, Update

LEMMA InsertRowInv ==
  ASSUME LazyInv, NEW c \in Callers, InsertRow(c) PROVE LazyInv'
<1> DEFINE t == tx[c]
           k == t.created \union {Wanted(c)}
           u == Tx(t, t.next + 1, t.held \union {Wanted(c)}, k, FALSE, t.lost)
<1>1. TxOK(t) /\ t.next <= Len(t.plan) /\ t.lost \in BOOLEAN /\ k \subseteq t.held \union {Wanted(c)}
  BY DEF InsertRow, Reading, LazyInv, TxOK
<1>5. Wanted(c) = t.plan[t.next] /\ Others(c, Wanted(c)) = {}
  BY DEF Wanted, InsertRow
<1>2. TxOK(u) /\ u.held = t.held \union {Wanted(c)}
  BY <1>1, <1>5, TakeOK
<1>3. tx' = [tx EXCEPT ![c] = u] /\ row' \subseteq Codes
  BY DEF InsertRow, LazyInv
<1>4. \A d \in Callers \ {c} : u.held \intersect tx[d].held = {}
  BY <1>2, <1>5, TakeAlone
<1> QED
  BY <1>2, <1>3, <1>4, Update

LEMMA LoseInsertInv ==
  ASSUME LazyInv, NEW c \in Callers, LoseInsert(c) PROVE LazyInv'
<1> DEFINE t == tx[c]
<1>1. TxOK(t) /\ t.next <= Len(t.plan) /\ t.created \subseteq t.held /\ row' \subseteq Codes
  BY DEF LoseInsert, Reading, LazyInv, TxOK
<1>2. CASE Wanted(c) \in Relocked
  <2> DEFINE u == Tx(t, t.next, t.held, t.created, FALSE, t.lost)
  <2>1. TxOK(u) /\ u.held = t.held
    BY <1>1, StandOK
  <2>2. tx' = [tx EXCEPT ![c] = u]
    BY <1>2 DEF LoseInsert
  <2>3. \A d \in Callers \ {c} : u.held \intersect tx[d].held = {}
    BY <2>1 DEF LazyInv, Disjoint
  <2> QED
    BY <1>1, <2>1, <2>2, <2>3, Update
<1>3. CASE Wanted(c) \notin Relocked
  <2> DEFINE u == Tx(t, t.next + 1, t.held, t.created, FALSE, TRUE)
  <2>1. TxOK(u) /\ u.held = t.held
    BY <1>1, SkipOK
  <2>2. tx' = [tx EXCEPT ![c] = u]
    BY <1>3 DEF LoseInsert
  <2>3. \A d \in Callers \ {c} : u.held \intersect tx[d].held = {}
    BY <2>1 DEF LazyInv, Disjoint
  <2> QED
    BY <1>1, <2>1, <2>2, <2>3, Update
<1> QED
  BY <1>2, <1>3

LEMMA EndCallInv ==
  ASSUME LazyInv, NEW c \in Callers, CommitCall(c) \/ RollBackCall(c) PROVE LazyInv'
<1>1. \A d \in Callers \ {c} : NoTx.held \intersect tx[d].held = {}
  BY NoTxOK
<1>2. tx' = [tx EXCEPT ![c] = NoTx]
  BY DEF CommitCall, RollBackCall
<1>3. TxOK(tx[c]) /\ row \subseteq Codes
  BY DEF LazyInv
<1>4. Read(tx[c]) \subseteq Codes
  BY <1>3 DEF TxOK, Read
<1>5. row' \subseteq Codes
  BY <1>3, <1>4 DEF CommitCall, RollBackCall, TxOK
<1> QED
  BY <1>1, <1>2, <1>5, NoTxOK, Update

LEMMA LazyNextInv == ASSUME CallsAssumption, LazyInv, [LazyNext]_lazyVars PROVE LazyInv'
<1>1. CASE UNCHANGED lazyVars
  BY <1>1 DEF lazyVars, LazyInv, Disjoint
<1>2. ASSUME NEW c \in Callers, LazyStep(c) PROVE LazyInv'
  <2>1. CASE BeginCall(c)
    BY <2>1, BeginCallInv
  <2>2. CASE SelectForUpdate(c)
    BY <2>2, SelectForUpdateInv
  <2>3. CASE SelectNothing(c)
    BY <2>3, SelectNothingInv
  <2>4. CASE InsertRow(c)
    BY <2>4, InsertRowInv
  <2>5. CASE LoseInsert(c)
    BY <2>5, LoseInsertInv
  <2>6. CASE CommitCall(c) \/ RollBackCall(c)
    BY <2>6, EndCallInv
  <2> QED
    BY <1>2, <2>1, <2>2, <2>3, <2>4, <2>5, <2>6 DEF LazyStep
<1> QED
  BY <1>1, <1>2 DEF LazyNext

-----------------------------------------------------------------------------
\* In a circle of transactions that lost no INSERT and do not ask, whoever c waits for waits
\* itself for a row of lower rank.
LEMMA LowerRank ==
  ASSUME LazyInv, NEW Rank \in [Codes -> Nat],
         \A r \in Calls : ~r.asks => InOrder(r.plan, Rank),
         NEW S \in SUBSET Callers, Circle(S), \A c \in S : ~tx[c].asks /\ ~tx[c].lost,
         NEW c \in S
  PROVE  \E d \in S : Rank[Wanted(d)] < Rank[Wanted(c)]
<1>1. PICK d \in S : Waits(c, d)
  BY DEF Circle
<1>2. PICK e \in S : Waits(d, e)
  BY DEF Circle
<1> DEFINE p == tx[d].plan
           j == tx[d].next
<1>3. TxOK(tx[d]) /\ d \in Callers /\ e \in Callers /\ d # e
  BY <1>2 DEF LazyInv, Waits
<1>4. j \in 1..Len(p) /\ Wanted(d) = p[j] /\ p[j] \in tx[e].held
  BY <1>2, <1>3 DEF Waits, Reading, Wanted, TxOK
<1>5. tx[d].held = Read(tx[d])
  BY <1>3 DEF TxOK
<1>6. p[j] \notin tx[d].held
  BY <1>3, <1>4 DEF LazyInv, Disjoint
<1>7. PICK i \in 1..(j - 1) : Wanted(c) = p[i]
  BY <1>1, <1>5 DEF Waits, Read
<1>8. \A k \in 1..(j - 1) : p[k] # p[j]
  BY <1>5, <1>6 DEF Read
<1>9. InOrder(p, Rank)
  <2>1. p # <<>>
    BY <1>4
  <2>2. [asks |-> tx[d].asks, plan |-> p] \in Calls
    BY <1>3, <2>1 DEF TxOK
  <2> QED
    BY <2>2
<1>10. Rank[p[j]] < Rank[p[i]]
  BY <1>4, <1>7, <1>8, <1>9 DEF InOrder
<1> QED
  BY <1>4, <1>7, <1>10

LEMMA NoCircle ==
  ASSUME LazyInv, NEW Rank \in [Codes -> Nat],
         \A r \in Calls : ~r.asks => InOrder(r.plan, Rank)
  PROVE  CirclesExplained
<1> SUFFICES ASSUME NEW S \in SUBSET Callers, Circle(S), \A c \in S : ~tx[c].asks /\ ~tx[c].lost
             PROVE  FALSE
  BY DEF CirclesExplained
<1> DEFINE T == {Rank[Wanted(c)] : c \in S}
<1>1. \A c \in S : Rank[Wanted(c)] \in Nat
  <2> SUFFICES ASSUME NEW c \in S PROVE Wanted(c) \in Codes
    OBVIOUS
  <2>1. PICK d \in S : Waits(c, d)
    BY DEF Circle
  <2>2. TxOK(tx[c]) /\ tx[c].next <= Len(tx[c].plan)
    BY <2>1 DEF Waits, Reading, LazyInv
  <2>3. tx[c].plan \in Seq(Codes) /\ tx[c].next \in 1..Len(tx[c].plan)
    BY <2>2 DEF TxOK
  <2> QED
    BY <2>3 DEF Wanted
<1>2. T \subseteq Nat /\ T # {}
  BY <1>1 DEF Circle
<1>3. PICK x \in T : \A y \in T : ~(<<y, x>> \in OpToRel(<, Nat))
  BY <1>2, WFMin, NatLessThanWellFounded
<1>4. \A y \in T : ~(y < x)
  BY <1>2, <1>3 DEF OpToRel
<1>5. PICK c \in S : x = Rank[Wanted(c)]
  OBVIOUS
<1>6. PICK d \in S : Rank[Wanted(d)] < Rank[Wanted(c)]
  BY <1>5, LowerRank
<1> QED
  BY <1>4, <1>5, <1>6

\* No row is held by two transactions, and one that lost no INSERT holds what it has read.
THEOREM HeldOnce == LazySpec => []LazyInv
<1>1. LazyInit => LazyInv
  BY LazyInitInv, CallsAssumption
<1>2. LazyInv /\ [LazyNext]_lazyVars => LazyInv'
  BY LazyNextInv, CallsAssumption
<1> QED
  BY <1>1, <1>2, PTL DEF LazySpec

\* When the calls other than Ask's read the rows in one order, a circle of requests that wait
\* for one another goes through Ask or through a request that lost an INSERT: the locks that
\* the get_or_create_* functions keep to the end of a request are taken in order otherwise.
THEOREM OrderedCallsHaveNoCircle ==
  ASSUME NEW CONSTANT Rank \in [Codes -> Nat],
         \A r \in Calls : ~r.asks => InOrder(r.plan, Rank)
  PROVE  LazySpec => []CirclesExplained
<1>1. LazyInv => CirclesExplained
  BY NoCircle
<1> QED
  BY <1>1, HeldOnce, PTL

------------------------------------------------------------------------------
(***************************************************************************)
(* For any organisations, days and faults: a day on which a tick reached   *)
(* the scan's check within the hour has every organisation scanned exactly *)
(* once when its scan is over, unless the scan raised or the process died. *)
(*                                                                         *)
(* A day is accounted for in three ways: not yet checked and not scanned,  *)
(* being scanned with the organisations left at 0 and the others at 1, or  *)
(* scanned.  What keeps a scanned day from being scanned again is that     *)
(* last_scan_date is the date the scan began (LastIsToday): no later day   *)
(* can have been checked while the scan ran (NoneLater).                   *)
(***************************************************************************)

Scanning(d) == worker.pc = "scan" /\ worker.day = d

WorkerTypes ==
    /\ worker = [pc |-> worker.pc, left |-> worker.left, jobs |-> worker.jobs, day |-> worker.day]
    /\ worker.left \subseteq Organisations
    /\ now = [day |-> now.day, hour |-> now.hour] /\ now.day \in 1..LastDay /\ now.hour \in Hours
    /\ last_scan_date \in {Never} \union checked
    /\ checked \subseteq 1..now.day
    /\ scans \in [1..LastDay -> [Organisations -> Nat]]

\* The day being scanned is the last one checked.
NoneLater == worker.pc = "scan" => worker.day \in checked /\ \A d \in checked : d <= worker.day

\* Once it is over, today's scan is not begun again.
LastIsToday == now.day \in checked \ broken => Scanning(now.day) \/ last_scan_date = now.day

Scanned(d, o) == IF Scanning(d) THEN IF o \in worker.left THEN 0 ELSE 1
                 ELSE IF d \in checked THEN 1 ELSE 0

Accounts == \A d \in (1..LastDay) \ broken, o \in Organisations : scans[d][o] = Scanned(d, o)

WorkerInv == WorkerTypes /\ NoneLater /\ LastIsToday /\ Accounts

-----------------------------------------------------------------------------
LEMMA WorkerInitInv == ASSUME WorkerAssumption, WorkerInit PROVE WorkerInv
BY DEF WorkerAssumption, WorkerInit, WorkerInv, WorkerTypes, NoneLater, LastIsToday, Accounts, Scanned,
       Scanning, Asleep, Never, Hours

\* A step of the tick that is not the scan's.
LEMMA OutsideInv ==
  ASSUME WorkerInv, Outside, broken' = broken, worker.pc # "scan",
         NEW p, p # "scan", NEW l \in SUBSET Organisations, NEW j, NEW d,
         worker' = [pc |-> p, left |-> l, jobs |-> j, day |-> d]
  PROVE  WorkerInv'
BY DEF Outside, WorkerInv, WorkerTypes, NoneLater, LastIsToday, Accounts, Scanned, Scanning

LEMMA CheckedDays == ASSUME WorkerAssumption, WorkerTypes PROVE checked \subseteq 1..LastDay
<1>1. now.day \in Nat /\ now.day <= LastDay /\ LastDay \in Nat
  BY DEF WorkerTypes, WorkerAssumption
<1>2. \A d \in 1..now.day : d \in 1..LastDay
  BY <1>1
<1> QED
  BY <1>2 DEF WorkerTypes

LEMMA CheckHourInv == ASSUME WorkerAssumption, WorkerInv, CheckHour PROVE WorkerInv'
<1>1. worker.pc = "check" /\ broken' = broken /\ UNCHANGED <<last_scan_date, now, scans>>
  BY DEF CheckHour, Doing, Quiet
<1>2. CASE now.hour = ATTENTION_SCAN_HOUR_UTC /\ last_scan_date # now.day
  <2>1. /\ worker' = [pc |-> "scan", left |-> Organisations, jobs |-> <<>>, day |-> now.day]
        /\ checked' = checked \union {now.day}
    BY <1>2 DEF CheckHour, ScanDue
  <2>2. WorkerTypes' /\ NoneLater' /\ LastIsToday'
    BY <1>1, <2>1 DEF WorkerInv, WorkerTypes, NoneLater, LastIsToday, Scanning
  <2>3. now.day \in broken \/ now.day \notin checked
    BY <1>1, <1>2 DEF WorkerInv, LastIsToday, Scanning
  <2>4. Accounts'
    BY <1>1, <2>1, <2>3 DEF WorkerInv, WorkerTypes, Accounts, Scanned, Scanning
  <2> QED
    BY <2>2, <2>4 DEF WorkerInv
<1>3. CASE now.hour = ATTENTION_SCAN_HOUR_UTC /\ last_scan_date = now.day
  <2>1. worker' = Asleep /\ checked' = checked
    BY <1>3 DEF CheckHour, ScanDue, WorkerInv, WorkerTypes, Never
  <2> QED
    BY <1>1, <2>1 DEF WorkerInv, WorkerTypes, NoneLater, LastIsToday, Accounts, Scanned, Scanning, Asleep
<1>4. CASE now.hour # ATTENTION_SCAN_HOUR_UTC
  <2>1. worker' = Asleep /\ checked' = checked
    BY <1>4 DEF CheckHour, ScanDue
  <2> QED
    BY <1>1, <2>1 DEF WorkerInv, WorkerTypes, NoneLater, LastIsToday, Accounts, Scanned, Scanning, Asleep
<1> QED
  BY <1>2, <1>3, <1>4

LEMMA ScanOrganisationInv == ASSUME WorkerAssumption, WorkerInv, ScanOrganisation PROVE WorkerInv'
<1>1. PICK o \in worker.left :
        /\ worker' = [worker EXCEPT !.left = @ \ {o}]
        /\ scans' = [scans EXCEPT ![worker.day][o] = @ + 1]
  BY DEF ScanOrganisation
<1>2. /\ worker.pc = "scan" /\ UNCHANGED <<last_scan_date, now, checked, broken>>
      /\ o \in Organisations /\ worker.day \in 1..LastDay
  <2>1. worker.pc = "scan" /\ UNCHANGED <<last_scan_date, now, checked, broken>>
    BY DEF ScanOrganisation, Doing, Quiet
  <2>2. o \in Organisations /\ worker.day \in checked
    BY <1>1, <2>1 DEF WorkerInv, WorkerTypes, NoneLater
  <2> QED
    BY <2>1, <2>2, CheckedDays DEF WorkerInv
<1>3. worker' = [pc |-> "scan", left |-> worker.left \ {o}, jobs |-> worker.jobs, day |-> worker.day]
  BY <1>1, <1>2 DEF WorkerInv, WorkerTypes
<1>4. /\ scans' \in [1..LastDay -> [Organisations -> Nat]]
      /\ \A d \in 1..LastDay, q \in Organisations :
            scans'[d][q] = IF d = worker.day /\ q = o THEN scans[d][q] + 1 ELSE scans[d][q]
  BY <1>1, <1>2 DEF WorkerInv, WorkerTypes
<1>5. WorkerTypes' /\ NoneLater' /\ LastIsToday'
  BY <1>2, <1>3, <1>4 DEF WorkerInv, WorkerTypes, NoneLater, LastIsToday, Scanning
<1>6. Accounts'
  BY <1>1, <1>2, <1>3, <1>4 DEF WorkerInv, WorkerTypes, Accounts, Scanned, Scanning
<1> QED
  BY <1>5, <1>6 DEF WorkerInv

LEMMA ScanDoneInv == ASSUME WorkerInv, ScanDone PROVE WorkerInv'
<1>1. /\ worker.pc = "scan" /\ worker.left = {} /\ last_scan_date' = worker.day /\ worker' = Asleep
      /\ UNCHANGED <<now, checked, scans, broken>>
  BY DEF ScanDone, Doing, date_of_scan, Quiet
<1>2. WorkerTypes' /\ NoneLater'
  BY <1>1 DEF WorkerInv, WorkerTypes, NoneLater, Asleep
<1>3. LastIsToday'
  BY <1>1 DEF WorkerInv, WorkerTypes, NoneLater, LastIsToday, Scanning
<1>4. Accounts'
  BY <1>1 DEF WorkerInv, NoneLater, Accounts, Scanned, Scanning, Asleep
<1> QED
  BY <1>2, <1>3, <1>4 DEF WorkerInv

LEMMA ScanRaisesInv == ASSUME WorkerInv, ScanRaises PROVE WorkerInv'
<1>1. /\ worker.pc = "scan" /\ last_scan_date' = worker.day /\ worker' = Asleep
      /\ broken' = broken \union {worker.day} /\ UNCHANGED <<now, checked, scans>>
  BY DEF ScanRaises, Doing, date_of_scan
<1>2. WorkerTypes' /\ NoneLater'
  BY <1>1 DEF WorkerInv, WorkerTypes, NoneLater, Asleep
<1>3. LastIsToday'
  BY <1>1 DEF WorkerInv, WorkerTypes, NoneLater, LastIsToday, Scanning
<1>4. Accounts'
  BY <1>1 DEF WorkerInv, NoneLater, Accounts, Scanned, Scanning, Asleep
<1> QED
  BY <1>2, <1>3, <1>4 DEF WorkerInv

LEMMA CrashInv == ASSUME WorkerInv, Crash PROVE WorkerInv'
<1>1. /\ worker' = [pc |-> "down", left |-> {}, jobs |-> <<>>, day |-> Never]
      /\ last_scan_date' = Never /\ UNCHANGED <<now, checked, scans>>
      /\ now.day \in broken' /\ broken \subseteq broken'
      /\ worker.pc = "scan" => worker.day \in broken'
  BY DEF Crash, Asleep, Doing
<1> QED
  BY <1>1 DEF WorkerInv, WorkerTypes, NoneLater, LastIsToday, Accounts, Scanned, Scanning

LEMMA AdvanceClockInv == ASSUME WorkerAssumption, WorkerInv, AdvanceClock PROVE WorkerInv'
<1>1. UNCHANGED <<worker, last_scan_date, checked, scans, broken>>
  BY DEF AdvanceClock, Quiet
<1>2. /\ now' = [day |-> now'.day, hour |-> now'.hour] /\ now'.day \in 1..LastDay /\ now'.hour \in Hours
      /\ now'.day = now.day \/ now'.day = now.day + 1
  <2>1. CASE now.hour < 2
    <3>1. now' = [day |-> now.day, hour |-> now.hour + 1]
      BY <2>1 DEF AdvanceClock, WorkerInv, WorkerTypes
    <3> QED
      BY <2>1, <3>1 DEF WorkerInv, WorkerTypes, Hours
  <2>2. CASE ~(now.hour < 2)
    <3>1. now' = [day |-> now.day + 1, hour |-> 0] /\ now'.day <= LastDay
      BY <2>2 DEF AdvanceClock
    <3> QED
      BY <3>1, WorkerAssumption DEF WorkerInv, WorkerTypes, Hours, WorkerAssumption
  <2> QED
    BY <2>1, <2>2
<1>3. WorkerTypes'
  BY <1>1, <1>2, WorkerAssumption DEF WorkerInv, WorkerTypes, WorkerAssumption
<1>4. NoneLater' /\ LastIsToday' /\ Accounts'
  BY <1>1, <1>2 DEF WorkerInv, WorkerTypes, NoneLater, LastIsToday, Accounts, Scanned, Scanning
<1> QED
  BY <1>3, <1>4 DEF WorkerInv

LEMMA WorkerNextInv == ASSUME WorkerAssumption, WorkerInv, [WorkerNext]_workerVars PROVE WorkerInv'
<1>1. CASE UNCHANGED workerVars
  BY <1>1 DEF workerVars, WorkerInv, WorkerTypes, NoneLater, LastIsToday, Accounts, Scanned, Scanning
<1>2. ASSUME NEW o \in Organisations, RequestReport(o) PROVE WorkerInv'
  BY <1>2 DEF RequestReport, Quiet, Outside, WorkerInv, WorkerTypes, NoneLater, LastIsToday,
               Accounts, Scanned, Scanning
<1>3. CASE Wake
  BY <1>3, OutsideInv DEF Wake, Doing, Quiet, Tick
<1>4. CASE ListPendingReports
  <2>1. PICK o \in worker.left : worker' = Tick("reports", worker.left \ {o}, pending_ids(o))
    BY <1>4 DEF ListPendingReports
  <2>2. worker.left \ {o} \in SUBSET Organisations
    BY DEF WorkerInv, WorkerTypes
  <2> QED
    BY <1>4, <2>1, <2>2, OutsideInv DEF ListPendingReports, Doing, Quiet, Tick
<1>5. CASE StartReport
  <2>1. worker' = [pc |-> "render", left |-> worker.left, jobs |-> worker.jobs, day |-> worker.day]
    BY <1>5 DEF StartReport, WorkerInv, WorkerTypes
  <2> QED
    BY <1>5, <2>1, OutsideInv DEF StartReport, Doing, Quiet, WorkerInv, WorkerTypes
<1>6. CASE FinishReport
  BY <1>6, OutsideInv DEF FinishReport, Doing, Quiet, Tick, WorkerInv, WorkerTypes
<1>7. CASE LoseReportCommit
  BY <1>7, OutsideInv DEF LoseReportCommit, Doing, Tick
<1>8. CASE ReportsDone \/ Imports
  BY <1>8, OutsideInv DEF ReportsDone, Imports, Doing, Quiet, Tick
<1>9. CASE Start
  BY <1>9, OutsideInv DEF Start, Doing, Quiet, Asleep
<1>10. CASE CheckHour
  BY <1>10, CheckHourInv
<1>11. CASE ScanOrganisation
  BY <1>11, ScanOrganisationInv
<1>12. CASE ScanDone
  BY <1>12, ScanDoneInv
<1>13. CASE ScanRaises
  BY <1>13, ScanRaisesInv
<1>14. CASE Crash
  BY <1>14, CrashInv
<1>15. CASE AdvanceClock
  BY <1>15, AdvanceClockInv
<1> QED
  BY <1>1, <1>2, <1>3, <1>4, <1>5, <1>6, <1>7, <1>8, <1>9, <1>10, <1>11, <1>12, <1>13, <1>14, <1>15
  DEF WorkerNext

-----------------------------------------------------------------------------
\* A day on which a tick reached the scan's check within the hour has every organisation
\* scanned exactly once when its scan is over - across midnight, restarts and ticks that
\* come again within the hour - unless the scan raised or the process died that day.
THEOREM ScannedOnce == WorkerSpec => []ScanAccounted
<1>1. WorkerInit => WorkerInv
  BY WorkerInitInv, WorkerAssumption
<1>2. WorkerInv /\ [WorkerNext]_workerVars => WorkerInv'
  BY WorkerNextInv, WorkerAssumption
<1>3. WorkerInv => ScanAccounted
  <2> SUFFICES ASSUME WorkerInv, NEW d \in checked \ broken, worker.day # d, NEW o \in Organisations
               PROVE  scans[d][o] = 1
    BY DEF ScanAccounted
  <2>1. d \in (1..LastDay) \ broken
    BY WorkerAssumption, CheckedDays DEF WorkerInv
  <2> QED
    BY <2>1 DEF WorkerInv, Accounts, Scanned, Scanning
<1> QED
  BY <1>1, <1>2, <1>3, PTL DEF WorkerSpec

------------------------------------------------------------------------------
(***************************************************************************)
(* For any clerks, e-mails, days and number of invitations: an invitation  *)
(* accepted or revoked stays so, unless two requests had it in hand.       *)
(*                                                                         *)
(* A request that has an invitation in hand read it before it was settled, *)
(* and what could settle it since is only another request that had it in   *)
(* hand too (HandsDiffer), which `raced` then names.                       *)
(***************************************************************************)

InHand == {"revoke", "expire", "accept"}
Final  == {"ACCEPTED", "REVOKED"}

Invitation == [email : Emails, role_id : Roles, status : InvitationStatus, expires_at : Nat]

MembershipTypes ==
    /\ req = [c \in Clerks |-> req[c]]
    /\ invitation \in Seq(Invitation)
    /\ today \in Nat

Loaded(r) ==
    \/ r.pc = "idle"
    \/ r.pc = "invite" /\ r.keys = {} /\ r.email \in Emails /\ r.role \in Roles
    \/ r.pc \in InHand /\ r.keys = {r.i} /\ r.i \in Ids

AllLoaded == \A c \in Clerks : Loaded(req[c])

HandsDiffer ==
    \A c, k \in Clerks :
        c # k /\ req[c].pc \in InHand /\ req[k].pc \in InHand /\ req[c].i = req[k].i => req[c].i \in raced

Unsettled ==
    \A c \in Clerks :
        req[c].pc \in InHand => req[c].i \in raced \/ invitation[req[c].i].status \notin Final

MembershipInv == MembershipTypes /\ AllLoaded /\ HandsDiffer /\ Unsettled

-----------------------------------------------------------------------------
LEMMA MembershipInitInv == ASSUME RequestsInit, MembershipInit PROVE MembershipInv
<1>1. /\ req = [c \in Clerks |-> Idle] /\ invitation = <<>> /\ today = 1
  BY DEF RequestsInit, MembershipInit
<1>2. MembershipTypes
  <2>1. invitation \in Seq(Invitation)
    BY <1>1
  <2> QED
    BY <1>1, <2>1 DEF MembershipTypes
<1>3. \A c \in Clerks : req[c].pc = "idle"
  BY <1>1 DEF Idle
<1> QED
  BY <1>2, <1>3 DEF MembershipInv, AllLoaded, Loaded, HandsDiffer, Unsettled, InHand

LEMMA Elements ==
  ASSUME invitation \in Seq(Invitation), NEW i \in Ids
  PROVE  /\ invitation[i] = [email |-> invitation[i].email, role_id |-> invitation[i].role_id,
                             status |-> invitation[i].status, expires_at |-> invitation[i].expires_at]
         /\ invitation[i].email \in Emails /\ invitation[i].role_id \in Roles
         /\ invitation[i].status \in InvitationStatus /\ invitation[i].expires_at \in Nat
<1>1. invitation[i] \in Invitation
  BY DEF Ids
<1> QED
  BY <1>1 DEF Invitation

LEMMA SetStatus ==
  ASSUME NEW x \in Invitation, NEW s
  PROVE  [x EXCEPT !.status = s] = [email |-> x.email, role_id |-> x.role_id, status |-> s,
                                    expires_at |-> x.expires_at]
BY DEF Invitation

LEMMA SetInvitation ==
  ASSUME invitation \in Seq(Invitation), NEW i \in Ids, NEW s \in InvitationStatus,
         invitation' = set_invitation(i, s)
  PROVE  /\ invitation' \in Seq(Invitation) /\ Ids' = Ids
         /\ invitation'[i].status = s
         /\ \A j \in Ids : j # i => invitation'[j] = invitation[j]
<1> DEFINE e == [email |-> invitation[i].email, role_id |-> invitation[i].role_id,
                 status |-> s, expires_at |-> invitation[i].expires_at]
<1>1. e \in Invitation /\ e.status = s
  BY Elements DEF Invitation
<1>2. [invitation[i] EXCEPT !.status = s] = e
  <2>1. invitation[i] \in Invitation
    BY DEF Ids
  <2> QED
    BY <2>1, SetStatus
<1> HIDE DEF e
<1>3. invitation' = [invitation EXCEPT ![i] = e]
  BY <1>2 DEF set_invitation
<1> QED
  BY <1>1, <1>3 DEF Ids

\* A request begins: it takes an invitation nobody has in hand, or one that raced then names.
LEMMA HoldInv ==
  ASSUME MembershipInv, NEW c \in Clerks, NEW r, Hold(c, r), UNCHANGED membershipVars,
         Loaded(r), r.pc \in InHand => invitation[r.i].status \notin Final
  PROVE  MembershipInv'
<1>1. /\ req' = [req EXCEPT ![c] = r] /\ raced' = raced \union (r.keys \intersect Held)
      /\ UNCHANGED <<invitation, today>> /\ Ids' = Ids
  BY DEF Hold, membershipVars, Ids
<1>2. /\ req' = [k \in Clerks |-> req'[k]] /\ req'[c] = r
      /\ \A k \in Clerks : k # c => req'[k] = req[k]
  BY <1>1 DEF MembershipInv, MembershipTypes
<1>3. MembershipTypes'
  BY <1>1, <1>2 DEF MembershipInv, MembershipTypes
<1>4. AllLoaded'
  BY <1>1, <1>2 DEF MembershipInv, AllLoaded, Loaded
<1>5. ASSUME NEW k \in Clerks, k # c, req[k].pc \in InHand, r.pc \in InHand, r.i = req[k].i
      PROVE  r.i \in raced'
  <2>1. r.keys = {r.i} /\ req[k].keys = {r.i} /\ req[k].pc # "idle"
    BY <1>5 DEF MembershipInv, AllLoaded, Loaded, InHand
  <2>2. r.i \in Held
    BY <2>1 DEF Held, At
  <2> QED
    BY <1>1, <2>1, <2>2
<1>6. HandsDiffer'
  BY <1>1, <1>2, <1>5 DEF MembershipInv, HandsDiffer
<1>7. Unsettled'
  BY <1>1, <1>2 DEF MembershipInv, Unsettled
<1> QED
  BY <1>3, <1>4, <1>6, <1>7 DEF MembershipInv

\* A request ends, having written no other invitation than its own.
LEMMA EndInv ==
  ASSUME MembershipInv, NEW c \in Clerks, End(c), invitation' \in Seq(Invitation), Ids \subseteq Ids',
         \A j \in Ids : invitation'[j] = invitation[j] \/ (req[c].pc \in InHand /\ j = req[c].i)
  PROVE  MembershipInv'
<1>1. /\ req' = [req EXCEPT ![c] = Idle] /\ UNCHANGED <<raced, today>>
  BY DEF End
<1>2. /\ req' = [k \in Clerks |-> req'[k]] /\ req'[c].pc = "idle"
      /\ \A k \in Clerks : k # c => req'[k] = req[k]
  BY <1>1 DEF MembershipInv, MembershipTypes, Idle
<1>3. MembershipTypes'
  BY <1>1, <1>2 DEF MembershipInv, MembershipTypes
<1>4. AllLoaded'
  BY <1>1, <1>2 DEF MembershipInv, AllLoaded, Loaded
<1>5. HandsDiffer'
  BY <1>1, <1>2 DEF MembershipInv, HandsDiffer, InHand
<1>6. Unsettled'
  <2> SUFFICES ASSUME NEW k \in Clerks, req'[k].pc \in InHand, req'[k].i \notin raced
               PROVE  invitation'[req'[k].i].status \notin Final
    BY <1>1 DEF Unsettled
  <2>1. k # c /\ req'[k] = req[k] /\ req[k].i \in Ids
    BY <1>2 DEF MembershipInv, AllLoaded, Loaded, InHand
  <2>2. invitation'[req[k].i] = invitation[req[k].i]
    BY <2>1 DEF MembershipInv, HandsDiffer
  <2> QED
    BY <2>1, <2>2 DEF MembershipInv, Unsettled
<1> QED
  BY <1>3, <1>4, <1>5, <1>6 DEF MembershipInv

LEMMA CreateInv ==
  ASSUME MembershipAssumption, MembershipInv, NEW c \in Clerks, create_invitation(c)
  PROVE  MembershipInv'
<1> DEFINE e == [email |-> req[c].email, role_id |-> req[c].role, status |-> "PENDING",
                 expires_at |-> today + INVITATION_TTL_DAYS]
<1>1. req[c].email \in Emails /\ req[c].role \in Roles
  BY DEF create_invitation, At, MembershipInv, AllLoaded, Loaded, InHand
<1>2. e \in Invitation
  BY <1>1 DEF MembershipInv, MembershipTypes, MembershipAssumption, Invitation, InvitationStatus
<1>3. invitation' = Append(invitation, e) /\ End(c)
  BY DEF create_invitation
<1> HIDE DEF e
<1>4. /\ invitation' \in Seq(Invitation) /\ Ids \subseteq Ids'
      /\ \A j \in Ids : invitation'[j] = invitation[j]
  BY <1>2, <1>3 DEF MembershipInv, MembershipTypes, Ids
<1> QED
  BY <1>3, <1>4, EndInv

\* The step of a request that has an invitation in hand: one nobody else had was not settled.
LEMMA WriteInv ==
  ASSUME MembershipInv, NEW c \in Clerks, req[c].pc \in InHand, NEW s \in InvitationStatus,
         invitation' = set_invitation(req[c].i, s), End(c)
  PROVE  MembershipInv' /\ \A i \in Ids : invitation[i].status \in Final
                                   => invitation'[i].status = invitation[i].status \/ i \in raced
<1>1. req[c].i \in Ids /\ invitation \in Seq(Invitation)
  BY DEF MembershipInv, MembershipTypes, AllLoaded, Loaded, InHand
<1>2. /\ invitation' \in Seq(Invitation) /\ Ids' = Ids
      /\ \A j \in Ids : j # req[c].i => invitation'[j] = invitation[j]
  BY <1>1, SetInvitation
<1>3. MembershipInv'
  BY <1>2, EndInv
<1> QED
  BY <1>2, <1>3 DEF MembershipInv, Unsettled

-----------------------------------------------------------------------------
Stays == \A i \in Ids : invitation[i].status \in Final
                            => invitation'[i].status = invitation[i].status \/ i \in raced

LEMMA FrameInv ==
  ASSUME MembershipInv, UNCHANGED <<req, raced, invitation>>, today' \in Nat
  PROVE  MembershipInv'
BY DEF MembershipInv, MembershipTypes, AllLoaded, Loaded, HandsDiffer, Unsettled, Ids

LEMMA MembershipNextInv ==
  ASSUME MembershipAssumption, MembershipInv, [MembershipNext]_<<requests, membershipVars>>
  PROVE  MembershipInv' /\ Stays
<1>1. ASSUME NEW e \in Emails, signup(e) PROVE MembershipInv' /\ Stays
  BY <1>1, FrameInv DEF signup, Once, Stays, MembershipInv, MembershipTypes
<1>2. ASSUME NEW c \in Clerks, NEW e \in Emails, NEW r \in Roles, BeginInvite(c, e, r)
      PROVE  MembershipInv' /\ Stays
  <2> DEFINE q == [pc |-> "invite", email |-> e, role |-> r, keys |-> {}]
  <2>1. Hold(c, q) /\ UNCHANGED membershipVars
    BY <1>2 DEF BeginInvite
  <2>2. Loaded(q) /\ q.pc \notin InHand
    BY DEF Loaded, InHand
  <2> HIDE DEF q
  <2> QED
    BY <2>1, <2>2, HoldInv DEF membershipVars, Stays
<1>3. ASSUME NEW c \in Clerks, NEW i \in Ids, BeginRevoke(c, i) PROVE MembershipInv' /\ Stays
  <2> DEFINE q == [pc |-> "revoke", i |-> i, keys |-> {i}]
  <2>1. Hold(c, q) /\ UNCHANGED membershipVars /\ invitation[i].status \notin Final
    BY <1>3 DEF BeginRevoke, Final
  <2>2. Loaded(q) /\ q.i = i
    BY DEF Loaded, InHand
  <2> HIDE DEF q
  <2> QED
    BY <2>1, <2>2, HoldInv DEF membershipVars, Stays
<1>4. ASSUME NEW c \in Clerks, NEW i \in Ids, BeginExpire(c, i) PROVE MembershipInv' /\ Stays
  <2> DEFINE q == [pc |-> "expire", i |-> i, keys |-> {i}]
  <2>1. Hold(c, q) /\ UNCHANGED membershipVars /\ invitation[i].status \notin Final
    BY <1>4 DEF BeginExpire, Overdue, Final
  <2>2. Loaded(q) /\ q.i = i
    BY DEF Loaded, InHand
  <2> HIDE DEF q
  <2> QED
    BY <2>1, <2>2, HoldInv DEF membershipVars, Stays
<1>5. ASSUME NEW c \in Clerks, NEW i \in Ids, BeginAccept(c, i) PROVE MembershipInv' /\ Stays
  <2>1. PICK q : Hold(c, q) /\ q.pc = "accept" /\ q.i = i /\ q.keys = {i}
    BY <1>5 DEF BeginAccept
  <2>2. UNCHANGED membershipVars /\ invitation[i].status \notin Final /\ Loaded(q)
    BY <1>5, <2>1 DEF BeginAccept, refused, Final, Loaded, InHand
  <2> QED
    BY <2>1, <2>2, HoldInv DEF membershipVars, Stays
<1>6. ASSUME NEW c \in Clerks, create_invitation(c) PROVE MembershipInv' /\ Stays
  <2>1. MembershipInv'
    BY <1>6, CreateInv
  <2>2. \A i \in Ids : invitation'[i] = invitation[i]
    BY <1>6 DEF create_invitation, Ids, MembershipInv, MembershipTypes
  <2> QED
    BY <2>1, <2>2 DEF Stays
<1>7. ASSUME NEW c \in Clerks, revoke_invitation(c) PROVE MembershipInv' /\ Stays
  BY <1>7, WriteInv DEF revoke_invitation, At, InHand, InvitationStatus, Stays
<1>8. ASSUME NEW c \in Clerks, ExpireInvitation(c) PROVE MembershipInv' /\ Stays
  BY <1>8, WriteInv DEF ExpireInvitation, At, InHand, InvitationStatus, Stays
<1>9. ASSUME NEW c \in Clerks, accept_invitation(c) PROVE MembershipInv' /\ Stays
  BY <1>9, WriteInv DEF accept_invitation, At, InHand, InvitationStatus, Stays
<1>10. ASSUME NEW c \in Clerks, FailAccept(c) PROVE MembershipInv' /\ Stays
  BY <1>10, EndInv DEF FailAccept, membershipVars, Stays, MembershipInv, MembershipTypes, Ids
<1>11. CASE NextDay /\ UNCHANGED membershipVars
  BY <1>11, FrameInv DEF NextDay, membershipVars, Stays, MembershipInv, MembershipTypes
<1>12. CASE UNCHANGED <<requests, membershipVars>>
  BY <1>12, FrameInv DEF requests, membershipVars, Stays, MembershipInv, MembershipTypes
<1> QED
  BY <1>1, <1>2, <1>3, <1>4, <1>5, <1>6, <1>7, <1>8, <1>9, <1>10, <1>11, <1>12 DEF MembershipNext

\* An invitation accepted or revoked stays so, whichever requests revoke, accept or expire
\* it afterwards, unless two requests had it in hand at once.
THEOREM SettledInvitationStays == MembershipSpec => InvitationSettled
<1>1. RequestsInit /\ MembershipInit => MembershipInv
  BY MembershipInitInv
<1>2. MembershipInv /\ [MembershipNext]_<<requests, membershipVars>> => MembershipInv'
  BY MembershipNextInv, MembershipAssumption
<1>3. MembershipInv /\ [MembershipNext]_<<requests, membershipVars>> => [Stays]_membershipVars
  BY MembershipNextInv, MembershipAssumption
<1>4. Stays <=> \A i \in Ids : invitation[i].status \in {"ACCEPTED", "REVOKED"}
                                  => invitation'[i].status = invitation[i].status \/ i \in raced
  BY DEF Stays, Final
<1> QED
  BY <1>1, <1>2, <1>3, <1>4, PTL DEF MembershipSpec, InvitationSettled

------------------------------------------------------------------------------
(***************************************************************************)
(* For any number of checkouts, events and deliveries, and any statuses    *)
(* Stripe may give: once all events have come in order, the row agrees     *)
(* with the one subscription the organisation ever made.                   *)
(*                                                                         *)
(* Every event records the status Stripe had when it was sent (LastSent),  *)
(* so that a notice, which the handlers let pass, says what the event      *)
(* before it said (NoticesRepeat), and the first event is a "created".     *)
(* After the event delivered last, the row agrees with it (RowFollows),    *)
(* and applying that event again changes nothing.                          *)
(***************************************************************************)

Updates == {"created", "updated"}
Notices == {"checkout", "payment_failed", "payment_succeeded"}
Events  == [type : Updates \union Notices \union {"deleted"}, id : Checkouts,
            status : StripeStatuses]

\* What AgreesWithStripe asks of the row.
Agrees(status) ==
    /\ status = "active" => subscription.status = "ACTIVE"
    /\ status \in {"past_due", "unpaid"} => subscription.status = "PAST_DUE"
    /\ status = "canceled" => subscription.status = "CANCELLED"

BillingTypes ==
    /\ stripe \in [Checkouts -> StripeStatuses \union {NotYet}]
    /\ event \in Seq(Events)
    /\ delivered \in 0..Len(event)
    /\ disordered \in BOOLEAN
    /\ subscription = [status |-> subscription.status,
                       stripe_subscription_id |-> subscription.stripe_subscription_id]

\* An event is about a subscription that Stripe has, and the first one made it.
OfSubscriptions ==
    /\ \A n \in 1..Len(event) : stripe[event[n].id] # NotYet
    /\ event = <<>> => \A s \in Checkouts : stripe[s] = NotYet
    /\ event # <<>> => event[1].type \in Updates

LastSent == event # <<>> => event[Len(event)].status = stripe[event[Len(event)].id]

NoticesRepeat ==
    \A n \in 1..Len(event) :
        /\ n > 1 /\ event[n].type \in Notices /\ event[n-1].id = event[n].id
        => event[n].status = event[n-1].status

DeletedIsCanceled == \A n \in 1..Len(event) : event[n].type = "deleted" => event[n].status = "canceled"

RowFollows ==
    /\ ~disordered /\ delivered > 0
    /\ \A m, n \in 1..delivered : event[m].id = event[n].id
    => Agrees(event[delivered].status)

BillingInv == BillingTypes /\ OfSubscriptions /\ LastSent /\ NoticesRepeat /\ DeletedIsCanceled /\ RowFollows

-----------------------------------------------------------------------------
LEMMA EventFields ==
  ASSUME event \in Seq(Events), NEW n \in 1..Len(event)
  PROVE  /\ event[n].type \in Updates \union Notices \union {"deleted"}
         /\ event[n].id \in Checkouts /\ event[n].status \in StripeStatuses
<1>1. event[n] \in Events
  OBVIOUS
<1> QED
  BY <1>1 DEF Events

LEMMA BillingInitInv == ASSUME BillingInit PROVE BillingInv
<1>1. /\ event = <<>> /\ Len(event) = 0 /\ delivered = 0 /\ disordered = FALSE
      /\ stripe = [s \in Checkouts |-> NotYet]
      /\ subscription = [status |-> "TRIALING", stripe_subscription_id |-> NotYet]
  BY DEF BillingInit
<1>2. BillingTypes
  <2>1. event \in Seq(Events)
    BY <1>1
  <2>2. /\ subscription.status = "TRIALING" /\ subscription.stripe_subscription_id = NotYet
        /\ stripe \in [Checkouts -> StripeStatuses \union {NotYet}]
    BY <1>1
  <2>3. subscription = [status |-> subscription.status,
                        stripe_subscription_id |-> subscription.stripe_subscription_id]
    BY <1>1, <2>2
  <2>4. delivered \in 0..Len(event)
    <3>1. 0 \in 0..0
      OBVIOUS
    <3> QED
      BY <1>1, <3>1
  <2>5. disordered \in BOOLEAN
    BY <1>1, Zenon
  <2> QED
    BY <2>1, <2>2, <2>3, <2>4, <2>5 DEF BillingTypes
<1> QED
  BY <1>1, <1>2 DEF BillingInv, OfSubscriptions, LastSent, NoticesRepeat, DeletedIsCanceled, RowFollows

\* Stripe sends an event: all conjuncts but LastSent and NoticesRepeat look at the older ones.
LEMMA SendInv ==
  ASSUME BillingAssumption, BillingInv, NEW s \in Checkouts, NEW status \in StripeStatuses,
         NEW type \in Updates \union Notices \union {"deleted"},
         Send(type, s, status), stripe' = [stripe EXCEPT ![s] = status],
         type \in Notices => stripe[s] = status,
         type = "deleted" => status = "canceled",
         event = <<>> => type \in Updates
  PROVE  BillingInv'
<1> DEFINE e == [type |-> type, id |-> s, status |-> status]
<1>1. /\ e \in Events /\ event \in Seq(Events) /\ event' = Append(event, e)
      /\ e.type = type /\ e.id = s /\ e.status = status
      /\ UNCHANGED <<subscription, delivered, disordered>>
  BY DEF Send, Events, BillingInv, BillingTypes
<1> HIDE DEF e
<1>2. /\ event' \in Seq(Events) /\ Len(event') = Len(event) + 1 /\ event'[Len(event')] = e
      /\ \A n \in 1..Len(event) : event'[n] = event[n]
      /\ Len(event) \in Nat /\ event' # <<>>
      /\ event # <<>> => Len(event) > 0
  BY <1>1
<1>3. BillingTypes'
  BY <1>1, <1>2 DEF BillingInv, BillingTypes
<1>4. \A n \in 1..Len(event) : event[n].id \in Checkouts
  BY <1>1, EventFields
<1>5. /\ \A n \in 1..Len(event') : stripe'[event'[n].id] # NotYet
      /\ event'[1].type \in Updates
  <2>1. ASSUME NEW n \in 1..Len(event') PROVE stripe'[event'[n].id] # NotYet
    <3>1. CASE n = Len(event')
      BY <3>1, <1>1, <1>2, BillingAssumption DEF BillingInv, BillingTypes, BillingAssumption
    <3>2. CASE n \in 1..Len(event)
      BY <3>2, <1>2, <1>4, BillingAssumption DEF BillingInv, BillingTypes, OfSubscriptions, BillingAssumption
    <3> QED
      BY <3>1, <3>2, <1>2
  <2>2. event'[1].type \in Updates
    <3>1. CASE event = <<>>
      BY <3>1, <1>1, <1>2
    <3>2. CASE event # <<>>
      BY <3>2, <1>2 DEF BillingInv, OfSubscriptions
    <3> QED
      BY <3>1, <3>2
  <2> QED
    BY <2>1, <2>2
<1>6. OfSubscriptions'
  BY <1>5, <1>2 DEF OfSubscriptions
<1>7. LastSent'
  BY <1>1, <1>2 DEF LastSent, BillingInv, BillingTypes
<1>8. NoticesRepeat'
  <2> SUFFICES ASSUME NEW n \in 1..Len(event'), n > 1, event'[n].type \in Notices,
                      event'[n-1].id = event'[n].id
               PROVE  event'[n].status = event'[n-1].status
    BY DEF NoticesRepeat
  <2>1. CASE n = Len(event')
    <3>1. n - 1 = Len(event) /\ event # <<>> /\ event'[n-1] = event[Len(event)]
      BY <2>1, <1>2, <1>1
    <3> QED
      BY <2>1, <3>1, <1>1, <1>2 DEF BillingInv, LastSent
  <2>2. CASE n \in 1..Len(event)
    <3>1. n - 1 \in 1..Len(event)
      BY <2>2
    <3> QED
      BY <2>2, <3>1, <1>2 DEF BillingInv, NoticesRepeat
  <2> QED
    BY <2>1, <2>2, <1>2
<1>9. DeletedIsCanceled'
  BY <1>1, <1>2 DEF BillingInv, DeletedIsCanceled
<1>10. RowFollows'
  <2>1. \A n \in 1..delivered : n \in 1..Len(event)
    BY <1>2 DEF BillingInv, BillingTypes
  <2>2. delivered > 0 => delivered \in 1..delivered
    BY DEF BillingInv, BillingTypes
  <2> QED
    BY <1>1, <1>2, <2>1, <2>2 DEF BillingInv, RowFollows, Agrees
<1> QED
  BY <1>3, <1>6, <1>7, <1>8, <1>9, <1>10 DEF BillingInv

LEMMA StripeChangesInv ==
  ASSUME BillingAssumption, BillingInv, NEW s \in Checkouts, NEW status \in StripeStatuses,
         StripeChanges(s, status)
  PROVE  BillingInv'
<1>1. stripe' = [stripe EXCEPT ![s] = status]
  BY DEF StripeChanges
<1>2. CASE stripe[s] = NotYet
  <2>1. Send("created", s, status)
    BY <1>2 DEF StripeChanges
  <2> QED
    BY <1>1, <2>1, SendInv DEF Updates, Notices
<1>3. CASE stripe[s] # NotYet /\ status = "canceled"
  <2>1. event # <<>>
    BY <1>3 DEF BillingInv, OfSubscriptions
  <2> QED
    BY <1>1, <1>3, <2>1, SendInv DEF StripeChanges, Updates, Notices
<1>4. CASE stripe[s] # NotYet /\ status # "canceled"
  BY <1>1, <1>4, SendInv DEF StripeChanges, Updates, Notices
<1> QED
  BY <1>2, <1>3, <1>4

LEMMA StripeNotifiesInv ==
  ASSUME BillingAssumption, BillingInv, NEW s \in Checkouts, NEW type \in Notices, StripeNotifies(s, type)
  PROVE  BillingInv'
<1>1. /\ stripe[s] \in StripeStatuses /\ stripe' = [stripe EXCEPT ![s] = stripe[s]]
      /\ Send(type, s, stripe[s])
  BY DEF StripeNotifies, BillingInv, BillingTypes
<1>2. event # <<>> /\ type # "deleted"
  BY DEF StripeNotifies, BillingInv, OfSubscriptions, Notices
<1> QED
  BY <1>1, <1>2, SendInv

-----------------------------------------------------------------------------
\* What a handler leaves: a change and a deletion agree with the event, a notice changes no status.
LEMMA HandlerAgrees ==
  ASSUME BillingInv, NEW n \in 1..Len(event), subscription' = handle_webhook_event(event[n]), event' = event
  PROVE  /\ subscription' = [status |-> subscription'.status,
                             stripe_subscription_id |-> subscription'.stripe_subscription_id]
         /\ event[n].type \notin Notices => Agrees(event[n].status)'
         /\ event[n].type \in Notices => subscription'.status = subscription.status
<1> DEFINE e == event[n]
<1>1. e.type \in Updates \union Notices \union {"deleted"}
  BY EventFields DEF BillingInv, BillingTypes
<1>2. CASE e.type = "checkout"
  BY <1>2 DEF handle_webhook_event, _on_checkout_session_completed, BillingInv, BillingTypes, Notices
<1>3. CASE e.type \in Updates
  <2>1. subscription' = [status |-> Mapped(e.status, subscription.status), stripe_subscription_id |-> e.id]
    BY <1>3 DEF handle_webhook_event, _on_subscription_created_or_updated, Updates
  <2> QED
    BY <1>3, <2>1 DEF Mapped, _STRIPE_STATUS_MAP, Agrees, Updates, Notices
<1>4. CASE e.type = "deleted"
  <2>1. subscription' = [subscription EXCEPT !.status = "CANCELLED"] /\ e.status = "canceled"
    BY <1>4 DEF handle_webhook_event, _on_subscription_deleted, BillingInv, DeletedIsCanceled
  <2> QED
    BY <1>4, <2>1 DEF BillingInv, BillingTypes, Agrees, Notices
<1>5. CASE e.type \in {"payment_failed", "payment_succeeded"}
  BY <1>5 DEF handle_webhook_event, _on_invoice_payment_failed, _on_invoice_payment_succeeded,
              RowSeen, NoTenant, Notices, BillingInv, BillingTypes
<1> QED
  BY <1>1, <1>2, <1>3, <1>4, <1>5 DEF Events, Updates, Notices

LEMMA WebhookInv == ASSUME BillingInv, NEW n \in 1..Len(event), stripe_webhook(n) PROVE BillingInv'
<1>1. /\ subscription' = handle_webhook_event(event[n]) /\ UNCHANGED <<stripe, event>>
      /\ delivered' = (IF n > delivered THEN n ELSE delivered)
      /\ disordered' = (disordered \/ n \notin {delivered, delivered + 1})
  BY DEF stripe_webhook
<1>2. BillingTypes'
  BY <1>1, HandlerAgrees DEF BillingInv, BillingTypes
<1>3. OfSubscriptions' /\ LastSent' /\ NoticesRepeat' /\ DeletedIsCanceled'
  BY <1>1 DEF BillingInv, OfSubscriptions, LastSent, NoticesRepeat, DeletedIsCanceled
<1>4. RowFollows'
  <2> SUFFICES ASSUME ~disordered', delivered' > 0,
                      \A m, k \in 1..delivered' : event[m].id = event[k].id
               PROVE  Agrees(event[delivered].status)'
    BY <1>1 DEF RowFollows
  <2>1. ~disordered /\ delivered' = n /\ (n = delivered \/ n = delivered + 1)
    <3>1. ~disordered /\ n \in {delivered, delivered + 1}
      BY <1>1, Zenon
    <3> QED
      BY <3>1, <1>1 DEF BillingInv, BillingTypes
  <2>2. CASE event[n].type \notin Notices
    BY <2>1, <2>2, <1>1, HandlerAgrees DEF Agrees
  <2>3. CASE event[n].type \in Notices
    <3>1. delivered > 0
      <4>1. CASE n = delivered
        BY <4>1
      <4>2. CASE n = delivered + 1
        <5>1. n = 1 => event[n].type \in Updates
          BY DEF BillingInv, OfSubscriptions
        <5> QED
          BY <4>2, <5>1, <2>3 DEF Updates, Notices, BillingInv, BillingTypes
      <4> QED
        BY <4>1, <4>2, <2>1
    <3>2. event[n].status = event[delivered].status
      <4>1. CASE n = delivered
        BY <4>1
      <4>2. CASE n = delivered + 1
        <5>1. n > 1 /\ n - 1 = delivered /\ n \in 1..n /\ delivered \in 1..n
          BY <4>2, <3>1 DEF BillingInv, BillingTypes
        <5> QED
          BY <5>1, <2>1, <2>3 DEF BillingInv, NoticesRepeat
      <4> QED
        BY <4>1, <4>2, <2>1
    <3>3. Agrees(event[delivered].status)
      <4>1. \A m \in 1..delivered : m \in 1..n
        BY <2>1 DEF BillingInv, BillingTypes
      <4> QED
        BY <2>1, <3>1, <4>1 DEF BillingInv, RowFollows
    <3> QED
      BY <2>1, <2>3, <3>2, <3>3, <1>1, HandlerAgrees DEF Agrees
  <2> QED
    BY <2>2, <2>3
<1> QED
  BY <1>2, <1>3, <1>4 DEF BillingInv

-----------------------------------------------------------------------------
LEMMA BillingNextInv == ASSUME BillingAssumption, BillingInv, [BillingNext]_billingVars PROVE BillingInv'
<1>1. ASSUME NEW s \in Checkouts, NEW status \in StripeStatuses, StripeChanges(s, status) PROVE BillingInv'
  BY <1>1, StripeChangesInv
<1>2. ASSUME NEW s \in Checkouts, NEW type \in Notices, StripeNotifies(s, type) PROVE BillingInv'
  BY <1>2, StripeNotifiesInv
<1>3. ASSUME NEW n \in 1..Len(event), stripe_webhook(n) PROVE BillingInv'
  BY <1>3, WebhookInv
<1>4. CASE UNCHANGED billingVars
  BY <1>4 DEF billingVars, BillingInv, BillingTypes, OfSubscriptions, LastSent, NoticesRepeat,
              DeletedIsCanceled, RowFollows, Agrees
<1> QED
  BY <1>1, <1>2, <1>3, <1>4 DEF BillingNext, Notices

\* What the invariant says when every event has come.
LEMMA AllDelivered ==
  ASSUME BillingInv, NEW s \in Checkouts, delivered = Len(event), ~disordered, stripe[s] # NotYet,
         \A t \in Checkouts \ {s} : stripe[t] = NotYet
  PROVE  Agrees(stripe[s])
<1>1. event # <<>> /\ event \in Seq(Events)
  BY DEF BillingInv, OfSubscriptions, BillingTypes
<1>2. Len(event) \in Nat /\ Len(event) > 0
  BY <1>1
<1>3. \A n \in 1..Len(event) : event[n].id = s
  <2>1. \A n \in 1..Len(event) : event[n].id \in Checkouts
    BY <1>1, EventFields
  <2> QED
    BY <2>1 DEF BillingInv, OfSubscriptions
<1>4. event[Len(event)].status = stripe[s]
  BY <1>1, <1>2, <1>3 DEF BillingInv, LastSent
<1> QED
  BY <1>2, <1>3, <1>4 DEF BillingInv, RowFollows

\* When all events have come and in order, the row says of the one subscription the
\* organisation ever made at Stripe whether it is paid for, owed or at an end, whatever
\* checkouts and invoices were notified before Stripe's last change.
THEOREM RowAgreesWithStripe == BillingSpec => []AgreesWithStripe
<1>1. BillingInit => BillingInv
  BY BillingInitInv
<1>2. BillingInv /\ [BillingNext]_billingVars => BillingInv'
  BY BillingNextInv, BillingAssumption
<1>3. BillingInv => AgreesWithStripe
  <2> SUFFICES ASSUME BillingInv, NEW s \in Checkouts, delivered = Len(event), ~disordered,
                      stripe[s] # NotYet, \A t \in Checkouts \ {s} : stripe[t] = NotYet
               PROVE  Agrees(stripe[s])
    BY DEF AgreesWithStripe, InStep, Agrees
  <2> QED
    BY AllDelivered
<1> QED
  BY <1>1, <1>2, <1>3, PTL DEF BillingSpec

-----------------------------------------------------------------------------
(* The platform *)

\* A step of the platform is a step of each component, or leaves it alone: the platform's
\* specification implies the specification of each of the four.
THEOREM PlatformRunsEach == Spec => LazySpec /\ WorkerSpec /\ MembershipSpec /\ BillingSpec
<1>1. Init => /\ LazyInit /\ WorkerInit /\ BillingInit
              /\ RequestsInit /\ MembershipInit
  BY DEF Init
<1>2. [Next]_vars => /\ [LazyNext]_lazyVars /\ [WorkerNext]_workerVars
                     /\ [MembershipNext]_<<requests, membershipVars>>
                     /\ [BillingNext]_billingVars
  BY DEF Next, vars
<1>. QED
  BY <1>1, <1>2, PTL DEF Spec, LazySpec, WorkerSpec, MembershipSpec, BillingSpec

\* On the platform, a day on which a tick reached the scan's check within the hour has every
\* organisation scanned exactly once when its scan is over, unless the scan raised or the
\* process died that day (worker/main.py, main).
COROLLARY PlatformScansOnce == Spec => []ScanAccounted
  BY PlatformRunsEach, ScannedOnce

\* On the platform, an invitation accepted or revoked stays so, unless two requests had it
\* in hand at once (organisations/router.py).
COROLLARY PlatformSettles == Spec => InvitationSettled
  BY PlatformRunsEach, SettledInvitationStays

\* On the platform, when all events have come and in order, the row says of the one
\* subscription the organisation ever made whether it is paid for, owed or at an end, if no
\* invoice was notified since Stripe's last change (integrations/billing_provider.py).
COROLLARY PlatformAgreesWithStripe == Spec => []AgreesWithStripe
  BY PlatformRunsEach, RowAgreesWithStripe

\* On the platform, when the calls other than Ask's read the rows in one order, a circle of
\* requests that wait for one another goes through Ask or through a lost INSERT.
COROLLARY PlatformHasNoOtherCircle ==
  ASSUME NEW CONSTANT Rank \in [Codes -> Nat],
         \A r \in Calls : ~r.asks => InOrder(r.plan, Rank)
  PROVE  Spec => []CirclesExplained
  BY PlatformRunsEach, OrderedCallsHaveNoCircle
==============================================================================
