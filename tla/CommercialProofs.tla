--------------------------- MODULE CommercialProofs ---------------------------
(***************************************************************************)
(* Theorems about module Commercial, for every number of clerks, leases,   *)
(* obligations and payments, every payload and every window.               *)
(*                                                                         *)
(* The argument rests on two facts about what is in flight.  A row that    *)
(* was not raced is held by ONE request at a time, so what the request     *)
(* loaded is still so when it commits (KeyInv, MoneyInv, TrailInv).  While *)
(* no request lost the race to create the config row, the payment being    *)
(* reconciled holds that row's lock, so no other payment is between its    *)
(* reading of what is outstanding and its commit (LockHeld, AutoInv).       *)
(***************************************************************************)
EXTENDS Commercial, TableLemmas, FiniteSetTheorems, SequenceTheorems, TLAPS

-----------------------------------------------------------------------------
(* Types, of the rows and of what a request holds *)

Event == [at : Nat, before : LeaseStatuses, after : LeaseStatuses]

Result == [payment_id : {None}, obligation_id : 0..MaxObligations, amount : Int,
           status : AllocationStatuses, source_type : {"SYSTEM_GENERATED"}]

LeaseRequest == [pc : {"lease"}, key : {"lease"} \X Nat, id : Nat, to : LeaseStatuses,
                 at : Nat, seen : LeaseStatuses]
ConfigRequest == [pc : {"config", "insert", "setconfig"}, key : {<<>>}, next : {"setconfig"},
                  window : Windows, value : Windows]
PaymentRequest == [pc : {"config", "insert", "open", "decide", "commit"}, key : {<<>>},
                   next : {"open"}, window : Windows, pay : PaymentTransaction,
                   candidates : SUBSET (1..MaxObligations), result : Result]
ResolveRequest == [pc : {"resolve"}, key : {"payment"} \X Nat, id : Nat, obligation : Nat,
                   amount : Int]
ManualRequest == [pc : {"manual"}, key : {"payment"} \X Nat, id : Nat, obligation : Nat,
                  amount : Int]

\* What the reconciler may decide of a payment: it places no more than was received.
Sound(result, pay) == result.status = "MATCHED" => result.amount <= pay.amount

\* What a clerk holds names rows that exist.
PaymentHeld(r) ==
    /\ r \in PaymentRequest
    /\ r.candidates \subseteq Obligations
    /\ r.result.obligation_id \in Obligations \union {None}
    /\ Sound(r.result, r.pay)

ClerkOK(c) ==
    LET r == req[c] IN
    \/ r = Idle
    \/ /\ r \in LeaseRequest
       /\ r.key = <<"lease", r.id>> /\ r.id \in Leases /\ r.at < begun
    \/ r \in ConfigRequest
    \/ PaymentHeld(r)
    \/ /\ r \in ResolveRequest
       /\ r.id \in Allocations /\ r.obligation \in Obligations /\ r.amount \in Amounts
       /\ r.key = <<"payment", allocation[r.id].payment_id>>
    \/ /\ r \in ManualRequest
       /\ r.id \in Payments /\ r.obligation \in Obligations /\ r.amount \in Amounts
       /\ r.key = <<"payment", r.id>>

RowsOK ==
    /\ tenants \in Nat /\ begun \in 0..MaxBegun
    /\ lease \in Seq(Lease) /\ Len(lease) <= MaxLeases
    /\ obligation \in Seq(RentObligation) /\ Len(obligation) <= MaxObligations
    /\ payment \in Seq(PaymentTransaction)
    /\ allocation \in Seq(PaymentAllocation)
    /\ \A a \in Allocations : /\ allocation[a].payment_id \in Payments
                              /\ allocation[a].obligation_id \in Obligations \union {None}
    /\ config \in PaymentReconciliationConfig
    /\ config.state = "absent" => config.lock = NoClerk
    /\ trail \in Seq(SUBSET Event) /\ Len(trail) = Len(lease)
    /\ \A l \in Leases : \A e \in trail[l] : e.at < begun
    /\ DOMAIN req = Clerks /\ req = [c \in Clerks |-> req[c]]

TypeInv == RowsOK /\ \A c \in Clerks : ClerkOK(c)

Flying == {c \in Clerks : InFlight(c)}

\* Every payment was begun by a request of its own.
CountInv == IsFiniteSet(Flying) /\ Len(payment) + Cardinality(Flying) <= begun

-----------------------------------------------------------------------------
(* The decision of match_payment *)

LEMMA NumberTypes ==
  /\ \A x \in Amounts : x \in Int
  /\ \A x \in Windows : x \in Int
  /\ MaxLeases \in Nat /\ MaxObligations \in Nat /\ MaxBegun \in Nat
  /\ DefaultWindow \in Windows
  BY NumbersAssumption

LEMMA MinOfTwo ==
  \A x, y \in Int : Min({x, y}) \in Int /\ Min({x, y}) <= x /\ Min({x, y}) <= y
<1>. TAKE x, y \in Int
<1>1. \E z \in {x, y} : \A w \in {x, y} : z <= w
  OBVIOUS
<1>2. Min({x, y}) \in {x, y} /\ \A w \in {x, y} : Min({x, y}) <= w
  BY <1>1 DEF Min
<1>. QED
  BY <1>2

LEMMA MinOfRules ==
  ASSUME NEW S \in SUBSET (1..3), S # {}
  PROVE  Min(S) \in S
<1>1. \E z \in S : \A w \in S : z <= w
  <2>1. CASE 1 \in S
    BY <2>1
  <2>2. CASE 1 \notin S /\ 2 \in S
    BY <2>2
  <2>3. CASE 1 \notin S /\ 2 \notin S
    <3>1. \A w \in S : w = 3
      BY <2>3
    <3>2. 3 \in S
      BY <3>1
    <3>. QED
      BY <3>1, <3>2
  <2>. QED
    BY <2>1, <2>2, <2>3
<1>. QED
  BY <1>1 DEF Min

LEMMA AllocationsFinite ==
  ASSUME RowsOK
  PROVE  /\ IsFiniteSet(Allocations) /\ IsFiniteSet(Payments)
         /\ Allocations = 1..Len(allocation) /\ Payments = 1..Len(payment)
         /\ Obligations = 1..Len(obligation) /\ Leases = 1..Len(lease)
         /\ Len(allocation) \in Nat /\ Len(payment) \in Nat /\ Len(obligation) \in Nat
         /\ Len(lease) \in Nat
         /\ \A a \in Allocations : allocation[a] \in PaymentAllocation
         /\ \A p \in Payments : payment[p] \in PaymentTransaction
         /\ \A o \in Obligations : obligation[o] \in RentObligation
         /\ \A l \in Leases : lease[l] \in Lease
<1>1. /\ Len(allocation) \in Nat /\ Allocations = 1..Len(allocation)
      /\ Len(payment) \in Nat /\ Payments = 1..Len(payment)
      /\ Len(obligation) \in Nat /\ Obligations = 1..Len(obligation)
      /\ Len(lease) \in Nat /\ Leases = 1..Len(lease)
  BY DEF RowsOK, Allocations, Payments, Obligations, Leases
<1>2. IsFiniteSet(1..Len(allocation)) /\ IsFiniteSet(1..Len(payment))
  BY <1>1, FS_Interval
<1>3. /\ \A a \in 1..Len(allocation) : allocation[a] \in PaymentAllocation
      /\ \A p \in 1..Len(payment) : payment[p] \in PaymentTransaction
      /\ \A o \in 1..Len(obligation) : obligation[o] \in RentObligation
      /\ \A l \in 1..Len(lease) : lease[l] \in Lease
  BY ElementOfSeq DEF RowsOK
<1>. QED
  BY <1>1, <1>2, <1>3

LEMMA AllocatedType ==
  ASSUME RowsOK, NEW S \in SUBSET Allocations
  PROVE  Allocated(S) \in Int
<1>. DEFINE f == [a \in Allocations |-> allocation[a].amount]
<1>1. IsFiniteSet(S) /\ \A a \in S : f[a] \in Int
  BY AllocationsFinite, FS_Subset DEF PaymentAllocation
<1>. HIDE DEF f
<1>2. SumFunctionOnSet(f, S) \in Int
  BY <1>1, SumType
<1>. QED
  BY <1>2 DEF Allocated, f

LEMMA OutstandingType ==
  ASSUME RowsOK, NEW o \in Obligations
  PROVE  /\ matched_amount_for_obligation(o) \in Int /\ outstanding_for_obligation(o) \in Int
         /\ outstanding_for_obligation(o)
               = obligation[o].amount_due - matched_amount_for_obligation(o)
<1>1. matched_amount_for_obligation(o) \in Int
  BY AllocatedType DEF matched_amount_for_obligation
<1>2. obligation[o].amount_due \in Int
  <2>1. obligation[o] \in RentObligation
    BY AllocationsFinite
  <2>2. obligation[o].amount_due \in Amounts
    BY <2>1 DEF RentObligation
  <2>. QED
    BY <2>2, NumberTypes
<1>. QED
  BY <1>1, <1>2 DEF outstanding_for_obligation

\* What the reconciler decides: when it is sure, never more than the payment brought and
\* never more than is outstanding on the obligation.
LEMMA MatchResult ==
  ASSUME RowsOK, NEW pay \in PaymentTransaction,
         NEW candidates \in SUBSET Obligations, NEW window \in Int
  PROVE  LET m == match_payment(pay, candidates, window) IN
         /\ m \in Result
         /\ m.obligation_id \in Obligations \union {None}
         /\ m.status = "MATCHED" => /\ m.obligation_id \in Obligations
                                    /\ m.amount <= pay.amount
                                    /\ m.amount <= outstanding_for_obligation(m.obligation_id)
<1>. DEFINE Left(o) == outstanding_for_obligation(o)
            f1 == {o \in candidates : /\ pay.payer_reference # NoRef
                                      /\ obligation[o].invoice_reference = pay.payer_reference}
            f2 == {o \in candidates : Left(o) = pay.amount /\ Within(o, pay, window)}
            f3 == {o \in candidates : pay.amount < Left(o) /\ Within(o, pay, window)}
            found == <<f1, f2, f3>>
            hits == {i \in 1..3 : found[i] # {}}
            rule == Min(hits)
            o == Only(found[rule])
<1>1. pay.amount \in Int
  BY NumbersAssumption DEF PaymentTransaction
<1>2. match_payment(pay, candidates, window) =
        IF hits = {} THEN record_allocation(None, 0, "UNALLOCATED")
        ELSE IF Cardinality(found[rule]) > 1 THEN record_allocation(None, 0, "NEEDS_REVIEW")
        ELSE record_allocation(o, IF rule = 1 THEN Min({pay.amount, Left(o)}) ELSE pay.amount,
                               IF rule = 3 THEN "POSSIBLE_MATCH" ELSE "MATCHED")
  BY DEF match_payment
<1>3. ASSUME NEW s \in {"UNALLOCATED", "NEEDS_REVIEW"}
      PROVE  LET m == record_allocation(None, 0, s) IN
             /\ m \in Result /\ m.obligation_id \in Obligations \union {None}
             /\ m.amount = 0 /\ m.status # "MATCHED"
  BY AllocationsFinite, NumbersAssumption DEF record_allocation, Result, None, AllocationStatuses
<1>4. CASE hits = {} \/ Cardinality(found[rule]) > 1
  <2>. DEFINE m == match_payment(pay, candidates, window)
  <2>1. PICK s \in {"UNALLOCATED", "NEEDS_REVIEW"} : m = record_allocation(None, 0, s)
    BY <1>2, <1>4
  <2>. HIDE DEF m
  <2>2. m \in Result /\ m.obligation_id \in Obligations \union {None} /\ m.amount = 0 /\ m.status # "MATCHED"
    BY <1>3, <2>1
  <2>. QED
    BY <1>1, <2>2 DEF m
<1>5. CASE hits # {} /\ ~(Cardinality(found[rule]) > 1)
  <2>1. rule \in hits
    <3>. HIDE DEF found
    <3>1. hits \in SUBSET (1..3)
      OBVIOUS
    <3>. HIDE DEF hits
    <3>. QED
      BY <1>5, <3>1, MinOfRules
  <2>. HIDE DEF rule
  <2>2. found[rule] # {}
    BY <2>1
  <2>3. o \in found[rule]
    BY <2>2 DEF Only
  <2>. HIDE DEF o
  <2>4. rule \in {1, 2, 3}
    BY <2>1
  <2>. HIDE DEF hits
  <2>5. o \in candidates /\ (rule = 2 => Left(o) = pay.amount)
    <3>1. CASE rule = 1
      BY <2>3, <3>1
    <3>2. CASE rule = 2
      BY <2>3, <3>2
    <3>3. CASE rule = 3
      BY <2>3, <3>3
    <3>. QED
      BY <2>4, <3>1, <3>2, <3>3
  <2>6. o \in Obligations /\ o \in 0..MaxObligations
    BY <2>5, AllocationsFinite, NumbersAssumption DEF RowsOK
  <2>11. Left(o) \in Int
    BY <2>6, OutstandingType
  <2>12. Left(o) \in Int /\ pay.amount \in Int
    BY <1>1, <2>11
  <2>7. /\ Min({pay.amount, Left(o)}) \in Int /\ Min({pay.amount, Left(o)}) <= pay.amount
        /\ Min({pay.amount, Left(o)}) <= Left(o)
    BY <2>12, MinOfTwo, Zenon
  <2>. HIDE DEF found
  <2>. DEFINE m == match_payment(pay, candidates, window)
              amt == IF rule = 1 THEN Min({pay.amount, Left(o)}) ELSE pay.amount
              sts == IF rule = 3 THEN "POSSIBLE_MATCH" ELSE "MATCHED"
  <2>8. m = record_allocation(o, amt, sts)
    BY <1>2, <1>5
  <2>9. /\ amt \in Int /\ amt <= pay.amount /\ sts \in AllocationStatuses
        /\ sts = "MATCHED" => amt <= Left(o)
    BY <1>1, <2>4, <2>5, <2>7 DEF AllocationStatuses
  <2>. HIDE DEF amt, sts, m
  <2>10. /\ m \in Result /\ m.obligation_id = o /\ m.amount = amt /\ m.status = sts
    BY <2>6, <2>8, <2>9 DEF record_allocation, Result
  <2>. QED
    BY <2>6, <2>9, <2>10 DEF m
<1>. QED
  BY <1>4, <1>5

-----------------------------------------------------------------------------
(* Types are kept *)

\* Rows are only added, and an allocation stays its payment's.
Grow ==
    /\ Leases \subseteq Leases' /\ Obligations \subseteq Obligations'
    /\ Payments \subseteq Payments' /\ Allocations \subseteq Allocations'
    /\ begun <= begun'
    /\ \A a \in Allocations : allocation'[a].payment_id = allocation[a].payment_id

LEMMA OthersKept ==
  ASSUME TypeInv, Grow, RowsOK', NEW d \in Clerks, req'[d] = req[d]
  PROVE  ClerkOK(d)'
<1>. DEFINE r == req[d]
<1>1. begun \in Nat /\ begun' \in Nat /\ begun <= begun'
  BY NumberTypes DEF TypeInv, RowsOK, Grow
<1>2. ClerkOK(d)
  BY DEF TypeInv
<1>3. CASE r = Idle
  BY <1>3 DEF ClerkOK
<1>4. CASE /\ r \in LeaseRequest
           /\ r.key = <<"lease", r.id>> /\ r.id \in Leases /\ r.at < begun
  <2>1. r.id \in Leases' /\ r.at < begun'
    BY <1>1, <1>4 DEF Grow, LeaseRequest
  <2>. QED
    BY <1>4, <2>1 DEF ClerkOK
<1>5. CASE r \in ConfigRequest
  BY <1>5 DEF ClerkOK
<1>6. CASE PaymentHeld(r)
  BY <1>6 DEF ClerkOK, PaymentHeld, Grow
<1>7. CASE /\ r \in ResolveRequest
           /\ r.id \in Allocations /\ r.obligation \in Obligations /\ r.amount \in Amounts
           /\ r.key = <<"payment", allocation[r.id].payment_id>>
  <2>1. r.id \in Allocations' /\ r.obligation \in Obligations'
        /\ r.key = <<"payment", allocation'[r.id].payment_id>>
    BY <1>7 DEF Grow
  <2>. QED
    BY <1>7, <2>1 DEF ClerkOK
<1>8. CASE /\ r \in ManualRequest
           /\ r.id \in Payments /\ r.obligation \in Obligations /\ r.amount \in Amounts
           /\ r.key = <<"payment", r.id>>
  <2>1. r.id \in Payments' /\ r.obligation \in Obligations'
    BY <1>8 DEF Grow
  <2>. QED
    BY <1>8, <2>1 DEF ClerkOK
<1>. QED
  BY <1>2, <1>3, <1>4, <1>5, <1>6, <1>7, <1>8 DEF ClerkOK

LEMMA RowsKept ==
  ASSUME RowsOK, UNCHANGED <<tenants, lease, obligation, payment, allocation, trail>>,
         begun <= begun', begun' \in 0..MaxBegun,
         config' \in PaymentReconciliationConfig,
         config'.state = "absent" => config'.lock = NoClerk,
         NEW c, NEW r, req' = [req EXCEPT ![c] = r]
  PROVE  RowsOK' /\ Grow
<1>1. DOMAIN req' = Clerks /\ req' = [d \in Clerks |-> req'[d]]
  BY DEF RowsOK
<1>2. Grow
  BY DEF Grow, Leases, Obligations, Payments, Allocations
<1>3. \A l \in Leases' : \A e \in trail'[l] : e.at < begun'
  <2>1. begun \in Nat /\ begun' \in Nat
    BY NumberTypes DEF RowsOK
  <2>2. \A l \in Leases : trail[l] \in SUBSET Event
    BY ElementOfSeq DEF RowsOK, Leases
  <2>. QED
    BY <2>1, <2>2 DEF RowsOK, Leases, Event
<1>4. /\ (tenants \in Nat /\ lease \in Seq(Lease) /\ Len(lease) <= MaxLeases)'
      /\ (obligation \in Seq(RentObligation) /\ Len(obligation) <= MaxObligations)'
      /\ (payment \in Seq(PaymentTransaction) /\ allocation \in Seq(PaymentAllocation))'
      /\ (trail \in Seq(SUBSET Event) /\ Len(trail) = Len(lease))'
  BY DEF RowsOK
<1>5. (\A a \in Allocations : /\ allocation[a].payment_id \in Payments
                              /\ allocation[a].obligation_id \in Obligations \union {None})'
  BY DEF RowsOK, Allocations, Payments, Obligations
<1>. QED
  BY <1>1, <1>2, <1>3, <1>4, <1>5 DEF RowsOK

\* A step that changes no row but what clerk c is doing, and perhaps the config row.
LEMMA RequestStep ==
  ASSUME TypeInv, UNCHANGED <<tenants, lease, obligation, payment, allocation, trail>>,
         begun <= begun', begun' \in 0..MaxBegun,
         config' \in PaymentReconciliationConfig,
         config'.state = "absent" => config'.lock = NoClerk,
         NEW c \in Clerks, NEW r, req' = [req EXCEPT ![c] = r],
         RowsOK' => ClerkOK(c)'
  PROVE  TypeInv'
<1>1. RowsOK' /\ Grow
  BY RowsKept DEF TypeInv
<1>2. ASSUME NEW d \in Clerks, d # c PROVE ClerkOK(d)'
  BY <1>1, <1>2, OthersKept DEF TypeInv, RowsOK
<1>. QED
  BY <1>1, <1>2 DEF TypeInv

LEMMA ReqAt ==
  ASSUME RowsOK, NEW c \in Clerks, NEW r, req' = [req EXCEPT ![c] = r]
  PROVE  req'[c] = r /\ \A d \in Clerks : d # c => req'[d] = req[d]
  BY DEF RowsOK

LEMMA ConfigSame ==
  ASSUME RowsOK, UNCHANGED config
  PROVE  /\ config' \in PaymentReconciliationConfig
         /\ config'.state = "absent" => config'.lock = NoClerk
  BY DEF RowsOK

LEMMA BegunStays ==
  ASSUME RowsOK
  PROVE  begun \in Nat /\ begun \in 0..MaxBegun /\ begun <= begun /\ MaxBegun \in Nat
  BY NumberTypes DEF RowsOK

LEMMA HoldStep ==
  ASSUME TypeInv, NEW c \in Clerks, CanBegin(c), NEW r, Hold(c, r),
         RowsOK' /\ Grow /\ req'[c] = r /\ begun' = begun + 1 => ClerkOK(c)'
  PROVE  TypeInv'
<1>1. begun \in Nat /\ begun' = begun + 1 /\ begun' \in 0..MaxBegun /\ begun <= begun'
  BY BegunStays DEF TypeInv, CanBegin, Hold
<1>2. /\ UNCHANGED <<tenants, lease, obligation, payment, allocation, trail>>
      /\ UNCHANGED config /\ req' = [req EXCEPT ![c] = r]
  BY DEF Hold, rows
<1>3. /\ config' \in PaymentReconciliationConfig
      /\ config'.state = "absent" => config'.lock = NoClerk
  BY <1>2, ConfigSame DEF TypeInv
<1>4. RowsOK' /\ Grow /\ req'[c] = r
  BY <1>1, <1>2, <1>3, RowsKept, ReqAt DEF TypeInv
<1>. QED
  BY <1>1, <1>2, <1>3, <1>4, RequestStep

\* The requests that begin.
LEMMA TypeBegin ==
  ASSUME TypeInv, NEW c \in Clerks,
         \/ BeginLeaseStatus(c) \/ BeginConfig(c) \/ AddPayment(c) \/ import_payment_row(c)
         \/ BeginResolve(c) \/ BeginManualAllocation(c)
  PROVE  TypeInv'
<1>0. begun \in Nat
  BY BegunStays DEF TypeInv
<1>1. CASE BeginLeaseStatus(c)
  <2>1. PICK l \in Leases, to \in LeaseStatuses :
          Hold(c, [pc |-> "lease", key |-> <<"lease", l>>, id |-> l, to |-> to, at |-> begun,
                   seen |-> lease[l].lease_status])
    BY <1>1 DEF BeginLeaseStatus
  <2>. DEFINE r == [pc |-> "lease", key |-> <<"lease", l>>, id |-> l, to |-> to, at |-> begun,
                    seen |-> lease[l].lease_status]
  <2>2. r \in LeaseRequest /\ r.key = <<"lease", r.id>> /\ r.id \in Leases /\ r.at = begun
    BY <1>0, AllocationsFinite DEF LeaseRequest, TypeInv, Lease
  <2>. HIDE DEF r
  <2>3. Hold(c, r) /\ CanBegin(c)
    BY <1>1, <2>1 DEF r, BeginLeaseStatus
  <2>4. Grow /\ req'[c] = r /\ begun' = begun + 1 => ClerkOK(c)'
    <3>1. SUFFICES ASSUME Grow, req'[c] = r, begun' = begun + 1 PROVE ClerkOK(c)'
      OBVIOUS
    <3>2. r.id \in Leases' /\ r.at < begun'
      BY <1>0, <2>2, <3>1 DEF Grow
    <3>. QED
      BY <2>2, <3>1, <3>2 DEF ClerkOK
  <2>. QED
    BY <2>3, <2>4, HoldStep
<1>2. CASE BeginConfig(c)
  <2>1. PICK w \in Windows :
          Hold(c, [pc |-> "config", key |-> <<>>, next |-> "setconfig", window |-> w, value |-> w])
    BY <1>2 DEF BeginConfig
  <2>. DEFINE r == [pc |-> "config", key |-> <<>>, next |-> "setconfig", window |-> w, value |-> w]
  <2>2. r \in ConfigRequest
    BY DEF ConfigRequest
  <2>. HIDE DEF r
  <2>3. Hold(c, r) /\ CanBegin(c)
    BY <1>2, <2>1 DEF r, BeginConfig
  <2>4. req'[c] = r => ClerkOK(c)'
    BY <2>2 DEF ClerkOK
  <2>. QED
    BY <2>3, <2>4, HoldStep
<1>3. ASSUME NEW pay \in PaymentTransaction, BeginPayment(c, pay)
      PROVE  TypeInv'
  <2>. DEFINE r == [pc |-> "config", key |-> <<>>, next |-> "open", window |-> DefaultWindow,
                    pay |-> pay, candidates |-> {},
                    result |-> record_allocation(None, 0, "UNALLOCATED")]
  <2>1. record_allocation(None, 0, "UNALLOCATED") \in Result
    BY NumberTypes DEF record_allocation, Result, None, AllocationStatuses
  <2>2. /\ r \in PaymentRequest /\ r.candidates = {} /\ r.result.obligation_id = None
        /\ Sound(r.result, r.pay)
    <3>1. pay.amount \in Int
      BY NumberTypes DEF PaymentTransaction
    <3>. QED
      BY <2>1, <3>1, NumberTypes DEF PaymentRequest, record_allocation, Sound
  <2>3. Hold(c, r) /\ CanBegin(c)
    BY <1>3 DEF BeginPayment
  <2>. HIDE DEF r
  <2>4. req'[c] = r => ClerkOK(c)'
    BY <2>2 DEF ClerkOK, PaymentHeld
  <2>. QED
    BY <2>3, <2>4, HoldStep
<1>4. CASE AddPayment(c)
  <2>1. PICK pay \in PaymentPayloads : BeginPayment(c, pay)
    BY <1>4 DEF AddPayment
  <2>2. pay \in PaymentTransaction
    BY PayloadsAssumption DEF PaymentTransaction
  <2>. QED
    BY <1>3, <2>1, <2>2
<1>5. CASE import_payment_row(c)
  <2>1. PICK pay \in PaymentPayloads :
          BeginPayment(c, [pay EXCEPT !.lease_id = IF @ \in Leases THEN @ ELSE None])
    BY <1>5 DEF import_payment_row
  <2>2. pay \in PaymentTransaction
    BY PayloadsAssumption DEF PaymentTransaction
  <2>3. [pay EXCEPT !.lease_id = IF @ \in Leases THEN @ ELSE None] \in PaymentTransaction
    BY <2>2, NumberTypes DEF PaymentTransaction, None
  <2>. QED
    BY <1>3, <2>1, <2>3
<1>6. CASE BeginResolve(c)
  <2>1. PICK a \in Allocations, o \in Obligations, amount \in Amounts :
          Hold(c, [pc |-> "resolve", key |-> <<"payment", allocation[a].payment_id>>,
                   id |-> a, obligation |-> o, amount |-> amount])
    BY <1>6 DEF BeginResolve
  <2>. DEFINE r == [pc |-> "resolve", key |-> <<"payment", allocation[a].payment_id>>,
                    id |-> a, obligation |-> o, amount |-> amount]
  <2>2. /\ r \in ResolveRequest /\ r.id \in Allocations /\ r.obligation \in Obligations
        /\ r.amount \in Amounts /\ r.key = <<"payment", allocation[r.id].payment_id>>
    <3>1. a \in Nat /\ o \in Nat /\ amount \in Int /\ allocation[a].payment_id \in Nat
      BY AllocationsFinite, NumberTypes DEF TypeInv, RowsOK
    <3>. QED
      BY <3>1 DEF ResolveRequest
  <2>. HIDE DEF r
  <2>3. Hold(c, r) /\ CanBegin(c)
    BY <1>6, <2>1 DEF r, BeginResolve
  <2>4. Grow /\ req'[c] = r => ClerkOK(c)'
    <3>1. SUFFICES ASSUME Grow, req'[c] = r PROVE ClerkOK(c)'
      OBVIOUS
    <3>2. /\ r.id \in Allocations' /\ r.obligation \in Obligations'
          /\ r.key = <<"payment", allocation'[r.id].payment_id>>
      BY <2>2, <3>1 DEF Grow
    <3>. QED
      BY <2>2, <3>1, <3>2 DEF ClerkOK
  <2>. QED
    BY <2>3, <2>4, HoldStep
<1>7. CASE BeginManualAllocation(c)
  <2>1. PICK p \in Payments, o \in Obligations, amount \in Amounts :
          Hold(c, [pc |-> "manual", key |-> <<"payment", p>>, id |-> p,
                   obligation |-> o, amount |-> amount])
    BY <1>7 DEF BeginManualAllocation
  <2>. DEFINE r == [pc |-> "manual", key |-> <<"payment", p>>, id |-> p,
                    obligation |-> o, amount |-> amount]
  <2>2. /\ r \in ManualRequest /\ r.id \in Payments /\ r.obligation \in Obligations
        /\ r.amount \in Amounts /\ r.key = <<"payment", r.id>>
    <3>1. p \in Nat /\ o \in Nat /\ amount \in Int
      BY AllocationsFinite, NumberTypes DEF TypeInv
    <3>. QED
      BY <3>1 DEF ManualRequest
  <2>. HIDE DEF r
  <2>3. Hold(c, r) /\ CanBegin(c)
    BY <1>7, <2>1 DEF r, BeginManualAllocation
  <2>4. Grow /\ req'[c] = r => ClerkOK(c)'
    <3>1. SUFFICES ASSUME Grow, req'[c] = r PROVE ClerkOK(c)'
      OBVIOUS
    <3>2. r.id \in Payments' /\ r.obligation \in Obligations'
      BY <2>2, <3>1 DEF Grow
    <3>. QED
      BY <2>2, <3>1, <3>2 DEF ClerkOK
  <2>. QED
    BY <2>3, <2>4, HoldStep
<1>. QED
  BY <1>1, <1>2, <1>4, <1>5, <1>6, <1>7

\* What a clerk holds, by where its handler stands.
LEMMA ClerkAt ==
  ASSUME NEW c, ClerkOK(c)
  PROVE  LET r == req[c] IN
         /\ r.pc \in {"config", "insert"} =>
               \/ r \in ConfigRequest
               \/ PaymentHeld(r)
         /\ r.pc = "setconfig" => r \in ConfigRequest
         /\ r.pc \in {"open", "decide", "commit"} =>
               PaymentHeld(r)
         /\ r.pc = "lease" => /\ r \in LeaseRequest /\ r.key = <<"lease", r.id>>
                               /\ r.id \in Leases /\ r.at < begun
         /\ r.pc = "resolve" =>
               /\ r \in ResolveRequest /\ r.id \in Allocations /\ r.obligation \in Obligations
               /\ r.amount \in Amounts /\ r.key = <<"payment", allocation[r.id].payment_id>>
         /\ r.pc = "manual" =>
               /\ r \in ManualRequest /\ r.id \in Payments /\ r.obligation \in Obligations
               /\ r.amount \in Amounts /\ r.key = <<"payment", r.id>>
  BY DEF ClerkOK, Idle, LeaseRequest, ConfigRequest, PaymentRequest, ResolveRequest, ManualRequest,
         PaymentHeld

\* Going on from the config row with its window.
LEMMA GoOnStep ==
  ASSUME TypeInv, NEW c \in Clerks, req[c].pc \in {"config", "insert"}, NEW w \in Windows,
         GoOn(c, w), UNCHANGED <<rows, begun>>,
         config' \in PaymentReconciliationConfig,
         config'.state = "absent" => config'.lock = NoClerk
  PROVE  TypeInv'
<1>. DEFINE r == [req[c] EXCEPT !.pc = req[c].next, !.window = w]
<1>1. req' = [req EXCEPT ![c] = r]
  BY DEF GoOn
<1>2. req'[c] = r
  BY <1>1, ReqAt DEF TypeInv
<1>3. CASE req[c] \in ConfigRequest
  <2>1. r \in ConfigRequest
    BY <1>3 DEF ConfigRequest
  <2>. HIDE DEF r
  <2>2. ClerkOK(c)'
    BY <1>2, <2>1 DEF ClerkOK
  <2>. QED
    BY <1>1, <2>2, RequestStep, BegunStays DEF rows, TypeInv
<1>4. CASE PaymentHeld(req[c])
  <2>1. /\ r \in PaymentRequest /\ r.candidates = req[c].candidates
        /\ r.result = req[c].result /\ r.pay = req[c].pay
    BY <1>4 DEF PaymentRequest, PaymentHeld
  <2>. HIDE DEF r
  <2>2. /\ r.candidates \subseteq Obligations'
        /\ r.result.obligation_id \in Obligations' \union {None}
        /\ Sound(r.result, r.pay)
    BY <1>4, <2>1 DEF rows, Obligations, PaymentHeld
  <2>3. ClerkOK(c)'
    BY <1>2, <2>1, <2>2 DEF ClerkOK, PaymentHeld
  <2>. QED
    BY <1>1, <2>3, RequestStep, BegunStays DEF rows, TypeInv
<1>. QED
  BY <1>3, <1>4, ClerkAt DEF TypeInv

LEMMA EndStep ==
  ASSUME TypeInv, NEW c \in Clerks, End(c), UNCHANGED <<rows, begun>>,
         config' \in PaymentReconciliationConfig,
         config'.state = "absent" => config'.lock = NoClerk
  PROVE  TypeInv'
<1>1. req' = [req EXCEPT ![c] = Idle]
  BY DEF End
<1>2. ClerkOK(c)'
  BY <1>1, ReqAt DEF ClerkOK, TypeInv
<1>. QED
  BY <1>1, <1>2, RequestStep, BegunStays DEF rows, TypeInv

LEMMA ReleasedType ==
  ASSUME RowsOK, NEW c \in Clerks
  PROVE  /\ Released(c) \in PaymentReconciliationConfig
         /\ Released(c).state = "absent" => Released(c).lock = NoClerk
  BY DEF RowsOK, Released, PaymentReconciliationConfig

LEMMA TypeConfig ==
  ASSUME TypeInv, NEW c \in Clerks,
         \/ ConfigStep(c) \/ UpdateReconciliationConfig(c) \/ GetReconciliationConfig(c)
         \/ ReadOpenObligations(c) \/ DecideMatch(c)
  PROVE  TypeInv'
<1>0. config \in PaymentReconciliationConfig /\ config.window \in Windows
  BY DEF TypeInv, RowsOK, PaymentReconciliationConfig
<1>1. CASE SelectConfig(c)
  <2>1. config' \in PaymentReconciliationConfig /\ config'.state = "present"
    BY <1>0, <1>1 DEF SelectConfig, PaymentReconciliationConfig
  <2>. QED
    BY <1>0, <1>1, <2>1, GoOnStep DEF SelectConfig
<1>2. CASE MissConfig(c)
  <2>. DEFINE r == [req[c] EXCEPT !.pc = "insert"]
  <2>1. req' = [req EXCEPT ![c] = r]
    BY <1>2 DEF MissConfig, Goto
  <2>2. req'[c] = r
    BY <2>1, ReqAt DEF TypeInv
  <2>3. \/ r \in ConfigRequest
        \/ PaymentHeld(r)
    BY <1>2, ClerkAt DEF MissConfig, TypeInv, ConfigRequest, PaymentRequest, PaymentHeld
  <2>. HIDE DEF r
  <2>4. ClerkOK(c)'
    BY <1>2, <2>2, <2>3 DEF MissConfig, rows, ClerkOK, PaymentHeld, Obligations
  <2>. QED
    BY <1>2, <2>1, <2>4, RequestStep, ConfigSame, BegunStays DEF MissConfig, rows, TypeInv
<1>3. CASE InsertConfig(c)
  <2>1. config' \in PaymentReconciliationConfig /\ config'.state = "pending"
    BY <1>3, NumberTypes DEF InsertConfig, PaymentReconciliationConfig
  <2>. QED
    BY <1>3, <2>1, GoOnStep, NumberTypes DEF InsertConfig
<1>4. CASE LoseConfig(c)
  BY <1>0, <1>4, GoOnStep, ConfigSame DEF LoseConfig, TypeInv
<1>5. CASE UpdateReconciliationConfig(c)
  <2>1. req[c].value \in Windows
    BY <1>5, ClerkAt DEF UpdateReconciliationConfig, TypeInv, ConfigRequest
  <2>2. config' \in PaymentReconciliationConfig /\ config'.state = "present"
    BY <1>5, <2>1 DEF UpdateReconciliationConfig, PaymentReconciliationConfig
  <2>. QED
    BY <1>5, <2>2, EndStep DEF UpdateReconciliationConfig
<1>6. CASE GetReconciliationConfig(c)
  BY <1>6, ReleasedType, EndStep DEF GetReconciliationConfig, TypeInv
<1>7. CASE ReadOpenObligations(c)
  <2>. DEFINE S == IF req[c].pay.lease_id = None THEN {} ELSE open_obligations(req[c].pay.lease_id)
              r == [req[c] EXCEPT !.pc = "decide", !.candidates = S]
  <2>1. req' = [req EXCEPT ![c] = r]
    BY <1>7 DEF ReadOpenObligations
  <2>2. req'[c] = r
    BY <2>1, ReqAt DEF TypeInv
  <2>3. S \subseteq Obligations
    BY DEF open_obligations
  <2>4. S \in SUBSET (1..MaxObligations)
    BY <2>3, AllocationsFinite, NumberTypes DEF TypeInv, RowsOK
  <2>. HIDE DEF S
  <2>5. PaymentHeld(r)
    <3>1. PaymentHeld(req[c])
      BY <1>7, ClerkAt DEF ReadOpenObligations, TypeInv
    <3>2. r \in PaymentRequest /\ r.candidates = S /\ r.result = req[c].result /\ r.pay = req[c].pay
      BY <3>1, <2>4 DEF PaymentRequest, PaymentHeld
    <3>. HIDE DEF r
    <3>. QED
      BY <3>1, <3>2, <2>3 DEF PaymentHeld
  <2>. HIDE DEF r
  <2>6. ClerkOK(c)'
    BY <1>7, <2>2, <2>5 DEF ReadOpenObligations, rows, ClerkOK, PaymentHeld, Obligations
  <2>. QED
    BY <1>7, <2>1, <2>6, RequestStep, ConfigSame, BegunStays DEF ReadOpenObligations, rows, TypeInv
<1>8. CASE DecideMatch(c)
  <2>. DEFINE m == match_payment(req[c].pay, req[c].candidates, req[c].window)
              r == [req[c] EXCEPT !.pc = "commit", !.result = m]
  <2>1. req' = [req EXCEPT ![c] = r]
    BY <1>8 DEF DecideMatch
  <2>2. req'[c] = r
    BY <2>1, ReqAt DEF TypeInv
  <2>3. PaymentHeld(req[c])
    BY <1>8, ClerkAt DEF DecideMatch, TypeInv
  <2>4. m \in Result /\ m.obligation_id \in Obligations \union {None} /\ Sound(m, req[c].pay)
    <3>1. req[c].pay \in PaymentTransaction /\ req[c].window \in Int
      BY <2>3, NumberTypes DEF PaymentRequest, PaymentHeld
    <3>. QED
      BY <2>3, <3>1, MatchResult DEF TypeInv, PaymentHeld, Sound
  <2>. HIDE DEF m
  <2>5. PaymentHeld(r)
    <3>1. r \in PaymentRequest /\ r.candidates = req[c].candidates /\ r.result = m /\ r.pay = req[c].pay
      BY <2>3, <2>4 DEF PaymentRequest, PaymentHeld
    <3>. HIDE DEF r
    <3>. QED
      BY <2>3, <2>4, <3>1 DEF PaymentHeld
  <2>. HIDE DEF r
  <2>6. ClerkOK(c)'
    BY <1>8, <2>2, <2>5 DEF DecideMatch, rows, ClerkOK, PaymentHeld, Obligations
  <2>. QED
    BY <1>8, <2>1, <2>6, RequestStep, ConfigSame, BegunStays DEF DecideMatch, rows, TypeInv
<1>. QED
  BY <1>1, <1>2, <1>3, <1>4, <1>5, <1>6, <1>7, <1>8 DEF ConfigStep

LEMMA TypeByRows ==
  ASSUME TypeInv, RowsOK', Grow, UNCHANGED req \/ \E c \in Clerks : End(c)
  PROVE  TypeInv'
<1>1. CASE UNCHANGED req
  BY <1>1, OthersKept DEF TypeInv
<1>2. ASSUME NEW c \in Clerks, End(c) PROVE TypeInv'
  <2>1. req'[c] = Idle /\ \A d \in Clerks : d # c => req'[d] = req[d]
    BY <1>2, ReqAt DEF End, TypeInv
  <2>2. ClerkOK(c)'
    BY <2>1 DEF ClerkOK
  <2>3. \A d \in Clerks : d # c => ClerkOK(d)'
    BY <2>1, OthersKept
  <2>. QED
    BY <2>2, <2>3 DEF TypeInv
<1>. QED
  BY <1>1, <1>2

\* The rows no step of lease, obligation or allocation touches.
LEMMA ReqKept ==
  ASSUME RowsOK, UNCHANGED req \/ \E c \in Clerks : End(c)
  PROVE  DOMAIN req' = Clerks /\ req' = [d \in Clerks |-> req'[d]]
  BY DEF RowsOK, End

LEMMA TypeLeases ==
  ASSUME TypeInv, AddTenant \/ AddLease \/ UpdateOccupancyStatus \/ \E c \in Clerks : UpdateLeaseStatus(c)
  PROVE  TypeInv'
<1>0. /\ Len(lease) \in Nat /\ lease \in Seq(Lease) /\ trail \in Seq(SUBSET Event)
      /\ Len(trail) = Len(lease) /\ Leases = 1..Len(lease) /\ Len(lease) <= MaxLeases
      /\ MaxLeases \in Nat /\ tenants \in Nat /\ begun \in Nat /\ MaxBegun \in Nat
      /\ begun <= MaxBegun
  BY AllocationsFinite, NumberTypes DEF TypeInv, RowsOK
<1>1. CASE AddTenant
  <2>1. tenants' \in Nat
    BY <1>0, <1>1 DEF AddTenant
  <2>2. RowsOK' /\ Grow
    BY <1>0, <1>1, <2>1 DEF AddTenant, TypeInv, RowsOK, Grow, Leases, Obligations, Payments, Allocations
  <2>. QED
    BY <1>1, <2>2, TypeByRows DEF AddTenant
<1>2. CASE AddLease
  <2>1. PICK p \in Properties : lease' = Append(lease, create_lease(p))
    BY <1>2 DEF AddLease
  <2>2. create_lease(p) \in Lease
    BY DEF create_lease, Lease, LeaseStatuses, OccupancyStatuses
  <2>3. /\ lease' \in Seq(Lease) /\ Len(lease') = Len(lease) + 1 /\ Leases' = 1..Len(lease) + 1
    BY <1>0, <2>1, <2>2 DEF Leases
  <2>4. /\ trail' \in Seq(SUBSET Event) /\ Len(trail') = Len(lease) + 1
        /\ \A l \in Leases : trail'[l] = trail[l]
        /\ trail'[Len(lease) + 1] = {}
    BY <1>0, <1>2 DEF AddLease
  <2>5. \A l \in Leases' : \A e \in trail'[l] : e.at < begun
    <3>1. \A l \in Leases : \A e \in trail'[l] : e.at < begun
      BY <2>4 DEF TypeInv, RowsOK
    <3>2. \A l \in Leases' : l \in Leases \/ l = Len(lease) + 1
      BY <1>0, <2>3
    <3>. QED
      BY <2>4, <3>1, <3>2
  <2>6. Len(lease') <= MaxLeases
    BY <1>0, <1>2, <2>3 DEF AddLease
  <2>7. RowsOK'
    BY <1>0, <1>2, <2>3, <2>4, <2>5, <2>6
       DEF AddLease, TypeInv, RowsOK, Obligations, Payments, Allocations
  <2>8. Grow
    BY <1>0, <1>2, <2>3 DEF AddLease, Grow, Obligations, Payments, Allocations
  <2>. QED
    BY <1>2, <2>7, <2>8, TypeByRows DEF AddLease
<1>3. CASE UpdateOccupancyStatus
  <2>1. PICK l \in Leases, to \in OccupancyStatuses :
          lease' = [lease EXCEPT ![l].occupancy_status = to]
    BY <1>3 DEF UpdateOccupancyStatus
  <2>2. lease' \in Seq(Lease) /\ Len(lease') = Len(lease) /\ Leases' = Leases
    <3>1. [lease[l] EXCEPT !.occupancy_status = to] \in Lease
      BY <1>0, AllocationsFinite DEF Lease, TypeInv
    <3>. QED
      BY <1>0, <2>1, <3>1 DEF Leases
  <2>3. begun' \in 0..MaxBegun /\ begun <= begun'
    BY <1>0, <1>3 DEF UpdateOccupancyStatus
  <2>4. \A k \in Leases' : \A e \in trail'[k] : e.at < begun'
    <3>1. \A k \in Leases : trail[k] \in SUBSET Event
      BY <1>0, ElementOfSeq
    <3>. QED
      BY <1>0, <1>3, <2>2, <2>3, <3>1 DEF UpdateOccupancyStatus, TypeInv, RowsOK, Event
  <2>5. RowsOK'
    BY <1>0, <1>3, <2>2, <2>3, <2>4
       DEF UpdateOccupancyStatus, TypeInv, RowsOK, Obligations, Payments, Allocations
  <2>6. Grow
    BY <1>3, <2>2, <2>3 DEF UpdateOccupancyStatus, Grow, Obligations, Payments, Allocations
  <2>. QED
    BY <1>3, <2>5, <2>6, TypeByRows DEF UpdateOccupancyStatus
<1>4. ASSUME NEW c \in Clerks, UpdateLeaseStatus(c) PROVE TypeInv'
  <2>. DEFINE r == req[c]
              new == update_lease_status(r.seen, r.to)
  <2>1. /\ r \in LeaseRequest /\ r.id \in Leases /\ r.at < begun
    BY <1>4, ClerkAt DEF UpdateLeaseStatus, TypeInv
  <2>2. new \in LeaseStatuses
    BY <2>1 DEF update_lease_status, LeaseRequest
  <2>3. record_audit_event(r.at, r.seen, new) \in Event
    BY <2>1, <2>2 DEF record_audit_event, Event, LeaseRequest
  <2>4. record_audit_event(r.at, r.seen, new).at = r.at
    BY DEF record_audit_event
  <2>. DEFINE ev == record_audit_event(r.at, r.seen, new)
  <2>5. \/ UNCHANGED <<lease, trail>>
        \/ /\ lease' = [lease EXCEPT ![r.id].lease_status = new]
           /\ trail' = [trail EXCEPT ![r.id] = @ \union {ev}]
    BY <1>4 DEF UpdateLeaseStatus
  <2>. HIDE DEF new, ev
  <2>6. \A k \in Leases : trail[k] \in SUBSET Event
    BY <1>0, ElementOfSeq
  <2>7. lease' \in Seq(Lease) /\ Len(lease') = Len(lease) /\ Leases' = Leases
    <3>1. [lease[r.id] EXCEPT !.lease_status = new] \in Lease
      BY <2>1, <2>2, AllocationsFinite DEF Lease, TypeInv
    <3>2. CASE lease' = [lease EXCEPT ![r.id].lease_status = new]
      BY <1>0, <2>1, <3>1, <3>2 DEF Leases
    <3>. QED
      BY <1>0, <2>5, <3>2 DEF Leases
  <2>8. trail' \in Seq(SUBSET Event) /\ Len(trail') = Len(trail)
    <3>1. trail[r.id] \union {ev} \in SUBSET Event
      BY <2>1, <2>3, <2>6 DEF ev
    <3>2. CASE trail' = [trail EXCEPT ![r.id] = @ \union {ev}]
      BY <1>0, <2>1, <3>1, <3>2
    <3>. QED
      BY <1>0, <2>5, <3>2
  <2>9. \A k \in Leases' : \A e \in trail'[k] : e.at < begun
    <3>1. \A k \in Leases : trail'[k] \subseteq trail[k] \union {ev}
      BY <1>0, <2>1, <2>5
    <3>2. ev.at < begun
      BY <2>1, <2>4 DEF ev
    <3>. QED
      BY <2>7, <3>1, <3>2 DEF TypeInv, RowsOK
  <2>10. DOMAIN req' = Clerks /\ req' = [d \in Clerks |-> req'[d]]
    BY <1>4, ReqKept DEF UpdateLeaseStatus, TypeInv
  <2>11. RowsOK'
    BY <1>0, <1>4, <2>7, <2>8, <2>9, <2>10
       DEF UpdateLeaseStatus, TypeInv, RowsOK, Obligations, Payments, Allocations
  <2>12. Grow
    BY <1>0, <1>4, <2>7 DEF UpdateLeaseStatus, Grow, Obligations, Payments, Allocations
  <2>. QED
    BY <1>4, <2>11, <2>12, TypeByRows DEF UpdateLeaseStatus
<1>. QED
  BY <1>1, <1>2, <1>3, <1>4

LEMMA TypeObligations ==
  ASSUME TypeInv, AddRentObligation \/ ImportRentObligationRow
  PROVE  TypeInv'
<1>1. PICK o \in ObligationPayloads : \/ obligation' = obligation \o <<o>>
                                      \/ obligation' = obligation
  <2>1. PICK o \in ObligationPayloads, parses \in BOOLEAN :
          \/ obligation' = obligation \o create_rent_obligation(o)
          \/ obligation' = obligation \o import_rent_obligation_row(o, parses)
    BY DEF AddRentObligation, ImportRentObligationRow
  <2>2. obligation \o <<>> = obligation
    BY DEF TypeInv, RowsOK
  <2>. QED
    BY <2>1, <2>2 DEF create_rent_obligation, import_rent_obligation_row
<1>2. o \in RentObligation
  BY PayloadsAssumption DEF RentObligation
<1>3. /\ Len(obligation) < MaxObligations
      /\ UNCHANGED <<tenants, lease, payment, allocation, config, trail, req, begun, raced>>
  BY DEF AddRentObligation, ImportRentObligationRow
<1>4. obligation \in Seq(RentObligation) /\ Len(obligation) \in Nat /\ MaxObligations \in Nat
  BY AllocationsFinite, NumberTypes DEF TypeInv, RowsOK
<1>5. /\ obligation' \in Seq(RentObligation) /\ Len(obligation') \in Len(obligation)..MaxObligations
      /\ Obligations \subseteq Obligations'
  BY <1>1, <1>2, <1>3, <1>4 DEF Obligations
<1>6. (\A a \in Allocations : /\ allocation[a].payment_id \in Payments
                              /\ allocation[a].obligation_id \in Obligations \union {None})'
  BY <1>3, <1>4, <1>5 DEF TypeInv, RowsOK, Allocations, Payments
<1>7. RowsOK'
  BY <1>3, <1>4, <1>5, <1>6 DEF TypeInv, RowsOK, Leases
<1>8. Grow
  BY <1>3, <1>5, BegunStays DEF Grow, Leases, Payments, Allocations, TypeInv
<1>. QED
  BY <1>3, <1>7, <1>8, TypeByRows

\* A payment that commits takes the place of its request.
LEMMA FlyingCounts ==
  ASSUME TypeInv, CountInv, NEW c \in Clerks, InFlight(c)
  PROVE  /\ Len(payment) \in Nat /\ Cardinality(Flying) \in Nat
         /\ Len(payment) + 1 <= begun /\ Len(payment) + 1 \in 1..MaxBegun
<1>1. Flying # {} /\ IsFiniteSet(Flying)
  BY DEF Flying, CountInv
<1>2. Cardinality(Flying) \in Nat /\ Cardinality(Flying) # 0
  BY <1>1, FS_CardinalityType, FS_EmptySet
<1>. QED
  BY <1>2, AllocationsFinite, BegunStays DEF CountInv, TypeInv, RowsOK

\* A step that changes only payments and allocations, and what clerk c is doing.
LEMMA TypeByMoney ==
  ASSUME TypeInv, NEW c \in Clerks, End(c),
         UNCHANGED <<tenants, lease, obligation, trail, begun>>,
         payment' \in Seq(PaymentTransaction), Payments \subseteq Payments',
         allocation' \in Seq(PaymentAllocation), Allocations \subseteq Allocations',
         \A a \in Allocations' : /\ allocation'[a].payment_id \in Payments'
                                 /\ allocation'[a].obligation_id \in Obligations \union {None},
         \A a \in Allocations : allocation'[a].payment_id = allocation[a].payment_id,
         config' \in PaymentReconciliationConfig,
         config'.state = "absent" => config'.lock = NoClerk
  PROVE  TypeInv'
<1>1. Leases' = Leases /\ Obligations' = Obligations
  BY DEF Leases, Obligations
<1>2. DOMAIN req' = Clerks /\ req' = [d \in Clerks |-> req'[d]]
  BY ReqKept DEF TypeInv
<1>3. (\A l \in Leases : \A e \in trail[l] : e.at < begun)'
  BY <1>1 DEF TypeInv, RowsOK
<1>4. (\A a \in Allocations : /\ allocation[a].payment_id \in Payments
                              /\ allocation[a].obligation_id \in Obligations \union {None})'
  BY <1>1
<1>5. /\ (tenants \in Nat /\ lease \in Seq(Lease) /\ Len(lease) <= MaxLeases)'
      /\ (obligation \in Seq(RentObligation) /\ Len(obligation) <= MaxObligations)'
      /\ (begun \in 0..MaxBegun)'
      /\ (trail \in Seq(SUBSET Event) /\ Len(trail) = Len(lease))'
  BY DEF TypeInv, RowsOK
<1>6. RowsOK'
  BY <1>2, <1>3, <1>4, <1>5 DEF RowsOK
<1>7. Grow
  BY <1>1, BegunStays DEF Grow, TypeInv
<1>. QED
  BY <1>6, <1>7, TypeByRows

LEMMA TypePayments ==
  ASSUME TypeInv, CountInv, NEW c \in Clerks,
         CommitPayment(c) \/ ResolvePaymentAllocation(c) \/ AddManualAllocation(c)
  PROVE  TypeInv'
<1>0. /\ payment \in Seq(PaymentTransaction) /\ Len(payment) \in Nat /\ Payments = 1..Len(payment)
      /\ allocation \in Seq(PaymentAllocation) /\ Len(allocation) \in Nat
      /\ Allocations = 1..Len(allocation)
      /\ \A a \in Allocations : /\ allocation[a] \in PaymentAllocation
                                /\ allocation[a].payment_id \in Payments
                                /\ allocation[a].obligation_id \in Obligations \union {None}
  BY AllocationsFinite DEF TypeInv, RowsOK
<1>1. CASE CommitPayment(c)
  <2>1. PaymentHeld(req[c]) /\ InFlight(c)
    BY <1>1, ClerkAt DEF CommitPayment, TypeInv, InFlight
  <2>2. req[c].pay \in PaymentTransaction /\ req[c].result \in Result
        /\ req[c].result.obligation_id \in Obligations \union {None}
    BY <2>1 DEF PaymentHeld, PaymentRequest
  <2>. DEFINE x == [req[c].result EXCEPT !.payment_id = Len(payment) + 1]
  <2>3. /\ x \in PaymentAllocation /\ x.payment_id = Len(payment) + 1
        /\ x.obligation_id \in Obligations \union {None}
    BY <2>1, <2>2, FlyingCounts DEF Result, PaymentAllocation
  <2>4. payment' = Append(payment, req[c].pay) /\ allocation' = Append(allocation, x)
    BY <1>1 DEF CommitPayment
  <2>. HIDE DEF x
  <2>5. /\ payment' \in Seq(PaymentTransaction) /\ Payments' = 1..Len(payment) + 1
        /\ allocation' \in Seq(PaymentAllocation) /\ Allocations' = 1..Len(allocation) + 1
        /\ \A a \in Allocations : allocation'[a] = allocation[a]
        /\ allocation'[Len(allocation) + 1] = x
    BY <1>0, <2>2, <2>3, <2>4 DEF Payments, Allocations
  <2>6. \A a \in Allocations' : /\ allocation'[a].payment_id \in Payments'
                                /\ allocation'[a].obligation_id \in Obligations \union {None}
    <3>1. \A a \in Allocations' : a \in Allocations \/ a = Len(allocation) + 1
      BY <1>0, <2>5
    <3>2. Len(payment) + 1 \in Payments' /\ Payments \subseteq Payments'
      BY <1>0, <2>5
    <3>. QED
      BY <1>0, <2>3, <2>5, <3>1, <3>2
  <2>7. Payments \subseteq Payments' /\ Allocations \subseteq Allocations'
    BY <1>0, <2>5
  <2>8. /\ config' \in PaymentReconciliationConfig
        /\ config'.state = "absent" => config'.lock = NoClerk
    BY <1>1, ReleasedType DEF CommitPayment, TypeInv
  <2>9. End(c) /\ UNCHANGED <<tenants, lease, obligation, trail, begun>>
    BY <1>1 DEF CommitPayment
  <2>. QED
    BY <2>5, <2>6, <2>7, <2>8, <2>9, TypeByMoney
<1>2. CASE ResolvePaymentAllocation(c)
  <2>1. /\ req[c].id \in Allocations /\ req[c].obligation \in Obligations
        /\ req[c].amount \in Amounts
    BY <1>2, ClerkAt DEF ResolvePaymentAllocation, TypeInv
  <2>. DEFINE x == [payment_id |-> allocation[req[c].id].payment_id,
                    obligation_id |-> req[c].obligation,
                    amount |-> req[c].amount, status |-> "MATCHED", source_type |-> "MANUAL"]
  <2>2. allocation' = [allocation EXCEPT ![req[c].id] = x]
    BY <1>2 DEF ResolvePaymentAllocation
  <2>3. /\ x \in PaymentAllocation /\ x.payment_id = allocation[req[c].id].payment_id
        /\ x.obligation_id \in Obligations
    <3>1. req[c].obligation \in 0..MaxObligations
      BY <2>1, AllocationsFinite, NumberTypes DEF TypeInv, RowsOK
    <3>. QED
      BY <1>0, <2>1, <3>1, NumberTypes DEF PaymentAllocation, AllocationStatuses
  <2>. HIDE DEF x
  <2>4. /\ allocation' \in Seq(PaymentAllocation) /\ Allocations' = Allocations
        /\ \A a \in Allocations : allocation'[a] = IF a = req[c].id THEN x ELSE allocation[a]
    BY <1>0, <2>1, <2>2, <2>3 DEF Allocations
  <2>5. UNCHANGED payment /\ Payments' = Payments
    BY <1>2 DEF ResolvePaymentAllocation, Payments
  <2>6. /\ \A a \in Allocations' : /\ allocation'[a].payment_id \in Payments'
                                   /\ allocation'[a].obligation_id \in Obligations \union {None}
        /\ \A a \in Allocations : allocation'[a].payment_id = allocation[a].payment_id
    BY <1>0, <2>3, <2>4, <2>5
  <2>7. /\ config' \in PaymentReconciliationConfig
        /\ config'.state = "absent" => config'.lock = NoClerk
    BY <1>2, ConfigSame DEF ResolvePaymentAllocation, TypeInv
  <2>8. End(c) /\ UNCHANGED <<tenants, lease, obligation, trail, begun>>
    BY <1>2 DEF ResolvePaymentAllocation
  <2>. QED
    BY <1>0, <2>4, <2>5, <2>6, <2>7, <2>8, TypeByMoney
<1>3. CASE AddManualAllocation(c)
  <2>1. /\ req[c].id \in Payments /\ req[c].obligation \in Obligations
        /\ req[c].amount \in Amounts /\ InFlight(c)
    BY <1>3, ClerkAt DEF AddManualAllocation, TypeInv, InFlight
  <2>. DEFINE x == [payment_id |-> req[c].id, obligation_id |-> req[c].obligation,
                    amount |-> req[c].amount, status |-> "MATCHED", source_type |-> "MANUAL"]
  <2>2. allocation' = Append(allocation, x)
    BY <1>3 DEF AddManualAllocation
  <2>3. x \in PaymentAllocation /\ x.payment_id \in Payments /\ x.obligation_id \in Obligations
    <3>1. req[c].obligation \in 0..MaxObligations
      BY <2>1, AllocationsFinite, NumberTypes DEF TypeInv, RowsOK
    <3>2. req[c].id \in 1..MaxBegun
      BY <1>0, <2>1, FlyingCounts, NumberTypes
    <3>. QED
      BY <2>1, <3>1, <3>2, NumberTypes DEF PaymentAllocation, AllocationStatuses
  <2>. HIDE DEF x
  <2>4. /\ allocation' \in Seq(PaymentAllocation) /\ Allocations' = 1..Len(allocation) + 1
        /\ \A a \in Allocations : allocation'[a] = allocation[a]
        /\ allocation'[Len(allocation) + 1] = x
    BY <1>0, <2>2, <2>3 DEF Allocations
  <2>5. UNCHANGED payment /\ Payments' = Payments
    BY <1>3 DEF AddManualAllocation, Payments
  <2>6. \A a \in Allocations' : /\ allocation'[a].payment_id \in Payments'
                                /\ allocation'[a].obligation_id \in Obligations \union {None}
    <3>1. \A a \in Allocations' : a \in Allocations \/ a = Len(allocation) + 1
      BY <1>0, <2>4
    <3>. QED
      BY <1>0, <2>3, <2>4, <2>5, <3>1
  <2>7. Allocations \subseteq Allocations'
    BY <1>0, <2>4
  <2>8. /\ config' \in PaymentReconciliationConfig
        /\ config'.state = "absent" => config'.lock = NoClerk
    BY <1>3, ConfigSame DEF AddManualAllocation, TypeInv
  <2>9. End(c) /\ UNCHANGED <<tenants, lease, obligation, trail, begun>>
    BY <1>3 DEF AddManualAllocation
  <2>. QED
    BY <1>0, <2>4, <2>5, <2>6, <2>7, <2>8, <2>9, TypeByMoney
<1>. QED
  BY <1>1, <1>2, <1>3

LEMMA TypeNext == TypeInv /\ CountInv /\ [Next]_vars => TypeInv'
<1>. SUFFICES ASSUME TypeInv, CountInv, [Next]_vars PROVE TypeInv'
  OBVIOUS
<1>1. CASE UNCHANGED vars
  BY <1>1 DEF vars, TypeInv, RowsOK, ClerkOK, PaymentHeld, Leases, Obligations, Payments, Allocations
<1>2. CASE AddTenant \/ AddLease \/ UpdateOccupancyStatus
  BY <1>2, TypeLeases
<1>3. CASE AddRentObligation \/ ImportRentObligationRow
  BY <1>3, TypeObligations
<1>4. ASSUME NEW c \in Clerks,
             \/ BeginLeaseStatus(c) \/ BeginConfig(c) \/ AddPayment(c) \/ import_payment_row(c)
             \/ BeginResolve(c) \/ BeginManualAllocation(c)
      PROVE  TypeInv'
  BY <1>4, TypeBegin
<1>5. ASSUME NEW c \in Clerks, UpdateLeaseStatus(c) PROVE TypeInv'
  BY <1>5, TypeLeases
<1>6. ASSUME NEW c \in Clerks,
             \/ ConfigStep(c) \/ UpdateReconciliationConfig(c) \/ GetReconciliationConfig(c)
             \/ ReadOpenObligations(c) \/ DecideMatch(c)
      PROVE  TypeInv'
  BY <1>6, TypeConfig
<1>7. ASSUME NEW c \in Clerks,
             CommitPayment(c) \/ ResolvePaymentAllocation(c) \/ AddManualAllocation(c)
      PROVE  TypeInv'
  BY <1>7, TypePayments
<1>. QED
  BY <1>1, <1>2, <1>3, <1>4, <1>5, <1>6, <1>7 DEF Next

-----------------------------------------------------------------------------
(* One payment for each request that committed one *)

LEMMA CountBegin ==
  ASSUME TypeInv, CountInv, NEW c \in Clerks, NEW r, Hold(c, r), ~InFlight(c)
  PROVE  CountInv'
<1>1. /\ begun' = begun + 1 /\ payment' = payment /\ req' = [req EXCEPT ![c] = r]
  BY DEF Hold, rows
<1>2. req'[c] = r /\ \A d \in Clerks : d # c => req'[d] = req[d]
  BY <1>1, ReqAt DEF TypeInv
<1>3. Flying' \in {Flying, Flying \union {c}} /\ c \notin Flying
  BY <1>2 DEF Flying, InFlight
<1>4. IsFiniteSet(Flying') /\ Cardinality(Flying') \in {Cardinality(Flying), Cardinality(Flying) + 1}
      /\ Cardinality(Flying) \in Nat
  BY <1>3, FS_AddElement, FS_CardinalityType DEF CountInv
<1>. QED
  BY <1>1, <1>4, BegunStays, AllocationsFinite DEF CountInv, TypeInv

LEMMA CountEnd ==
  ASSUME TypeInv, CountInv, NEW c \in Clerks, End(c), InFlight(c), UNCHANGED begun,
         Len(payment') \in {Len(payment), Len(payment) + 1}
  PROVE  CountInv'
<1>1. req'[c] = Idle /\ \A d \in Clerks : d # c => req'[d] = req[d]
  BY ReqAt DEF End, TypeInv
<1>2. Flying' = Flying \ {c} /\ c \in Flying
  BY <1>1 DEF Flying, InFlight, Idle
<1>3. /\ IsFiniteSet(Flying') /\ Cardinality(Flying') = Cardinality(Flying) - 1
      /\ Cardinality(Flying) \in Nat
  BY <1>2, FS_RemoveElement, FS_CardinalityType DEF CountInv
<1>. QED
  BY <1>3, BegunStays, AllocationsFinite DEF CountInv, TypeInv

LEMMA CountSame ==
  ASSUME TypeInv, CountInv, Flying' = Flying, UNCHANGED payment,
         begun' = begun \/ begun' = begun + 1
  PROVE  CountInv'
<1>1. Cardinality(Flying) \in Nat
  BY FS_CardinalityType DEF CountInv
<1>. QED
  BY <1>1, BegunStays, AllocationsFinite DEF CountInv, TypeInv

LEMMA FlyingSame ==
  ASSUME TypeInv, NEW c \in Clerks, InFlight(c),
         NEW pc \in {"config", "insert", "setconfig", "open", "decide", "commit"},
         NEW r, req' = [req EXCEPT ![c] = r], r.pc = pc
  PROVE  Flying' = Flying
  BY ReqAt DEF Flying, InFlight, TypeInv

LEMMA CountNext == TypeInv /\ CountInv /\ [Next]_vars => CountInv'
<1>. SUFFICES ASSUME TypeInv, CountInv, [Next]_vars PROVE CountInv'
  OBVIOUS
<1>1. CASE UNCHANGED vars \/ AddTenant \/ AddLease \/ UpdateOccupancyStatus
           \/ AddRentObligation \/ ImportRentObligationRow
  <2>1. UNCHANGED <<payment, req>> /\ (begun' = begun \/ begun' = begun + 1)
    BY <1>1 DEF vars, AddTenant, AddLease, UpdateOccupancyStatus, AddRentObligation,
                ImportRentObligationRow
  <2>2. Flying' = Flying
    BY <2>1 DEF Flying, InFlight
  <2>. QED
    BY <2>1, <2>2, CountSame
<1>2. ASSUME NEW c \in Clerks,
             \/ BeginLeaseStatus(c) \/ BeginConfig(c) \/ AddPayment(c) \/ import_payment_row(c)
             \/ BeginResolve(c) \/ BeginManualAllocation(c)
      PROVE  CountInv'
  <2>1. ~InFlight(c) /\ \E r : Hold(c, r)
    BY <1>2 DEF BeginLeaseStatus, BeginConfig, AddPayment, import_payment_row, BeginPayment,
                BeginResolve, BeginManualAllocation, CanBegin
  <2>. QED
    BY <2>1, CountBegin
<1>3. ASSUME NEW c \in Clerks,
             \/ UpdateLeaseStatus(c) \/ UpdateReconciliationConfig(c)
             \/ GetReconciliationConfig(c) \/ ResolvePaymentAllocation(c) \/ AddManualAllocation(c)
      PROVE  CountInv'
  <2>1. End(c) /\ InFlight(c) /\ UNCHANGED <<begun, payment>>
    BY <1>3 DEF UpdateLeaseStatus, UpdateReconciliationConfig, GetReconciliationConfig,
                ResolvePaymentAllocation, AddManualAllocation, InFlight, rows
  <2>. QED
    BY <2>1, CountEnd
<1>4. ASSUME NEW c \in Clerks, CommitPayment(c) PROVE CountInv'
  <2>1. End(c) /\ InFlight(c) /\ UNCHANGED begun /\ payment' = Append(payment, req[c].pay)
    BY <1>4 DEF CommitPayment, InFlight
  <2>2. Len(payment') = Len(payment) + 1
    BY <2>1 DEF TypeInv, RowsOK
  <2>. QED
    BY <2>1, <2>2, CountEnd
<1>5. ASSUME NEW c \in Clerks,
             SelectConfig(c) \/ InsertConfig(c) \/ LoseConfig(c)
      PROVE  CountInv'
  <2>1. PICK w : GoOn(c, w)
    BY <1>5 DEF SelectConfig, InsertConfig, LoseConfig
  <2>2. /\ InFlight(c) /\ UNCHANGED <<begun, payment>>
        /\ req[c] \in ConfigRequest \/ PaymentHeld(req[c])
    BY <1>5, ClerkAt DEF SelectConfig, InsertConfig, LoseConfig, InFlight, rows, TypeInv
  <2>. DEFINE r == [req[c] EXCEPT !.pc = req[c].next, !.window = w]
  <2>3. r.pc \in {"setconfig", "open"}
    BY <2>2 DEF ConfigRequest, PaymentHeld, PaymentRequest
  <2>4. req' = [req EXCEPT ![c] = r]
    BY <2>1 DEF GoOn
  <2>. HIDE DEF r
  <2>. QED
    BY <2>2, <2>3, <2>4, FlyingSame, CountSame
<1>6. ASSUME NEW c \in Clerks, MissConfig(c) \/ ReadOpenObligations(c) \/ DecideMatch(c)
      PROVE  CountInv'
  <2>1. InFlight(c) /\ UNCHANGED <<begun, payment>>
    BY <1>6 DEF MissConfig, ReadOpenObligations, DecideMatch, InFlight, rows
  <2>2. ClerkOK(c)
    BY DEF TypeInv
  <2>3. PICK r : req' = [req EXCEPT ![c] = r] /\ r.pc \in {"insert", "decide", "commit"}
    <3>1. CASE MissConfig(c)
      <4>1. "pc" \in DOMAIN req[c]
        BY <2>2, <3>1, ClerkAt DEF MissConfig, ConfigRequest, PaymentHeld, PaymentRequest
      <4>2. req' = [req EXCEPT ![c] = [req[c] EXCEPT !.pc = "insert"]]
        BY <3>1 DEF MissConfig, Goto
      <4>3. [req[c] EXCEPT !.pc = "insert"].pc = "insert"
        BY <4>1
      <4>. QED
        BY <4>2, <4>3, Zenon
    <3>2. CASE ReadOpenObligations(c)
      <4>. DEFINE S == IF req[c].pay.lease_id = None THEN {}
                       ELSE open_obligations(req[c].pay.lease_id)
                  k == [req[c] EXCEPT !.pc = "decide", !.candidates = S]
      <4>1. "pc" \in DOMAIN req[c]
        BY <2>2, <3>2, ClerkAt DEF ReadOpenObligations, PaymentHeld, PaymentRequest
      <4>2. req' = [req EXCEPT ![c] = k]
        BY <3>2 DEF ReadOpenObligations
      <4>. HIDE DEF S
      <4>3. k.pc = "decide"
        BY <4>1
      <4>. HIDE DEF k
      <4>. QED
        BY <4>2, <4>3
    <3>3. CASE DecideMatch(c)
      <4>. DEFINE m == match_payment(req[c].pay, req[c].candidates, req[c].window)
                  k == [req[c] EXCEPT !.pc = "commit", !.result = m]
      <4>1. "pc" \in DOMAIN req[c]
        BY <2>2, <3>3, ClerkAt DEF DecideMatch, PaymentHeld, PaymentRequest
      <4>2. req' = [req EXCEPT ![c] = k]
        BY <3>3 DEF DecideMatch
      <4>. HIDE DEF m
      <4>3. k.pc = "commit"
        BY <4>1
      <4>. HIDE DEF k
      <4>. QED
        BY <4>2, <4>3
    <3>. QED
      BY <1>6, <3>1, <3>2, <3>3
  <2>. QED
    BY <2>1, <2>3, FlyingSame, CountSame
<1>. QED
  BY <1>1, <1>2, <1>3, <1>4, <1>5, <1>6 DEF Next, ConfigStep

LEMMA TypeInit == Init => TypeInv /\ CountInv
<1>. SUFFICES ASSUME Init PROVE TypeInv /\ CountInv
  OBVIOUS
<1>1. begun = 0 /\ 0 \in 0..MaxBegun /\ 0 <= MaxLeases /\ 0 <= MaxObligations
  BY NumberTypes DEF Init
<1>2. /\ lease = <<>> /\ obligation = <<>> /\ payment = <<>> /\ allocation = <<>> /\ trail = <<>>
      /\ DOMAIN req = Clerks /\ req = [c \in Clerks |-> req[c]] /\ \A c \in Clerks : req[c] = Idle
      /\ tenants = 0
  BY DEF Init
<1>3. config \in PaymentReconciliationConfig /\ config.lock = NoClerk
  BY NumberTypes DEF Init, PaymentReconciliationConfig
<1>4. Len(lease) = 0 /\ Len(obligation) = 0 /\ Len(payment) = 0 /\ Len(trail) = 0
      /\ Leases = {} /\ Allocations = {}
  BY <1>2 DEF Leases, Allocations
<1>5. RowsOK
  BY <1>1, <1>2, <1>3, <1>4 DEF RowsOK
<1>6. \A c \in Clerks : ClerkOK(c)
  BY <1>2 DEF ClerkOK
<1>7. Flying = {}
  BY <1>2 DEF Flying, InFlight, Idle
<1>8. CountInv
  BY <1>1, <1>4, <1>7, FS_EmptySet DEF CountInv
<1>. QED
  BY <1>5, <1>6, <1>8 DEF TypeInv

LEMMA TypeImplied == TypeInv => TypeOK
<1>. SUFFICES ASSUME TypeInv PROVE TypeOK
  OBVIOUS
<1>1. DOMAIN trail = Leases
  BY DEF TypeInv, RowsOK, Leases
<1>. QED
  BY <1>1 DEF TypeInv, RowsOK, TypeOK

\* Every table holds rows of its columns' types: leases only the statuses of the enum,
\* allocations of payments and obligations that exist (commercial/models.py).
THEOREM CommercialTyping == Spec => []TypeOK
<1>1. TypeInv /\ CountInv /\ [Next]_vars => (TypeInv /\ CountInv)'
  BY TypeNext, CountNext
<1>2. Spec => [](TypeInv /\ CountInv)
  BY <1>1, TypeInit, PTL DEF Spec
<1>. QED
  BY <1>2, TypeImplied, PTL

-----------------------------------------------------------------------------
(* What a step does to the requests in flight *)

\* No request begins: one may end, or a payment or a config request go on, and these
\* hold no key.
Moves ==
    /\ raced \subseteq raced'
    /\ \A d \in Clerks :
          \/ req'[d] = req[d]
          \/ req'[d] = Idle
          \/ /\ InFlight(d) /\ req[d].key = <<>> /\ req'[d].key = <<>>
             /\ req'[d].pc \in {"insert", "setconfig", "open", "decide", "commit"}

LEMMA MovesByOne ==
  ASSUME TypeInv, raced \subseteq raced', NEW c \in Clerks, NEW r, req' = [req EXCEPT ![c] = r],
         \/ r = Idle
         \/ /\ InFlight(c) /\ req[c].key = <<>> /\ r.key = <<>>
            /\ r.pc \in {"insert", "setconfig", "open", "decide", "commit"}
  PROVE  Moves
  BY ReqAt DEF Moves, TypeInv

Begins(c) ==
    \/ BeginLeaseStatus(c) \/ BeginConfig(c) \/ AddPayment(c) \/ import_payment_row(c)
    \/ BeginResolve(c) \/ BeginManualAllocation(c)

LEMMA BeginHolds ==
  ASSUME NEW c \in Clerks, Begins(c)
  PROVE  \E r : /\ CanBegin(c) /\ Hold(c, r)
                /\ r.pc \in {"lease", "config", "resolve", "manual"}
<1>1. CASE \E pay : BeginPayment(c, pay)
  BY <1>1 DEF BeginPayment
<1>2. CASE BeginLeaseStatus(c)
  <2>1. PICK l \in Leases, to \in LeaseStatuses :
          Hold(c, [pc |-> "lease", key |-> <<"lease", l>>, id |-> l, to |-> to, at |-> begun,
                   seen |-> lease[l].lease_status])
    BY <1>2 DEF BeginLeaseStatus
  <2>. QED
    BY <1>2, <2>1 DEF BeginLeaseStatus
<1>3. CASE BeginConfig(c)
  <2>1. PICK w \in Windows :
          Hold(c, [pc |-> "config", key |-> <<>>, next |-> "setconfig", window |-> w, value |-> w])
    BY <1>3 DEF BeginConfig
  <2>. QED
    BY <1>3, <2>1 DEF BeginConfig
<1>4. CASE BeginResolve(c)
  <2>1. PICK a \in Allocations, o \in Obligations, amount \in Amounts :
          Hold(c, [pc |-> "resolve", key |-> <<"payment", allocation[a].payment_id>>,
                   id |-> a, obligation |-> o, amount |-> amount])
    BY <1>4 DEF BeginResolve
  <2>. QED
    BY <1>4, <2>1 DEF BeginResolve
<1>5. CASE BeginManualAllocation(c)
  <2>1. PICK p \in Payments, o \in Obligations, amount \in Amounts :
          Hold(c, [pc |-> "manual", key |-> <<"payment", p>>, id |-> p,
                   obligation |-> o, amount |-> amount])
    BY <1>5 DEF BeginManualAllocation
  <2>. QED
    BY <1>5, <2>1 DEF BeginManualAllocation
<1>. QED
  BY <1>1, <1>2, <1>3, <1>4, <1>5 DEF Begins, AddPayment, import_payment_row

LEMMA MoveOrBegin ==
  ASSUME TypeInv, [Next]_vars
  PROVE  Moves \/ \E c \in Clerks : Begins(c)
<1>1. CASE UNCHANGED vars \/ AddTenant \/ AddLease \/ UpdateOccupancyStatus
           \/ AddRentObligation \/ ImportRentObligationRow
  BY <1>1 DEF vars, AddTenant, AddLease, UpdateOccupancyStatus, AddRentObligation,
              ImportRentObligationRow, Moves
<1>3. ASSUME NEW c \in Clerks,
             \/ UpdateLeaseStatus(c) \/ UpdateReconciliationConfig(c)
             \/ GetReconciliationConfig(c) \/ ResolvePaymentAllocation(c)
             \/ AddManualAllocation(c) \/ CommitPayment(c)
      PROVE  Moves
  <2>1. End(c) /\ UNCHANGED raced
    BY <1>3 DEF UpdateLeaseStatus, UpdateReconciliationConfig, GetReconciliationConfig,
                ResolvePaymentAllocation, AddManualAllocation, CommitPayment
  <2>. QED
    BY <2>1, MovesByOne DEF End
<1>4. ASSUME NEW c \in Clerks,
             SelectConfig(c) \/ InsertConfig(c) \/ LoseConfig(c)
      PROVE  Moves
  <2>1. PICK w : GoOn(c, w)
    BY <1>4 DEF SelectConfig, InsertConfig, LoseConfig
  <2>2. /\ InFlight(c) /\ raced \subseteq raced'
        /\ req[c] \in ConfigRequest \/ PaymentHeld(req[c])
    BY <1>4, ClerkAt DEF SelectConfig, InsertConfig, LoseConfig, InFlight, rows, TypeInv
  <2>. DEFINE r == [req[c] EXCEPT !.pc = req[c].next, !.window = w]
  <2>3. r.pc \in {"setconfig", "open"} /\ req[c].key = <<>> /\ r.key = <<>>
    BY <2>2 DEF ConfigRequest, PaymentHeld, PaymentRequest
  <2>4. req' = [req EXCEPT ![c] = r]
    BY <2>1 DEF GoOn
  <2>. HIDE DEF r
  <2>. QED
    BY <2>2, <2>3, <2>4, MovesByOne
<1>5. ASSUME NEW c \in Clerks, MissConfig(c) PROVE Moves
  <2>. DEFINE k == [req[c] EXCEPT !.pc = "insert"]
  <2>1. req' = [req EXCEPT ![c] = k] /\ InFlight(c) /\ UNCHANGED raced
    BY <1>5 DEF MissConfig, Goto, InFlight
  <2>2. k.pc = "insert" /\ req[c].key = <<>> /\ k.key = <<>>
    BY <1>5, ClerkAt DEF MissConfig, ConfigRequest, PaymentHeld, PaymentRequest, TypeInv
  <2>. HIDE DEF k
  <2>. QED
    BY <2>1, <2>2, MovesByOne
<1>6. ASSUME NEW c \in Clerks, ReadOpenObligations(c) PROVE Moves
  <2>. DEFINE S == IF req[c].pay.lease_id = None THEN {}
                   ELSE open_obligations(req[c].pay.lease_id)
              k == [req[c] EXCEPT !.pc = "decide", !.candidates = S]
  <2>1. req' = [req EXCEPT ![c] = k] /\ InFlight(c) /\ UNCHANGED raced
    BY <1>6 DEF ReadOpenObligations, InFlight
  <2>. HIDE DEF S
  <2>2. k.pc = "decide" /\ req[c].key = <<>> /\ k.key = <<>>
    BY <1>6, ClerkAt DEF ReadOpenObligations, PaymentHeld, PaymentRequest, TypeInv
  <2>. HIDE DEF k
  <2>. QED
    BY <2>1, <2>2, MovesByOne
<1>7. ASSUME NEW c \in Clerks, DecideMatch(c) PROVE Moves
  <2>. DEFINE m == match_payment(req[c].pay, req[c].candidates, req[c].window)
              k == [req[c] EXCEPT !.pc = "commit", !.result = m]
  <2>1. req' = [req EXCEPT ![c] = k] /\ InFlight(c) /\ UNCHANGED raced
    BY <1>7 DEF DecideMatch, InFlight
  <2>. HIDE DEF m
  <2>2. k.pc = "commit" /\ req[c].key = <<>> /\ k.key = <<>>
    BY <1>7, ClerkAt DEF DecideMatch, PaymentHeld, PaymentRequest, TypeInv
  <2>. HIDE DEF k
  <2>. QED
    BY <2>1, <2>2, MovesByOne
<1>. QED
  BY <1>1, <1>3, <1>4, <1>5, <1>6, <1>7 DEF Next, ConfigStep, Begins

-----------------------------------------------------------------------------
(* A row that was not raced is held by one request at a time *)

KeyInv ==
    \A c, d \in Clerks :
       /\ InFlight(c) /\ InFlight(d)
       /\ req[c].key = req[d].key /\ req[c].key # <<>> /\ req[c].key \notin raced
       => c = d

LEMMA BegunBy ==
  ASSUME TypeInv, NEW c \in Clerks, NEW r, Hold(c, r)
  PROVE  /\ req'[c] = r /\ \A d \in Clerks : d # c => req'[d] = req[d]
         /\ begun' = begun + 1 /\ raced \subseteq raced'
         /\ UNCHANGED <<tenants, lease, obligation, payment, allocation, trail, config>>
         /\ r.key # <<>> /\ r.key \notin raced' => ~Holding(r.key)
  BY ReqAt DEF Hold, rows, TypeInv

LEMMA KeyNext == TypeInv /\ KeyInv /\ [Next]_vars => KeyInv'
<1>. SUFFICES ASSUME TypeInv, KeyInv, [Next]_vars,
                     NEW c \in Clerks, NEW d \in Clerks,
                     InFlight(c)', InFlight(d)', (req[c].key = req[d].key)',
                     (req[c].key # <<>>)', (req[c].key \notin raced)'
              PROVE  c = d
  BY DEF KeyInv
<1>1. CASE Moves
  <2>1. \A e \in {c, d} : req'[e] = req[e]
    BY <1>1 DEF Moves, InFlight, Idle
  <2>. QED
    BY <1>1, <2>1 DEF Moves, KeyInv, InFlight
<1>2. ASSUME NEW e \in Clerks, NEW r, CanBegin(e), Hold(e, r) PROVE c = d
  <2>1. CASE c # e /\ d # e
    BY <1>2, <2>1, BegunBy DEF KeyInv, InFlight
  <2>2. CASE c = e /\ d # e
    BY <1>2, <2>2, BegunBy DEF Holding, InFlight
  <2>3. CASE c # e /\ d = e
    BY <1>2, <2>3, BegunBy DEF Holding, InFlight
  <2>. QED
    BY <2>1, <2>2, <2>3
<1>. QED
  BY <1>1, <1>2, MoveOrBegin, BeginHolds

\* No other clerk holds what a clerk about to commit holds.
LEMMA HeldAlone ==
  ASSUME KeyInv, NEW c \in Clerks, NEW d \in Clerks, InFlight(c), InFlight(d), c # d,
         req[c].key # <<>>, req[c].key \notin raced
  PROVE  req[d].key # req[c].key
  BY DEF KeyInv

-----------------------------------------------------------------------------
(* The trail of a lease *)

\* The events t, in the order of their timestamps, lead from DRAFT to the status s.
Walk(t, s) ==
    /\ \A e \in t : /\ e.after \in LEASE_TRANSITIONS[e.before]
                    /\ \/ e.before = "DRAFT" /\ \A f \in t : f.at >= e.at
                       \/ \E f \in t : /\ f.at < e.at /\ f.after = e.before
                                       /\ \A g \in t : g.at \notin f.at + 1..e.at - 1
    /\ s = IF t = {} THEN "DRAFT" ELSE (CHOOSE e \in t : \A f \in t : f.at <= e.at).after
    /\ t # {} => \E e \in t : \A f \in t : f.at <= e.at

\* What a status request has seen is still so, and it is later than every event.
StatusHeld(c) ==
    LET r == req[c] IN
    r.pc = "lease" /\ r.key \notin raced =>
       /\ r.seen = lease[r.id].lease_status
       /\ \A e \in trail[r.id] : e.at < r.at

TrailInv ==
    /\ \A l \in Leases : <<"lease", l>> \notin raced => Walk(trail[l], lease[l].lease_status)
    /\ \A c \in Clerks : StatusHeld(c)

\* A walk goes on with a transition that is later than all of it.
LEMMA WalkOn ==
  ASSUME NEW t \in SUBSET Event, NEW s \in LeaseStatuses, Walk(t, s),
         NEW n \in Event, \A e \in t : e.at < n.at,
         n.before = s, n.after \in LEASE_TRANSITIONS[s]
  PROVE  Walk(t \union {n}, n.after)
<1>. DEFINE u == t \union {n}
<1>0. n.at \in Nat /\ \A e \in t : e.at \in Nat
  BY DEF Event
<1>1. \A f \in u : f.at <= n.at
  BY <1>0
<1>2. (CHOOSE e \in u : \A f \in u : f.at <= e.at) = n
  <2>. DEFINE m == CHOOSE e \in u : \A f \in u : f.at <= e.at
  <2>1. m \in u /\ \A f \in u : f.at <= m.at
    BY <1>1
  <2>. HIDE DEF m
  <2>2. n.at <= m.at /\ (m \in t => m.at < n.at)
    BY <2>1
  <2>3. m \notin t
    BY <1>0, <2>2
  <2>. QED
    BY <2>1, <2>3 DEF m
<1>3. ASSUME NEW e \in t
      PROVE  /\ e.after \in LEASE_TRANSITIONS[e.before]
             /\ \/ e.before = "DRAFT" /\ \A f \in u : f.at >= e.at
                \/ \E f \in u : /\ f.at < e.at /\ f.after = e.before
                                /\ \A g \in u : g.at \notin f.at + 1..e.at - 1
  <2>0. e.after \in LEASE_TRANSITIONS[e.before]
    BY DEF Walk
  <2>1. e.at < n.at /\ n.at >= e.at
    BY <1>0
  <2>2. CASE e.before = "DRAFT" /\ \A f \in t : f.at >= e.at
    BY <2>0, <2>1, <2>2
  <2>3. CASE \E f \in t : /\ f.at < e.at /\ f.after = e.before
                         /\ \A g \in t : g.at \notin f.at + 1..e.at - 1
    <3>1. PICK f \in t : /\ f.at < e.at /\ f.after = e.before
                         /\ \A g \in t : g.at \notin f.at + 1..e.at - 1
      BY <2>3
    <3>2. n.at \notin f.at + 1..e.at - 1
      BY <1>0, <2>1
    <3>. QED
      BY <2>0, <3>1, <3>2
  <2>. QED
    BY <2>2, <2>3 DEF Walk
<1>4. /\ n.after \in LEASE_TRANSITIONS[n.before]
      /\ \/ n.before = "DRAFT" /\ \A f \in u : f.at >= n.at
         \/ \E f \in u : /\ f.at < n.at /\ f.after = n.before
                         /\ \A g \in u : g.at \notin f.at + 1..n.at - 1
  <2>1. CASE t = {}
    <3>1. s = "DRAFT" /\ u = {n}
      BY <2>1 DEF Walk
    <3>. QED
      BY <1>0, <3>1
  <2>2. CASE t # {}
    <3>. DEFINE m == CHOOSE e \in t : \A f \in t : f.at <= e.at
    <3>1. m \in t /\ (\A f \in t : f.at <= m.at) /\ s = m.after
      BY <2>2 DEF Walk
    <3>. HIDE DEF m
    <3>2. m.at < n.at /\ m.after = n.before
      BY <3>1
    <3>3. \A g \in u : g.at \notin m.at + 1..n.at - 1
      BY <1>0, <3>1
    <3>. QED
      BY <3>1, <3>2, <3>3
  <2>. QED
    BY <2>1, <2>2
<1>. QED
  BY <1>1, <1>2, <1>3, <1>4 DEF Walk

LEMMA TrailSame ==
  ASSUME TypeInv, TrailInv, Moves, Leases \subseteq Leases',
         \A l \in Leases : trail'[l] = trail[l] /\ lease'[l].lease_status = lease[l].lease_status,
         \A l \in Leases' \ Leases : trail'[l] = {} /\ lease'[l].lease_status = "DRAFT"
  PROVE  TrailInv'
<1>1. ASSUME NEW l \in Leases', <<"lease", l>> \notin raced'
      PROVE  Walk(trail'[l], lease'[l].lease_status)
  <2>1. CASE l \in Leases
    BY <1>1, <2>1 DEF TrailInv, Moves
  <2>2. CASE l \notin Leases
    BY <2>2 DEF Walk
  <2>. QED
    BY <2>1, <2>2
<1>2. ASSUME NEW c \in Clerks PROVE StatusHeld(c)'
  <2>1. SUFFICES ASSUME req'[c].pc = "lease", req'[c].key \notin raced'
                 PROVE  /\ req'[c].seen = lease'[req'[c].id].lease_status
                        /\ \A e \in trail'[req'[c].id] : e.at < req'[c].at
    BY DEF StatusHeld
  <2>2. req'[c] = req[c] /\ req[c].key \notin raced
    BY <2>1 DEF Moves, Idle
  <2>3. req[c].id \in Leases
    BY <2>1, <2>2, ClerkAt DEF TypeInv
  <2>. QED
    BY <2>1, <2>2, <2>3 DEF TrailInv, StatusHeld
<1>3. (\A l \in Leases : <<"lease", l>> \notin raced => Walk(trail[l], lease[l].lease_status))'
  BY <1>1 DEF Walk
<1>. QED
  BY <1>2, <1>3 DEF TrailInv

LEMMA TrailBegin ==
  ASSUME TypeInv, TrailInv, NEW c \in Clerks, NEW r, Hold(c, r),
         r.pc = "lease" => /\ r.id \in Leases /\ r.at = begun
                           /\ r.seen = lease[r.id].lease_status
  PROVE  TrailInv'
<1>1. /\ req'[c] = r /\ \A d \in Clerks : d # c => req'[d] = req[d]
      /\ raced \subseteq raced' /\ UNCHANGED <<lease, trail>> /\ Leases' = Leases
  BY BegunBy DEF Leases
<1>2. (\A l \in Leases : <<"lease", l>> \notin raced => Walk(trail[l], lease[l].lease_status))'
  BY <1>1 DEF TrailInv, Walk
<1>3. StatusHeld(c)'
  BY <1>1 DEF StatusHeld, TypeInv, RowsOK
<1>4. \A d \in Clerks : d # c => StatusHeld(d)'
  BY <1>1 DEF TrailInv, StatusHeld
<1>. QED
  BY <1>2, <1>3, <1>4 DEF TrailInv

LEMMA TrailStatus ==
  ASSUME TypeInv, KeyInv, TrailInv, NEW c \in Clerks, UpdateLeaseStatus(c), Moves
  PROVE  TrailInv'
<1>. DEFINE r == req[c]
            l == req[c].id
            new == update_lease_status(r.seen, r.to)
            ev == record_audit_event(r.at, r.seen, new)
<1>1. /\ r.pc = "lease" /\ r \in LeaseRequest /\ r.key = <<"lease", l>> /\ l \in Leases
      /\ InFlight(c)
  BY ClerkAt DEF UpdateLeaseStatus, TypeInv, InFlight
<1>2. /\ Leases = 1..Len(lease) /\ Len(trail) = Len(lease)
      /\ lease \in Seq(Lease) /\ trail \in Seq(SUBSET Event) /\ Len(lease) \in Nat
  BY AllocationsFinite DEF TypeInv, RowsOK
<1>3. CASE new = r.seen
  <2>1. UNCHANGED <<lease, trail>> /\ Leases' = Leases
    BY <1>3 DEF UpdateLeaseStatus, Leases
  <2>. QED
    BY <2>1, TrailSame
<1>4. CASE new # r.seen
  <2>0. new = r.to /\ new \in LEASE_TRANSITIONS[r.seen] /\ new \in LeaseStatuses
    BY <1>1, <1>4 DEF update_lease_status, LeaseRequest
  <2>1. /\ ev.at = r.at /\ ev.before = r.seen /\ ev.after = new /\ ev \in Event
    BY <1>1, <2>0 DEF record_audit_event, Event, LeaseRequest
  <2>2. /\ lease' = [lease EXCEPT ![l].lease_status = new]
        /\ trail' = [trail EXCEPT ![l] = @ \union {ev}] /\ UNCHANGED raced /\ End(c)
    BY <1>4 DEF UpdateLeaseStatus
  <2>. HIDE DEF new, ev
  <2>3. /\ \A k \in Leases : k # l => lease'[k] = lease[k] /\ trail'[k] = trail[k]
        /\ trail'[l] = trail[l] \union {ev}
        /\ lease'[l] = [lease[l] EXCEPT !.lease_status = new]
    BY <1>1, <1>2, <2>2
  <2>4. lease'[l].lease_status = new
    <3>1. lease[l] \in Lease
      BY <1>1, AllocationsFinite DEF TypeInv
    <3>. QED
      BY <2>3, <3>1 DEF Lease
  <2>5. Leases' = Leases
    BY <2>2 DEF Leases
  <2>6. ASSUME <<"lease", l>> \notin raced
        PROVE  Walk(trail'[l], lease'[l].lease_status)
    <3>1. StatusHeld(c) /\ Walk(trail[l], lease[l].lease_status)
      BY <1>1, <2>6 DEF TrailInv
    <3>2. r.seen = lease[l].lease_status /\ \A e \in trail[l] : e.at < r.at
      BY <1>1, <2>6, <3>1 DEF StatusHeld
    <3>3. trail[l] \in SUBSET Event /\ lease[l].lease_status \in LeaseStatuses
      <4>1. lease[l] \in Lease
        BY <1>1, AllocationsFinite DEF TypeInv
      <4>2. trail[l] \in SUBSET Event
        BY <1>1, <1>2, ElementOfSeq
      <4>. QED
        BY <4>1, <4>2 DEF Lease
    <3>4. Walk(trail[l] \union {ev}, ev.after)
      BY <2>0, <2>1, <3>1, <3>2, <3>3, WalkOn
    <3>. QED
      BY <2>1, <2>3, <2>4, <3>4
  <2>7. (\A k \in Leases : <<"lease", k>> \notin raced => Walk(trail[k], lease[k].lease_status))'
    <3>1. ASSUME NEW k \in Leases, <<"lease", k>> \notin raced
          PROVE  Walk(trail'[k], lease'[k].lease_status)
      <4>1. CASE k = l
        BY <2>6, <3>1, <4>1
      <4>2. CASE k # l
        BY <2>3, <3>1, <4>2 DEF TrailInv
      <4>. QED
        BY <4>1, <4>2
    <3>. QED
      BY <2>2, <2>5, <3>1 DEF Walk
  <2>8. ASSUME NEW d \in Clerks PROVE StatusHeld(d)'
    <3>1. SUFFICES ASSUME req'[d].pc = "lease", req'[d].key \notin raced'
                   PROVE  /\ req'[d].seen = lease'[req'[d].id].lease_status
                          /\ \A e \in trail'[req'[d].id] : e.at < req'[d].at
      BY DEF StatusHeld
    <3>5. req'[c] = Idle
      BY <2>2, ReqAt DEF End, TypeInv
    <3>2. req'[d] = req[d] /\ d # c /\ req[d].key \notin raced /\ req[d].pc = "lease"
      BY <2>2, <3>1, <3>5 DEF Idle, Moves
    <3>3. /\ req[d].id \in Leases /\ InFlight(d) /\ req[d].key = <<"lease", req[d].id>>
      BY <3>2, ClerkAt DEF TypeInv, InFlight
    <3>4. req[d].id # l
      BY <1>1, <3>2, <3>3, HeldAlone
    <3>. QED
      BY <2>3, <3>2, <3>3, <3>4 DEF TrailInv, StatusHeld
  <2>. QED
    BY <2>7, <2>8 DEF TrailInv
<1>. QED
  BY <1>3, <1>4

LEMMA TrailNext == TypeInv /\ KeyInv /\ TrailInv /\ [Next]_vars => TrailInv'
<1>. SUFFICES ASSUME TypeInv, KeyInv, TrailInv, [Next]_vars PROVE TrailInv'
  OBVIOUS
<1>0. /\ Leases = 1..Len(lease) /\ Len(trail) = Len(lease) /\ Len(lease) \in Nat
      /\ lease \in Seq(Lease) /\ trail \in Seq(SUBSET Event)
      /\ \A l \in Leases : lease[l] \in Lease
  BY AllocationsFinite DEF TypeInv, RowsOK
<1>1. ASSUME NEW c \in Clerks, Begins(c) PROVE TrailInv'
  <2>1. CASE BeginLeaseStatus(c)
    <3>1. PICK l \in Leases, to \in LeaseStatuses :
            Hold(c, [pc |-> "lease", key |-> <<"lease", l>>, id |-> l, to |-> to, at |-> begun,
                     seen |-> lease[l].lease_status])
      BY <2>1 DEF BeginLeaseStatus
    <3>. QED
      BY <3>1, TrailBegin
  <2>2. CASE ~BeginLeaseStatus(c)
    <3>1. PICK r : Hold(c, r) /\ r.pc # "lease"
      <4>1. CASE BeginConfig(c)
        BY <4>1 DEF BeginConfig
      <4>2. CASE AddPayment(c) \/ import_payment_row(c)
        <5>1. PICK pay : BeginPayment(c, pay)
          BY <4>2 DEF AddPayment, import_payment_row
        <5>. QED
          BY <5>1 DEF BeginPayment
      <4>3. CASE BeginResolve(c)
        BY <4>3 DEF BeginResolve
      <4>4. CASE BeginManualAllocation(c)
        BY <4>4 DEF BeginManualAllocation
      <4>. QED
        BY <1>1, <2>2, <4>1, <4>2, <4>3, <4>4 DEF Begins
    <3>. QED
      BY <3>1, TrailBegin
  <2>. QED
    BY <2>1, <2>2
<1>2. ASSUME Moves, NEW c \in Clerks, UpdateLeaseStatus(c) PROVE TrailInv'
  BY <1>2, TrailStatus
<1>3. ASSUME Moves, AddLease PROVE TrailInv'
  <2>1. PICK p \in Properties : lease' = Append(lease, create_lease(p)) /\ trail' = Append(trail, {})
    BY <1>3 DEF AddLease
  <2>2. create_lease(p) \in Lease /\ create_lease(p).lease_status = "DRAFT"
    BY DEF create_lease, Lease, LeaseStatuses, OccupancyStatuses
  <2>3. /\ Leases' = 1..Len(lease) + 1
        /\ \A l \in Leases : lease'[l] = lease[l] /\ trail'[l] = trail[l]
        /\ lease'[Len(lease) + 1] = create_lease(p) /\ trail'[Len(lease) + 1] = {}
    BY <1>0, <2>1, <2>2 DEF Leases
  <2>4. Leases \subseteq Leases' /\ Leases' \ Leases = {Len(lease) + 1}
    BY <1>0, <2>3
  <2>. QED
    BY <1>3, <2>2, <2>3, <2>4, TrailSame
<1>4. ASSUME Moves, UpdateOccupancyStatus PROVE TrailInv'
  <2>1. PICK l \in Leases, to \in OccupancyStatuses :
          lease' = [lease EXCEPT ![l].occupancy_status = to]
    BY <1>4 DEF UpdateOccupancyStatus
  <2>2. UNCHANGED trail /\ Leases' = Leases
    BY <1>4, <2>1 DEF UpdateOccupancyStatus, Leases
  <2>3. \A k \in Leases : lease'[k].lease_status = lease[k].lease_status
    <3>1. \A k \in Leases : /\ k # l => lease'[k] = lease[k]
                            /\ lease'[l] = [lease[l] EXCEPT !.occupancy_status = to]
      BY <1>0, <2>1
    <3>2. [lease[l] EXCEPT !.occupancy_status = to].lease_status = lease[l].lease_status
      BY <1>0 DEF Lease
    <3>. QED
      BY <3>1, <3>2
  <2>. QED
    BY <1>4, <2>2, <2>3, TrailSame
<1>5. ASSUME Moves, UNCHANGED <<lease, trail>> PROVE TrailInv'
  <2>1. Leases' = Leases
    BY <1>5 DEF Leases
  <2>. QED
    BY <1>5, <2>1, TrailSame
<1>6. CASE Moves
  <2>1. \/ \E c \in Clerks : Begins(c) \/ UpdateLeaseStatus(c)
        \/ AddLease \/ UpdateOccupancyStatus \/ UNCHANGED <<lease, trail>>
    BY DEF Next, vars, AddTenant, AddRentObligation, ImportRentObligationRow, ConfigStep,
           SelectConfig, MissConfig, InsertConfig, LoseConfig, UpdateReconciliationConfig,
           GetReconciliationConfig, ReadOpenObligations, DecideMatch, CommitPayment,
           ResolvePaymentAllocation, AddManualAllocation, Begins, rows
  <2>. QED
    BY <1>1, <1>2, <1>3, <1>4, <1>5, <1>6, <2>1
<1>. QED
  BY <1>1, <1>6, MoveOrBegin

LEMMA TrailInit == Init => KeyInv /\ TrailInv
<1>. SUFFICES ASSUME Init PROVE KeyInv /\ TrailInv
  OBVIOUS
<1>1. Leases = {} /\ \A c \in Clerks : req[c] = Idle
  BY DEF Init, Leases
<1>. QED
  BY <1>1 DEF KeyInv, TrailInv, StatusHeld, InFlight, Idle

\* The audit trail of a lease leads, in the order of its timestamps, from DRAFT to the
\* lease's status, when no two status requests on the lease overlapped
\* (commercial/service.py, update_lease_status; shared/audit.py).
THEOREM LeaseTrails == Spec => []LeaseTrailIsItsHistory
<1>1. TypeInv /\ CountInv /\ KeyInv /\ TrailInv /\ [Next]_vars
        => (TypeInv /\ CountInv /\ KeyInv /\ TrailInv)'
  BY TypeNext, CountNext, KeyNext, TrailNext
<1>2. Spec => [](TypeInv /\ CountInv /\ KeyInv /\ TrailInv)
  BY <1>1, TypeInit, TrailInit, PTL DEF Spec
<1>3. TrailInv => LeaseTrailIsItsHistory
  BY DEF TrailInv, Walk, LeaseTrailIsItsHistory
<1>. QED
  BY <1>2, <1>3, PTL

-----------------------------------------------------------------------------
(* What is allocated of a payment *)

\* Allocated, of the allocations of the next state.
AllocatedNext(S) == SumFunctionOnSet([a \in Allocations' |-> allocation'[a].amount], S)

LEMMA AmountTypes ==
  ASSUME RowsOK
  PROVE  /\ \A a \in Allocations : [b \in Allocations |-> allocation[b].amount][a] \in Int
         /\ \A p \in Payments : [q \in Payments |-> payment[q].amount][p] \in Int
         /\ \A a \in Allocations : allocation[a].amount \in Int
         /\ \A p \in Payments : payment[p].amount \in Int
  BY AllocationsFinite, NumberTypes DEF PaymentAllocation, PaymentTransaction

LEMMA AllocatedKeep ==
  ASSUME RowsOK, NEW S, S \subseteq Allocations, S \subseteq Allocations',
         \A a \in S : allocation'[a].amount = allocation[a].amount
  PROVE  AllocatedNext(S) = Allocated(S)
<1>. DEFINE f == [a \in Allocations |-> allocation[a].amount]
            g == [a \in Allocations' |-> allocation'[a].amount]
<1>1. IsFiniteSet(S)
  BY AllocationsFinite, FS_Subset
<1>2. \A a \in S : f[a] \in Int /\ g[a] = f[a]
  BY AmountTypes
<1>. HIDE DEF f, g
<1>3. SumFunctionOnSet(f, S) = SumFunctionOnSet(g, S)
  BY <1>1, <1>2, SumEqual
<1>. QED
  BY <1>3 DEF f, g, AllocatedNext, Allocated

LEMMA AllocatedPlus ==
  ASSUME RowsOK, NEW S, S \subseteq Allocations, S \subseteq Allocations',
         \A b \in S : allocation'[b].amount = allocation[b].amount,
         NEW a, a \in Allocations', a \notin S, allocation'[a].amount \in Int
  PROVE  AllocatedNext(S \union {a}) = Allocated(S) + allocation'[a].amount
<1>. DEFINE g == [b \in Allocations' |-> allocation'[b].amount]
<1>1. IsFiniteSet(S)
  BY AllocationsFinite, FS_Subset
<1>2. \A b \in S \union {a} : g[b] \in Int
  BY AmountTypes
<1>3. g[a] = allocation'[a].amount
  OBVIOUS
<1>4. AllocatedNext(S) = Allocated(S)
  BY AllocatedKeep
<1>5. Allocated(S) \in Int
  BY AllocatedType
<1>6. /\ AllocatedNext(S) = SumFunctionOnSet(g, S)
      /\ AllocatedNext(S \union {a}) = SumFunctionOnSet(g, S \union {a})
  BY DEF AllocatedNext
<1>. HIDE DEF g
<1>7. SumFunctionOnSet(g, S \union {a}) = g[a] + SumFunctionOnSet(g, S)
  BY <1>1, <1>2, SumAdd
<1>. QED
  BY <1>3, <1>4, <1>5, <1>6, <1>7

\* The allocations that placed money of payment p.
Placed(p) == {a \in Allocations : allocation[a].payment_id = p /\ allocation[a].status = "MATCHED"}

\* No more of a payment is allocated than was received, once any of it is placed.
PaymentsCovered ==
    \A p \in Payments : <<"payment", p>> \notin raced /\ Placed(p) # {}
                           => Allocated(AllocatedOf(p)) <= payment[p].amount

\* What a manual request has checked is still so; and no match of the reconciler is
\* being resolved.
MoneyHeld(c) ==
    LET r == req[c] IN
    /\ r.pc = "resolve" => ~(/\ allocation[r.id].status = "MATCHED"
                             /\ allocation[r.id].source_type = "SYSTEM_GENERATED")
    /\ r.pc = "resolve" /\ r.key \notin raced => LoadResolve(r.id, r.amount)
    /\ r.pc = "manual" /\ r.key \notin raced => LoadManual(r.id, r.amount)

MoneyInv == PaymentsCovered /\ \A c \in Clerks : MoneyHeld(c)

LEMMA AllocatedOfType ==
  ASSUME RowsOK, NEW p
  PROVE  /\ AllocatedOf(p) \subseteq Allocations /\ Allocated(AllocatedOf(p)) \in Int
         /\ \A a : Allocated(AllocatedOf(p) \ {a}) \in Int
  BY AllocatedType DEF AllocatedOf

\* Payments and allocations as they were: what was checked is still so.
LEMMA MoneySame ==
  ASSUME MoneyInv, UNCHANGED <<payment, allocation>>, raced \subseteq raced'
  PROVE  /\ PaymentsCovered'
         /\ \A c \in Clerks : req'[c] = req[c] => MoneyHeld(c)'
<1>1. /\ \A S : AllocatedNext(S) = Allocated(S)
      /\ \A p : AllocatedOf(p)' = AllocatedOf(p) /\ Placed(p)' = Placed(p)
      /\ Allocations' = Allocations /\ Payments' = Payments
  BY DEF AllocatedNext, Allocated, AllocatedOf, Placed, Allocations, Payments
<1>3. PaymentsCovered'
  <2>1. SUFFICES ASSUME NEW p \in Payments', <<"payment", p>> \notin raced', Placed(p)' # {}
                 PROVE  Allocated(AllocatedOf(p))' <= payment'[p].amount
    BY DEF PaymentsCovered
  <2>2. Allocated(AllocatedOf(p))' = AllocatedNext(AllocatedOf(p)')
    BY DEF Allocated, AllocatedNext
  <2>. QED
    BY <1>1, <2>1, <2>2 DEF MoneyInv, PaymentsCovered
<1>4. ASSUME NEW c \in Clerks, req'[c] = req[c] PROVE MoneyHeld(c)'
  <2>1. \A a, x : LoadResolve(a, x) = LoadResolve(a, x)'
    BY DEF LoadResolve, Allocated, AllocatedOf, Allocations
  <2>2. \A p, x : LoadManual(p, x) = LoadManual(p, x)'
    BY DEF LoadManual, Allocated, AllocatedOf, Allocations
  <2>. QED
    BY <1>4, <2>1, <2>2 DEF MoneyInv, MoneyHeld
<1>. QED
  BY <1>3, <1>4

\* A step that touches the allocations of payment p only.
Touches(p) ==
    /\ Allocations \subseteq Allocations' /\ Payments \subseteq Payments'
    /\ \A a \in Allocations : /\ allocation'[a].payment_id = allocation[a].payment_id
                              /\ allocation[a].payment_id # p => allocation'[a] = allocation[a]
    /\ \A a \in Allocations' \ Allocations : allocation'[a].payment_id = p
    /\ \A q \in Payments : payment'[q] = payment[q]
    /\ UNCHANGED raced

LEMMA OtherPayments ==
  ASSUME RowsOK, NEW p, Touches(p), NEW q \in Payments, q # p
  PROVE  /\ AllocatedOf(q)' = AllocatedOf(q) /\ Placed(q)' = Placed(q)
         /\ \A S \in SUBSET AllocatedOf(q) : AllocatedNext(S) = Allocated(S)
         /\ Allocated(AllocatedOf(q))' = Allocated(AllocatedOf(q))
<1>1. AllocatedOf(q)' = AllocatedOf(q) /\ Placed(q)' = Placed(q)
  BY DEF AllocatedOf, Placed, Touches
<1>2. ASSUME NEW S \in SUBSET AllocatedOf(q) PROVE AllocatedNext(S) = Allocated(S)
  <2>1. S \subseteq Allocations /\ S \subseteq Allocations'
    BY DEF AllocatedOf, Touches
  <2>2. \A a \in S : allocation'[a].amount = allocation[a].amount
    BY <2>1 DEF AllocatedOf, Touches
  <2>. QED
    BY <2>1, <2>2, AllocatedKeep
<1>3. Allocated(AllocatedOf(q))' = AllocatedNext(AllocatedOf(q)')
  BY DEF Allocated, AllocatedNext
<1>6. Allocated(AllocatedOf(q))' = Allocated(AllocatedOf(q))
  BY <1>1, <1>2, <1>3
<1>. QED
  BY <1>1, <1>2, <1>6

\* A clerk that stays where it is, and holds an un-raced payment only if it is not p.
LEMMA MoneyOthers ==
  ASSUME TypeInv, MoneyInv, NEW p, Touches(p), NEW d \in Clerks, req'[d] = req[d],
         req[d].pc \in {"resolve", "manual"} /\ req[d].key \notin raced => req[d].key # <<"payment", p>>,
         req[d].pc = "resolve" =>
            \/ allocation'[req[d].id] = allocation[req[d].id]
            \/ allocation'[req[d].id].source_type = "MANUAL"
  PROVE  MoneyHeld(d)'
<1>. DEFINE r == req[d]
<1>0. RowsOK /\ MoneyHeld(d)
  BY DEF TypeInv, MoneyInv
<1>1. ASSUME r.pc = "resolve"
      PROVE  ~(/\ allocation'[r.id].status = "MATCHED"
               /\ allocation'[r.id].source_type = "SYSTEM_GENERATED")
  BY <1>0, <1>1 DEF MoneyHeld
<1>2. ASSUME r.pc = "resolve", r.key \notin raced
      PROVE  LoadResolve(r.id, r.amount)'
  <2>. DEFINE q == allocation[r.id].payment_id
  <2>1. r.id \in Allocations /\ r.key = <<"payment", q>> /\ q \in Payments
    BY <1>0, <1>2, ClerkAt DEF TypeInv, RowsOK
  <2>2. q # p
    BY <1>2, <2>1
  <2>3. allocation'[r.id] = allocation[r.id] /\ payment'[q] = payment[q]
    BY <2>1, <2>2 DEF Touches
  <2>5. LoadResolve(r.id, r.amount)
    BY <1>0, <1>2 DEF MoneyHeld
  <2>6. /\ Allocated(AllocatedOf(q) \ {r.id}) + r.amount <= payment[q].amount
        /\ allocation[r.id].status # "MATCHED"
    BY <2>5 DEF LoadResolve
  <2>7. SumFunctionOnSet([b \in Allocations' |-> allocation'[b].amount],
           {b \in Allocations' : allocation'[b].payment_id = q} \ {r.id}) = Allocated(AllocatedOf(q) \ {r.id})
    <3>2. {b \in Allocations' : allocation'[b].payment_id = q} = AllocatedOf(q)
      <4>1. \A b \in Allocations' : b \notin Allocations => allocation'[b].payment_id # q
        BY <2>2 DEF Touches
      <4>. QED
        BY <4>1 DEF AllocatedOf, Touches
    <3>3. AllocatedNext(AllocatedOf(q) \ {r.id}) = Allocated(AllocatedOf(q) \ {r.id})
      BY <1>0, <2>1, <2>2, OtherPayments
    <3>. QED
      BY <3>2, <3>3 DEF AllocatedNext
  <2>8. allocation'[req'[d].id].payment_id = q /\ req'[d].id = r.id /\ req'[d].amount = r.amount
    BY <2>3
  <2>. QED
    BY <2>3, <2>6, <2>7, <2>8 DEF LoadResolve, Allocated, AllocatedOf
<1>3. ASSUME r.pc = "manual", r.key \notin raced
      PROVE  LoadManual(r.id, r.amount)'
  <2>1. r.id \in Payments /\ r.key = <<"payment", r.id>>
    BY <1>3, ClerkAt DEF TypeInv
  <2>2. r.id # p
    BY <1>3, <2>1
  <2>3. LoadManual(r.id, r.amount) /\ payment'[r.id] = payment[r.id]
    BY <1>0, <1>3, <2>1 DEF MoneyHeld, Touches
  <2>4. AllocatedNext(AllocatedOf(r.id)) = Allocated(AllocatedOf(r.id))
    BY <1>0, <2>1, <2>2, OtherPayments
  <2>5. {b \in Allocations' : allocation'[b].payment_id = r.id} = AllocatedOf(r.id)
    <3>1. \A b \in Allocations' : b \notin Allocations => allocation'[b].payment_id # r.id
      BY <2>2 DEF Touches
    <3>. QED
      BY <3>1 DEF AllocatedOf, Touches
  <2>. QED
    BY <2>3, <2>4, <2>5 DEF LoadManual, Allocated, AllocatedOf, AllocatedNext
<1>4. UNCHANGED raced
  BY DEF Touches
<1>. QED
  BY <1>1, <1>2, <1>3, <1>4 DEF MoneyHeld

LEMMA CoveredOthers ==
  ASSUME RowsOK, PaymentsCovered, NEW p, Touches(p)
  PROVE  \A q \in Payments : q # p /\ <<"payment", q>> \notin raced' /\ Placed(q)' # {}
            => Allocated(AllocatedOf(q))' <= payment'[q].amount
  BY OtherPayments DEF PaymentsCovered, Touches

LEMMA MoneyResolve ==
  ASSUME TypeInv, KeyInv, MoneyInv, NEW c \in Clerks, ResolvePaymentAllocation(c)
  PROVE  MoneyInv'
<1>0. RowsOK
  BY DEF TypeInv
<1>1. /\ req[c].id \in Allocations /\ req[c].obligation \in Obligations /\ req[c].amount \in Int
      /\ req[c].key = <<"payment", allocation[req[c].id].payment_id>> /\ InFlight(c)
      /\ allocation[req[c].id].payment_id \in Payments /\ req[c].pc = "resolve"
  BY ClerkAt, NumberTypes DEF ResolvePaymentAllocation, TypeInv, RowsOK, InFlight
<1>2. PICK i \in Allocations, p \in Payments : i = req[c].id /\ p = allocation[i].payment_id
  BY <1>1
<1>. DEFINE x == [payment_id |-> p, obligation_id |-> req[c].obligation,
                  amount |-> req[c].amount, status |-> "MATCHED", source_type |-> "MANUAL"]
<1>3. /\ Allocations' = Allocations /\ Payments' = Payments /\ UNCHANGED <<payment, raced>>
      /\ allocation'[i] = x /\ \A a \in Allocations : a # i => allocation'[a] = allocation[a]
  <2>1. allocation' = [allocation EXCEPT ![i] = x]
    BY <1>2 DEF ResolvePaymentAllocation
  <2>. HIDE DEF x
  <2>. QED
    BY <1>0, <1>2, <2>1, AllocationsFinite DEF ResolvePaymentAllocation, Allocations, Payments
<1>4. /\ x.payment_id = p /\ x.amount = req[c].amount /\ x.source_type = "MANUAL"
  OBVIOUS
<1>. HIDE DEF x
<1>5. Touches(p)
  BY <1>2, <1>3, <1>4 DEF Touches
<1>7. <<"payment", p>> \notin raced => Allocated(AllocatedOf(p))' <= payment'[p].amount
  <2>1. SUFFICES ASSUME <<"payment", p>> \notin raced
                 PROVE  Allocated(AllocatedOf(p))' <= payment'[p].amount
    OBVIOUS
  <2>. DEFINE S == AllocatedOf(p) \ {i}
  <2>2. AllocatedOf(p)' = S \union {i}
    BY <1>2, <1>3, <1>4 DEF AllocatedOf
  <2>3. AllocatedNext(S \union {i}) = Allocated(S) + req[c].amount
    <3>1. /\ S \subseteq Allocations /\ S \subseteq Allocations' /\ i \notin S /\ i \in Allocations'
          /\ \A b \in S : allocation'[b].amount = allocation[b].amount
          /\ allocation'[i].amount = req[c].amount /\ allocation'[i].amount \in Int
      BY <1>1, <1>2, <1>3, <1>4 DEF AllocatedOf
    <3>. HIDE DEF S
    <3>. QED
      BY <1>0, <3>1, AllocatedPlus
  <2>4. Allocated(AllocatedOf(p))' = AllocatedNext(AllocatedOf(p)')
    BY DEF Allocated, AllocatedNext
  <2>5. LoadResolve(i, req[c].amount)
    BY <1>1, <1>2, <2>1 DEF MoneyInv, MoneyHeld
  <2>6. Allocated(S) + req[c].amount <= payment[p].amount
    BY <1>2, <2>5 DEF LoadResolve
  <2>. QED
    BY <1>3, <2>2, <2>3, <2>4, <2>6
<1>8. PaymentsCovered'
  BY <1>0, <1>3, <1>5, <1>7, CoveredOthers DEF PaymentsCovered, MoneyInv
<1>9. ASSUME NEW d \in Clerks PROVE MoneyHeld(d)'
  <2>0. req'[c] = Idle /\ (d # c => req'[d] = req[d])
    BY ReqAt DEF ResolvePaymentAllocation, End, TypeInv
  <2>1. CASE d = c
    BY <2>0, <2>1 DEF MoneyHeld, Idle
  <2>2. CASE d # c
    <3>1. req[d].pc \in {"resolve", "manual"} /\ req[d].key \notin raced => req[d].key # <<"payment", p>>
      <4>1. SUFFICES ASSUME req[d].pc \in {"resolve", "manual"}, req[d].key \notin raced,
                            req[d].key = req[c].key
                     PROVE  FALSE
        BY <1>1, <1>2
      <4>2. InFlight(d) /\ req[d].key # <<>>
        BY <1>1, <4>1 DEF InFlight
      <4>. QED
        BY <1>1, <2>2, <4>1, <4>2 DEF KeyInv
    <3>2. req[d].pc = "resolve" => \/ allocation'[req[d].id] = allocation[req[d].id]
                                  \/ allocation'[req[d].id].source_type = "MANUAL"
      BY <1>3, <1>4, ClerkAt DEF TypeInv
    <3>. QED
      BY <1>5, <2>0, <2>2, <3>1, <3>2, MoneyOthers
  <2>. QED
    BY <2>1, <2>2
<1>. QED
  BY <1>8, <1>9 DEF MoneyInv

LEMMA MoneyManual ==
  ASSUME TypeInv, KeyInv, MoneyInv, NEW c \in Clerks, AddManualAllocation(c)
  PROVE  MoneyInv'
<1>0. RowsOK
  BY DEF TypeInv
<1>1. /\ req[c].id \in Payments /\ req[c].obligation \in Obligations /\ req[c].amount \in Int
      /\ req[c].key = <<"payment", req[c].id>> /\ InFlight(c) /\ req[c].pc = "manual"
  BY ClerkAt, NumberTypes DEF AddManualAllocation, TypeInv, InFlight
<1>2. PICK p \in Payments : p = req[c].id
  BY <1>1
<1>. DEFINE x == [payment_id |-> p, obligation_id |-> req[c].obligation,
                  amount |-> req[c].amount, status |-> "MATCHED", source_type |-> "MANUAL"]
            i == Len(allocation) + 1
<1>3. /\ Allocations' = Allocations \union {i} /\ i \notin Allocations
      /\ Payments' = Payments /\ UNCHANGED <<payment, raced>>
      /\ allocation'[i] = x /\ \A a \in Allocations : allocation'[a] = allocation[a]
  <2>1. allocation' = Append(allocation, x) /\ allocation \in Seq(PaymentAllocation)
    BY <1>0, <1>2 DEF AddManualAllocation, RowsOK
  <2>. HIDE DEF x
  <2>. QED
    BY <1>0, <2>1, AllocationsFinite DEF AddManualAllocation, Allocations, Payments
<1>4. /\ x.payment_id = p /\ x.amount = req[c].amount /\ x.source_type = "MANUAL"
  OBVIOUS
<1>. HIDE DEF x, i
<1>5. Touches(p)
  BY <1>2, <1>3, <1>4 DEF Touches
<1>7. <<"payment", p>> \notin raced => Allocated(AllocatedOf(p))' <= payment'[p].amount
  <2>1. SUFFICES ASSUME <<"payment", p>> \notin raced
                 PROVE  Allocated(AllocatedOf(p))' <= payment'[p].amount
    OBVIOUS
  <2>. DEFINE S == AllocatedOf(p)
  <2>2. AllocatedOf(p)' = S \union {i}
    BY <1>3, <1>4 DEF AllocatedOf
  <2>3. AllocatedNext(S \union {i}) = Allocated(S) + req[c].amount
    <3>1. /\ S \subseteq Allocations /\ S \subseteq Allocations' /\ i \notin S /\ i \in Allocations'
          /\ \A b \in S : allocation'[b].amount = allocation[b].amount
          /\ allocation'[i].amount = req[c].amount /\ allocation'[i].amount \in Int
      BY <1>1, <1>3, <1>4 DEF AllocatedOf
    <3>. HIDE DEF S
    <3>. QED
      BY <1>0, <3>1, AllocatedPlus
  <2>4. Allocated(AllocatedOf(p))' = AllocatedNext(AllocatedOf(p)')
    BY DEF Allocated, AllocatedNext
  <2>5. LoadManual(p, req[c].amount)
    BY <1>1, <1>2, <2>1 DEF MoneyInv, MoneyHeld
  <2>6. Allocated(S) + req[c].amount <= payment[p].amount
    BY <2>5 DEF LoadManual
  <2>. QED
    BY <1>3, <2>2, <2>3, <2>4, <2>6
<1>8. PaymentsCovered'
  BY <1>0, <1>3, <1>5, <1>7, CoveredOthers DEF PaymentsCovered, MoneyInv
<1>9. ASSUME NEW d \in Clerks PROVE MoneyHeld(d)'
  <2>0. req'[c] = Idle /\ (d # c => req'[d] = req[d])
    BY ReqAt DEF AddManualAllocation, End, TypeInv
  <2>1. CASE d = c
    BY <2>0, <2>1 DEF MoneyHeld, Idle
  <2>2. CASE d # c
    <3>1. req[d].pc \in {"resolve", "manual"} /\ req[d].key \notin raced => req[d].key # <<"payment", p>>
      <4>1. SUFFICES ASSUME req[d].pc \in {"resolve", "manual"}, req[d].key \notin raced,
                            req[d].key = req[c].key
                     PROVE  FALSE
        BY <1>1, <1>2
      <4>2. InFlight(d) /\ req[d].key # <<>>
        BY <1>1, <4>1 DEF InFlight
      <4>. QED
        BY <1>1, <2>2, <4>1, <4>2 DEF KeyInv
    <3>2. req[d].pc = "resolve" => allocation'[req[d].id] = allocation[req[d].id]
      BY <1>3, ClerkAt DEF TypeInv
    <3>. QED
      BY <1>5, <2>0, <2>2, <3>1, <3>2, MoneyOthers
  <2>. QED
    BY <2>1, <2>2
<1>. QED
  BY <1>8, <1>9 DEF MoneyInv

LEMMA ResolveAt ==
  ASSUME TypeInv, NEW c \in Clerks, req[c].pc = "resolve"
  PROVE  /\ req[c].id \in Allocations /\ allocation[req[c].id].payment_id \in Payments
         /\ req[c].key = <<"payment", allocation[req[c].id].payment_id>>
<1>1. ClerkOK(c)
  BY DEF TypeInv
<1>2. req[c].id \in Allocations /\ req[c].key = <<"payment", allocation[req[c].id].payment_id>>
  BY <1>1, ClerkAt
<1>. QED
  BY <1>2 DEF TypeInv, RowsOK

LEMMA AllocatedNone == Allocated({}) = 0
  BY SumEmpty DEF Allocated

\* The rows of a payment that commits.
LEMMA Committed ==
  ASSUME RowsOK, NEW c, CommitPayment(c), PaymentHeld(req[c])
  PROVE  LET p == Len(payment) + 1
             i == Len(allocation) + 1
         IN  /\ Payments' = Payments \union {p} /\ p \notin Payments
             /\ Allocations' = Allocations \union {i} /\ i \notin Allocations
             /\ \A q \in Payments : payment'[q] = payment[q]
             /\ \A a \in Allocations : allocation'[a] = allocation[a]
             /\ payment'[p] = req[c].pay
             /\ allocation'[i].payment_id = p
             /\ allocation'[i].obligation_id = req[c].result.obligation_id
             /\ allocation'[i].amount = req[c].result.amount
             /\ allocation'[i].status = req[c].result.status
             /\ allocation'[i].source_type = "SYSTEM_GENERATED"
             /\ UNCHANGED raced /\ Touches(p)
<1>. DEFINE p == Len(payment) + 1
            i == Len(allocation) + 1
            x == [req[c].result EXCEPT !.payment_id = p]
<1>1. req[c].result \in Result
  BY DEF PaymentHeld, PaymentRequest
<1>2. /\ x.payment_id = p /\ x.obligation_id = req[c].result.obligation_id
      /\ x.amount = req[c].result.amount /\ x.status = req[c].result.status
      /\ x.source_type = "SYSTEM_GENERATED"
  BY <1>1 DEF Result
<1>3. /\ payment' = Append(payment, req[c].pay) /\ allocation' = Append(allocation, x)
      /\ payment \in Seq(PaymentTransaction) /\ allocation \in Seq(PaymentAllocation)
      /\ UNCHANGED raced
  BY DEF CommitPayment, RowsOK
<1>. HIDE DEF x
<1>4. /\ Payments' = Payments \union {p} /\ p \notin Payments /\ payment'[p] = req[c].pay
      /\ \A q \in Payments : payment'[q] = payment[q]
  BY <1>3, AllocationsFinite DEF Payments
<1>5. /\ Allocations' = Allocations \union {i} /\ i \notin Allocations /\ allocation'[i] = x
      /\ \A a \in Allocations : allocation'[a] = allocation[a]
  BY <1>3, AllocationsFinite DEF Allocations
<1>. HIDE DEF p, i
<1>6. Touches(p)
  BY <1>2, <1>3, <1>4, <1>5 DEF Touches
<1>. QED
  BY <1>2, <1>3, <1>4, <1>5, <1>6 DEF p, i

LEMMA MoneyCommit ==
  ASSUME TypeInv, MoneyInv, NEW c \in Clerks, CommitPayment(c)
  PROVE  MoneyInv'
<1>0. RowsOK /\ PaymentHeld(req[c])
  BY ClerkAt DEF TypeInv, CommitPayment
<1>1. req[c].pay \in PaymentTransaction /\ req[c].result \in Result /\ Sound(req[c].result, req[c].pay)
  BY <1>0 DEF PaymentHeld, PaymentRequest
<1>2. PICK p \in Nat, i \in Nat :
         /\ Payments' = Payments \union {p} /\ p \notin Payments
         /\ Allocations' = Allocations \union {i} /\ i \notin Allocations
         /\ \A a \in Allocations : allocation'[a] = allocation[a]
         /\ payment'[p] = req[c].pay
         /\ allocation'[i].payment_id = p
         /\ allocation'[i].amount = req[c].result.amount
         /\ allocation'[i].status = req[c].result.status
         /\ allocation'[i].source_type = "SYSTEM_GENERATED"
         /\ UNCHANGED raced /\ Touches(p)
  <2>1. Len(payment) + 1 \in Nat /\ Len(allocation) + 1 \in Nat
    BY <1>0, AllocationsFinite
  <2>. QED
    BY <1>0, <2>1, Committed
<1>4. ASSUME Placed(p)' # {}
      PROVE  Allocated(AllocatedOf(p))' <= payment'[p].amount
  <2>1. \A a \in Allocations : allocation[a].payment_id # p
    BY <1>0, <1>2 DEF RowsOK
  <2>2. AllocatedOf(p)' = {} \union {i}
    BY <1>2, <2>1 DEF AllocatedOf
  <2>3. AllocatedNext({} \union {i}) = Allocated({}) + req[c].result.amount
    <3>1. req[c].result.amount \in Int
      BY <1>1 DEF Result
    <3>2. {} \subseteq Allocations /\ {} \subseteq Allocations' /\ i \notin {} /\ i \in Allocations'
      BY <1>2
    <3>. QED
      BY <1>0, <1>2, <3>1, <3>2, AllocatedPlus
  <2>4. Allocated(AllocatedOf(p))' = AllocatedNext(AllocatedOf(p)')
    BY DEF Allocated, AllocatedNext
  <2>5. req[c].result.amount \in Int
    BY <1>1 DEF Result
  <2>6. req[c].result.status = "MATCHED"
    BY <1>2, <1>4, <2>1 DEF Placed
  <2>. QED
    BY <1>1, <1>2, <2>2, <2>3, <2>4, <2>5, <2>6, AllocatedNone DEF Sound
<1>5. PaymentsCovered'
  BY <1>0, <1>2, <1>4, CoveredOthers DEF PaymentsCovered, MoneyInv
<1>6. ASSUME NEW d \in Clerks PROVE MoneyHeld(d)'
  <2>0. req'[c] = Idle /\ (d # c => req'[d] = req[d])
    BY ReqAt DEF CommitPayment, End, TypeInv
  <2>1. CASE d = c
    BY <2>0, <2>1 DEF MoneyHeld, Idle
  <2>2. CASE d # c
    <3>1. req[d].pc \in {"resolve", "manual"} => req[d].key # <<"payment", p>>
      <4>1. req[d].pc = "resolve" => req[d].key # <<"payment", p>>
        BY <1>2, ResolveAt
      <4>2. req[d].pc = "manual" => req[d].key # <<"payment", p>>
        BY <1>0, <1>2, ClerkAt DEF TypeInv
      <4>. QED
        BY <4>1, <4>2
    <3>2. req[d].pc = "resolve" => allocation'[req[d].id] = allocation[req[d].id]
      BY <1>2, ClerkAt DEF TypeInv
    <3>. QED
      BY <1>2, <2>0, <2>2, <3>1, <3>2, MoneyOthers
  <2>. QED
    BY <2>1, <2>2
<1>. QED
  BY <1>5, <1>6 DEF MoneyInv

LEMMA MoneyBegin ==
  ASSUME TypeInv, MoneyInv, NEW c \in Clerks, Begins(c)
  PROVE  MoneyInv'
<1>1. PICK r : /\ Hold(c, r)
               /\ r.pc = "resolve" => /\ r.id \in Allocations /\ LoadResolve(r.id, r.amount)
               /\ r.pc = "manual" => LoadManual(r.id, r.amount)
  <2>1. CASE BeginLeaseStatus(c)
    BY <2>1 DEF BeginLeaseStatus
  <2>2. CASE BeginConfig(c)
    BY <2>2 DEF BeginConfig
  <2>3. CASE AddPayment(c) \/ import_payment_row(c)
    <3>1. PICK pay : BeginPayment(c, pay)
      BY <2>3 DEF AddPayment, import_payment_row
    <3>. QED
      BY <3>1 DEF BeginPayment
  <2>4. CASE BeginResolve(c)
    <3>1. PICK a \in Allocations, o \in Obligations, amount \in Amounts :
            /\ LoadResolve(a, amount)
            /\ Hold(c, [pc |-> "resolve", key |-> <<"payment", allocation[a].payment_id>>,
                        id |-> a, obligation |-> o, amount |-> amount])
      BY <2>4 DEF BeginResolve
    <3>. QED
      BY <3>1
  <2>5. CASE BeginManualAllocation(c)
    <3>1. PICK p \in Payments, o \in Obligations, amount \in Amounts :
            /\ LoadManual(p, amount)
            /\ Hold(c, [pc |-> "manual", key |-> <<"payment", p>>, id |-> p,
                        obligation |-> o, amount |-> amount])
      BY <2>5 DEF BeginManualAllocation
    <3>. QED
      BY <3>1
  <2>. QED
    BY <2>1, <2>2, <2>3, <2>4, <2>5 DEF Begins
<1>2. /\ req'[c] = r /\ \A d \in Clerks : d # c => req'[d] = req[d]
      /\ raced \subseteq raced' /\ UNCHANGED <<payment, allocation>>
  BY <1>1, BegunBy
<1>3. PaymentsCovered' /\ \A d \in Clerks : d # c => MoneyHeld(d)'
  BY <1>2, MoneySame
<1>4. MoneyHeld(c)'
  <2>1. r.pc = "resolve" => ~(/\ allocation'[r.id].status = "MATCHED"
                             /\ allocation'[r.id].source_type = "SYSTEM_GENERATED")
    BY <1>1, <1>2 DEF LoadResolve
  <2>2. r.pc = "resolve" => LoadResolve(r.id, r.amount)'
    BY <1>1, <1>2 DEF LoadResolve, Allocated, AllocatedOf, Allocations
  <2>3. r.pc = "manual" => LoadManual(r.id, r.amount)'
    BY <1>1, <1>2 DEF LoadManual, Allocated, AllocatedOf, Allocations
  <2>. QED
    BY <1>2, <2>1, <2>2, <2>3 DEF MoneyHeld
<1>. QED
  BY <1>3, <1>4 DEF MoneyInv

LEMMA MoneyNext == TypeInv /\ KeyInv /\ MoneyInv /\ [Next]_vars => MoneyInv'
<1>. SUFFICES ASSUME TypeInv, KeyInv, MoneyInv, [Next]_vars PROVE MoneyInv'
  OBVIOUS
<1>1. ASSUME NEW c \in Clerks,
             \/ Begins(c) \/ CommitPayment(c) \/ ResolvePaymentAllocation(c)
             \/ AddManualAllocation(c)
      PROVE  MoneyInv'
  BY <1>1, MoneyBegin, MoneyCommit, MoneyResolve, MoneyManual
<1>2. CASE Moves /\ UNCHANGED <<payment, allocation>>
  <2>1. raced \subseteq raced'
    BY <1>2 DEF Moves
  <2>2. PaymentsCovered' /\ \A c \in Clerks : req'[c] = req[c] => MoneyHeld(c)'
    BY <1>2, <2>1, MoneySame
  <2>3. ASSUME NEW c \in Clerks, req'[c] # req[c] PROVE MoneyHeld(c)'
    <3>1. req'[c].pc \notin {"resolve", "manual"}
      BY <1>2, <2>3 DEF Moves, Idle
    <3>. QED
      BY <3>1 DEF MoneyHeld
  <2>. QED
    BY <2>2, <2>3 DEF MoneyInv
<1>3. \/ \E c \in Clerks : \/ Begins(c) \/ CommitPayment(c) \/ ResolvePaymentAllocation(c)
                          \/ AddManualAllocation(c)
      \/ UNCHANGED <<payment, allocation>>
  BY DEF Next, vars, AddTenant, AddLease, UpdateOccupancyStatus, AddRentObligation,
         ImportRentObligationRow, ConfigStep, SelectConfig, MissConfig, InsertConfig, LoseConfig,
         UpdateReconciliationConfig, GetReconciliationConfig, ReadOpenObligations, DecideMatch,
         UpdateLeaseStatus, Begins, rows
<1>. QED
  BY <1>1, <1>2, <1>3, MoveOrBegin

LEMMA MoneyInit == Init => MoneyInv
<1>. SUFFICES ASSUME Init PROVE MoneyInv
  OBVIOUS
<1>1. Allocations = {} /\ Payments = {} /\ \A c \in Clerks : req[c] = Idle
  BY DEF Init, Allocations, Payments
<1>. QED
  BY <1>1 DEF MoneyInv, PaymentsCovered, MoneyHeld, Idle

LEMMA MoneyAlways == Spec => [](TypeInv /\ CountInv /\ KeyInv /\ MoneyInv)
<1>1. TypeInv /\ CountInv /\ KeyInv /\ MoneyInv /\ [Next]_vars
        => (TypeInv /\ CountInv /\ KeyInv /\ MoneyInv)'
  BY TypeNext, CountNext, KeyNext, MoneyNext
<1>. QED
  BY <1>1, TypeInit, TrailInit, MoneyInit, PTL DEF Spec

\* A confirmed match is final: no step changes a MATCHED allocation of a payment that
\* two manual requests did not hold at once (commercial/service.py,
\* resolve_payment_allocation).
THEOREM MatchesAreFinal == Spec => MatchedIsFinal
<1>1. ASSUME TypeInv, KeyInv, MoneyInv, [Next]_vars,
             NEW a \in Allocations, allocation[a].status = "MATCHED",
             <<"payment", allocation[a].payment_id>> \notin raced
      PROVE  allocation'[a] = allocation[a]
  <2>1. CASE UNCHANGED allocation
    BY <2>1
  <2>2. ASSUME NEW c \in Clerks, CommitPayment(c) PROVE allocation'[a] = allocation[a]
    BY <1>1, <2>2, Committed, ClerkAt DEF TypeInv, CommitPayment
  <2>3. ASSUME NEW c \in Clerks, AddManualAllocation(c) PROVE allocation'[a] = allocation[a]
    <3>1. PICK x : allocation' = Append(allocation, x)
      BY <2>3 DEF AddManualAllocation
    <3>. QED
      BY <1>1, <3>1, AllocationsFinite DEF TypeInv, RowsOK
  <2>4. ASSUME NEW c \in Clerks, ResolvePaymentAllocation(c) PROVE allocation'[a] = allocation[a]
    <3>1. /\ req[c].pc = "resolve" /\ req[c].id \in Allocations
          /\ req[c].key = <<"payment", allocation[req[c].id].payment_id>>
      BY <1>1, <2>4, ResolveAt DEF ResolvePaymentAllocation
    <3>2. CASE a = req[c].id
      <4>1. LoadResolve(req[c].id, req[c].amount)
        BY <1>1, <3>1, <3>2 DEF MoneyInv, MoneyHeld
      <4>. QED
        BY <1>1, <3>2, <4>1 DEF LoadResolve
    <3>3. CASE a # req[c].id
      <4>1. PICK x : allocation' = [allocation EXCEPT ![req[c].id] = x]
        BY <2>4 DEF ResolvePaymentAllocation
      <4>. QED
        BY <1>1, <3>1, <3>3, <4>1, AllocationsFinite DEF TypeInv, RowsOK
    <3>. QED
      BY <3>2, <3>3
  <2>5. \/ UNCHANGED allocation
        \/ \E c \in Clerks : \/ CommitPayment(c) \/ ResolvePaymentAllocation(c)
                            \/ AddManualAllocation(c)
    <3>1. ASSUME NEW c \in Clerks, Begins(c) PROVE UNCHANGED allocation
      BY <1>1, <3>1, BeginHolds, BegunBy
    <3>. QED
      BY <1>1, <3>1
      DEF Next, vars, AddTenant, AddLease, UpdateOccupancyStatus, AddRentObligation,
         ImportRentObligationRow, ConfigStep, SelectConfig, MissConfig, InsertConfig, LoseConfig,
         UpdateReconciliationConfig, GetReconciliationConfig, ReadOpenObligations, DecideMatch,
         UpdateLeaseStatus, Begins, rows
  <2>. QED
    BY <2>1, <2>2, <2>3, <2>4, <2>5
<1>2. TypeInv /\ KeyInv /\ MoneyInv /\ [Next]_vars
        => [\A a \in Allocations :
              /\ allocation[a].status = "MATCHED"
              /\ <<"payment", allocation[a].payment_id>> \notin raced
              => allocation'[a] = allocation[a]]_vars
  BY <1>1
<1>. QED
  BY <1>2, MoneyAlways, PTL DEF Spec, MatchedIsFinal

-----------------------------------------------------------------------------
(* What a lease's payments are reported as *)

\* Of the payments Q: those nothing was placed of, and all the allocations of the others.
Unplaced(Q) == {p \in Q : Placed(p) = {}}
Used(Q)     == {a \in Allocations : allocation[a].payment_id \in Q \ Unplaced(Q)}

LEMMA ReceivedPlus ==
  ASSUME RowsOK, NEW S \in SUBSET Payments, NEW p \in Payments, p \notin S
  PROVE  Received(S \union {p}) = payment[p].amount + Received(S) /\ Received(S) \in Int
<1>. DEFINE f == [q \in Payments |-> payment[q].amount]
<1>1. IsFiniteSet(S)
  BY AllocationsFinite, FS_Subset
<1>2. (\A q \in S \union {p} : f[q] \in Int) /\ f[p] = payment[p].amount
  BY AmountTypes
<1>. HIDE DEF f
<1>3. SumFunctionOnSet(f, S \union {p}) = f[p] + SumFunctionOnSet(f, S) /\ SumFunctionOnSet(f, S) \in Int
  BY <1>1, <1>2, SumAdd, SumType
<1>. QED
  BY <1>2, <1>3 DEF Received, f

LEMMA AllocatedUnion ==
  ASSUME RowsOK, NEW S \in SUBSET Allocations, NEW R \in SUBSET Allocations, S \intersect R = {}
  PROVE  Allocated(S \union R) = Allocated(S) + Allocated(R)
<1>. DEFINE f == [a \in Allocations |-> allocation[a].amount]
<1>1. IsFiniteSet(S) /\ IsFiniteSet(R)
  BY AllocationsFinite, FS_Subset
<1>2. \A a \in S \union R : f[a] \in Int
  BY AmountTypes
<1>. HIDE DEF f
<1>3. SumFunctionOnSet(f, S \union R) = SumFunctionOnSet(f, S) + SumFunctionOnSet(f, R)
  BY <1>1, <1>2, SumUnion
<1>. QED
  BY <1>3 DEF Allocated, f

LEMMA AllocatedSubset ==
  ASSUME RowsOK, NEW S \in SUBSET Allocations, NEW R \in SUBSET S,
         \A a \in S \ R : allocation[a].amount >= 0
  PROVE  Allocated(R) <= Allocated(S)
<1>. DEFINE f == [a \in Allocations |-> allocation[a].amount]
<1>1. IsFiniteSet(S)
  BY AllocationsFinite, FS_Subset
<1>2. (\A a \in S : f[a] \in Int) /\ \A a \in S \ R : f[a] >= 0
  BY AmountTypes
<1>. HIDE DEF f
<1>3. SumFunctionOnSet(f, R) <= SumFunctionOnSet(f, S)
  BY <1>1, <1>2, SumSubset
<1>. QED
  BY <1>3 DEF Allocated, f

\* What is unplaced and what is used of a set of payments are together no more than
\* was received, when no more is allocated of each payment that is placed.
LEMMA PaidOnce ==
  ASSUME RowsOK, NEW P \in SUBSET Payments,
         \A p \in P : Placed(p) # {} => Allocated(AllocatedOf(p)) <= payment[p].amount
  PROVE  Received(Unplaced(P)) + Allocated(Used(P)) <= Received(P)
<1>. DEFINE G == {Q \in SUBSET P : Received(Unplaced(Q)) + Allocated(Used(Q)) <= Received(Q)}
<1>1. {} \in G
  <2>1. Unplaced({}) = {} /\ Used({}) = {}
    BY DEF Unplaced, Used
  <2>2. Received({}) = 0 /\ Allocated({}) = 0
    BY SumEmpty DEF Received, Allocated
  <2>3. Received(Unplaced({})) + Allocated(Used({})) <= Received({})
    BY <2>1, <2>2
  <2>. QED
    BY <2>3
<1>2. ASSUME NEW Q \in SUBSET P, Q # {}, \A x \in Q : Q \ {x} \in G
      PROVE  Q \in G
  <2>1. PICK x \in Q : Q \ {x} \in G
    BY <1>2
  <2>. DEFINE R == Q \ {x}
  <2>2. Received(Unplaced(R)) + Allocated(Used(R)) <= Received(R)
    BY <2>1
  <2>3. /\ R \in SUBSET Payments /\ x \in Payments /\ x \notin R /\ Q = R \union {x}
        /\ Unplaced(R) \in SUBSET Payments /\ x \notin Unplaced(R)
        /\ Used(R) \in SUBSET Allocations /\ AllocatedOf(x) \in SUBSET Allocations
        /\ Used(R) \intersect AllocatedOf(x) = {}
    BY DEF Unplaced, Used, AllocatedOf
  <2>. HIDE DEF R
  <2>5. Received(Q) = payment[x].amount + Received(R) /\ Received(R) \in Int
    BY <2>3, ReceivedPlus
  <2>6. /\ Allocated(Used(R) \union AllocatedOf(x)) = Allocated(Used(R)) + Allocated(AllocatedOf(x))
        /\ Allocated(Used(R)) \in Int /\ Allocated(AllocatedOf(x)) \in Int
    BY <2>3, AllocatedUnion, AllocatedType
  <2>7. /\ Received(Unplaced(R)) \in Int
        /\ Received(Unplaced(R) \union {x}) = payment[x].amount + Received(Unplaced(R))
    BY <2>3, ReceivedPlus
  <2>8. payment[x].amount \in Int
    BY <2>3, AmountTypes
  <2>9. CASE Placed(x) = {}
    <3>1. Unplaced(Q) = Unplaced(R) \union {x} /\ Used(Q) = Used(R)
      BY <2>3, <2>9 DEF Unplaced, Used
    <3>2. Received(Unplaced(Q)) + Allocated(Used(Q)) <= Received(Q)
      BY <2>2, <2>5, <2>6, <2>7, <2>8, <3>1
    <3>. QED
      BY <3>2
  <2>10. CASE Placed(x) # {}
    <3>1. Unplaced(Q) = Unplaced(R) /\ Used(Q) = Used(R) \union AllocatedOf(x)
      BY <2>3, <2>10 DEF Unplaced, Used, AllocatedOf
    <3>2. Allocated(AllocatedOf(x)) <= payment[x].amount
      BY <2>10
    <3>3. Received(Unplaced(Q)) + Allocated(Used(Q)) <= Received(Q)
      BY <2>2, <2>5, <2>6, <2>7, <2>8, <3>1, <3>2
    <3>. QED
      BY <3>3
  <2>. QED
    BY <2>9, <2>10
<1>3. IsFiniteSet(P)
  BY AllocationsFinite, FS_Subset
<1>. HIDE DEF G
<1>4. P \in G
  <2>1. G \in SUBSET SUBSET P
    BY DEF G
  <2>. QED
    BY <1>1, <1>2, <1>3, <2>1, SubsetInduction
<1>. QED
  BY <1>4 DEF G

\* No penny of a lease's payments is reported twice, whatever the signs of the amounts:
\* what arrears_for_lease calls unallocated and what the other payments' allocations come
\* to never exceed what was received, when no two manual requests held one of the
\* payments at once (commercial/arrears.py, commercial/router.py).
THEOREM MoneyIsCountedOnce == Spec => []MoneyCountedOnce
<1>1. ASSUME TypeInv, MoneyInv, NEW l \in Leases, NEW paid,
             paid = {q \in Payments : payment[q].lease_id = l},
             \A p \in paid : <<"payment", p>> \notin raced
      PROVE  LET placed == {p \in paid : \E a \in AllocatedOf(p) : allocation[a].status = "MATCHED"}
                 used   == {a \in Allocations : allocation[a].payment_id \in placed}
             IN  arrears_for_lease(l, 0).unallocated + Allocated(used) <= Received(paid)
  <2>. DEFINE held == {p \in paid : \E a \in AllocatedOf(p) : allocation[a].status = "MATCHED"}
  <2>0. RowsOK /\ paid \in SUBSET Payments
    BY <1>1 DEF TypeInv
  <2>1. \A p \in paid : Placed(p) # {} => Allocated(AllocatedOf(p)) <= payment[p].amount
    BY <1>1, <2>0 DEF MoneyInv, PaymentsCovered
  <2>2. Received(Unplaced(paid)) + Allocated(Used(paid)) <= Received(paid)
    BY <2>0, <2>1, PaidOnce
  <2>3. arrears_for_lease(l, 0).unallocated = Received(Unplaced(paid))
    <3>. DEFINE placed == {allocation[a].payment_id :
                             a \in {b \in Allocations : allocation[b].status = "MATCHED"}}
    <3>1. {p \in Payments : payment[p].lease_id = l /\ p \notin placed} = Unplaced(paid)
      BY <1>1 DEF Unplaced, Placed
    <3>2. arrears_for_lease(l, 0).unallocated
             = Received({p \in Payments : payment[p].lease_id = l /\ p \notin placed})
      BY DEF arrears_for_lease
    <3>. QED
      BY <3>1, <3>2
  <2>4. held = paid \ Unplaced(paid)
    BY DEF Unplaced, Placed, AllocatedOf
  <2>. QED
    BY <2>2, <2>3, <2>4 DEF Used
<1>2. TypeInv /\ MoneyInv => MoneyCountedOnce
  BY <1>1 DEF MoneyCountedOnce
<1>. QED
  BY <1>2, MoneyAlways, PTL

-----------------------------------------------------------------------------
(* What the reconciler matched by itself *)

AutoOf(o) ==
    {a \in Allocations : /\ allocation[a].obligation_id = o
                         /\ allocation[a].status = "MATCHED"
                         /\ allocation[a].source_type = "SYSTEM_GENERATED"}

\* The payment between its reading of the config row and its commit holds the row's lock.
LockHeld == \A c \in Clerks : req[c].pc \in {"open", "decide", "commit"} => config.lock = c

\* The allocations of an obligation that bear on the reconciler: its own, and those by
\* which a clerk took money back.
Counted(o) ==
    {a \in Allocations : /\ allocation[a].obligation_id = o
                         /\ allocation[a].status = "MATCHED"
                         /\ \/ allocation[a].source_type = "SYSTEM_GENERATED"
                            \/ allocation[a].amount < 0}

AutoDue ==
    \A o \in Obligations : AutoOf(o) = {} \/ Allocated(Counted(o)) <= obligation[o].amount_due

\* A payment about to commit a match still finds the obligation owing that much.
AutoHeld(c) ==
    LET m == req[c].result IN
    req[c].pc = "commit" /\ m.status = "MATCHED"
       => /\ m.obligation_id \in Obligations
          /\ Allocated(Counted(m.obligation_id)) + m.amount
                <= obligation[m.obligation_id].amount_due

\* No request lost the race for the config row, and no two held one payment.
Calm == <<"config">> \notin raced /\ \A p \in Payments : <<"payment", p>> \notin raced

AutoInv == Calm => LockHeld /\ AutoDue /\ \A c \in Clerks : AutoHeld(c)

LEMMA NobodyHolds ==
  ASSUME LockHeld, NEW c, config.lock = c \/ config.lock = NoClerk
  PROVE  \A d \in Clerks : d # c => req[d].pc \notin {"open", "decide", "commit"}
  BY NullAssumption DEF LockHeld

LEMMA LockNext ==
  ASSUME TypeInv, LockHeld, [Next]_vars, <<"config">> \notin raced'
  PROVE  LockHeld'
<1>0. RowsOK
  BY DEF TypeInv
<1>1. CASE UNCHANGED vars \/ AddTenant \/ AddLease \/ UpdateOccupancyStatus
           \/ AddRentObligation \/ ImportRentObligationRow
  BY <1>1 DEF vars, AddTenant, AddLease, UpdateOccupancyStatus, AddRentObligation,
              ImportRentObligationRow, LockHeld
<1>2. ASSUME NEW c \in Clerks, Begins(c) PROVE LockHeld'
  <2>1. PICK r : Hold(c, r) /\ r.pc \notin {"open", "decide", "commit"}
    BY <1>2, BeginHolds
  <2>. QED
    BY <2>1, BegunBy DEF LockHeld
<1>3. ASSUME NEW c \in Clerks,
             UpdateLeaseStatus(c) \/ ResolvePaymentAllocation(c) \/ AddManualAllocation(c)
      PROVE  LockHeld'
  <2>1. req' = [req EXCEPT ![c] = Idle] /\ UNCHANGED config
    BY <1>3 DEF UpdateLeaseStatus, ResolvePaymentAllocation, AddManualAllocation, End
  <2>. QED
    BY <1>0, <2>1, ReqAt DEF LockHeld, Idle
<1>4. ASSUME NEW c \in Clerks, SelectConfig(c) \/ InsertConfig(c) PROVE LockHeld'
  <2>1. PICK w : GoOn(c, w)
    BY <1>4 DEF SelectConfig, InsertConfig
  <2>2. /\ config.lock = NoClerk /\ config'.lock = c
    BY <1>0, <1>4 DEF SelectConfig, InsertConfig, RowsOK, PaymentReconciliationConfig
  <2>3. \A d \in Clerks : d # c => req'[d] = req[d]
    BY <1>0, <2>1, ReqAt DEF GoOn
  <2>. QED
    BY <2>2, <2>3, NobodyHolds DEF LockHeld
<1>5. ASSUME NEW c \in Clerks, MissConfig(c) PROVE LockHeld'
  <2>. DEFINE k == [req[c] EXCEPT !.pc = "insert"]
  <2>1. req' = [req EXCEPT ![c] = k] /\ UNCHANGED config
    BY <1>5 DEF MissConfig, Goto
  <2>2. k.pc = "insert"
    BY <1>5, ClerkAt DEF MissConfig, ConfigRequest, PaymentHeld, PaymentRequest, TypeInv
  <2>. HIDE DEF k
  <2>. QED
    BY <1>0, <2>1, <2>2, ReqAt DEF LockHeld
<1>6. ASSUME NEW c \in Clerks, LoseConfig(c) PROVE FALSE
  BY <1>6 DEF LoseConfig
<1>7. ASSUME NEW c \in Clerks, \/ UpdateReconciliationConfig(c) \/ GetReconciliationConfig(c)
                              \/ CommitPayment(c)
      PROVE  LockHeld'
  <2>1. req' = [req EXCEPT ![c] = Idle]
    BY <1>7 DEF UpdateReconciliationConfig, GetReconciliationConfig, CommitPayment, End
  <2>2. \/ config.lock \in {c, NoClerk}
        \/ UNCHANGED config
    BY <1>7 DEF UpdateReconciliationConfig, GetReconciliationConfig, CommitPayment, Released
  <2>3. req'[c] = Idle /\ \A d \in Clerks : d # c => req'[d] = req[d]
    BY <1>0, <2>1, ReqAt
  <2>4. \A d \in Clerks : req'[d].pc \in {"open", "decide", "commit"}
                            => d # c /\ req'[d] = req[d] /\ config.lock = d
    BY <2>3 DEF LockHeld, Idle
  <2>5. CASE config.lock \in {c, NoClerk}
    BY <2>4, <2>5, NullAssumption DEF LockHeld
  <2>6. CASE UNCHANGED config
    BY <2>4, <2>6 DEF LockHeld
  <2>. QED
    BY <2>2, <2>5, <2>6
<1>8. ASSUME NEW c \in Clerks, ReadOpenObligations(c) \/ DecideMatch(c) PROVE LockHeld'
  <2>1. /\ req[c].pc \in {"open", "decide"} /\ UNCHANGED config
        /\ \A d \in Clerks : d # c => req'[d] = req[d]
    BY <1>0, <1>8, ReqAt DEF ReadOpenObligations, DecideMatch
  <2>. QED
    BY <2>1 DEF LockHeld
<1>. QED
  BY <1>1, <1>2, <1>3, <1>4, <1>5, <1>6, <1>7, <1>8 DEF Next, ConfigStep, Begins

LEMMA AutoType ==
  ASSUME RowsOK, NEW o
  PROVE  /\ Counted(o) \in SUBSET Allocations /\ Allocated(Counted(o)) \in Int
         /\ o \in Obligations => obligation[o].amount_due \in Int
<1>1. Counted(o) \in SUBSET Allocations
  BY DEF Counted
<1>2. o \in Obligations => obligation[o].amount_due \in Int
  BY NumberTypes, AllocationsFinite DEF RentObligation
<1>. QED
  BY <1>1, <1>2, AllocatedType

\* The allocations of an obligation as they were come to what they came to.
LEMMA AutoKept ==
  ASSUME RowsOK, NEW o, Counted(o)' = Counted(o), Allocations \subseteq Allocations',
         \A a \in Counted(o) : allocation'[a].amount = allocation[a].amount
  PROVE  Allocated(Counted(o))' = Allocated(Counted(o))
<1>1. AllocatedNext(Counted(o)) = Allocated(Counted(o))
  BY AllocatedKeep, AutoType
<1>2. Allocated(Counted(o))' = AllocatedNext(Counted(o)')
  BY DEF Allocated, AllocatedNext
<1>. QED
  BY <1>1, <1>2

\* One more of them adds its amount.
LEMMA AutoPlus ==
  ASSUME RowsOK, NEW o, NEW i \in Allocations', i \notin Counted(o),
         Counted(o)' = Counted(o) \union {i}, Allocations \subseteq Allocations',
         \A a \in Counted(o) : allocation'[a].amount = allocation[a].amount,
         allocation'[i].amount \in Int
  PROVE  Allocated(Counted(o))' = Allocated(Counted(o)) + allocation'[i].amount
<1>1. Counted(o) \subseteq Allocations /\ Counted(o) \subseteq Allocations'
  BY AutoType
<1>2. AllocatedNext(Counted(o) \union {i}) = Allocated(Counted(o)) + allocation'[i].amount
  <2>. DEFINE S == Counted(o)
  <2>1. /\ S \subseteq Allocations /\ S \subseteq Allocations' /\ i \notin S
        /\ \A a \in S : allocation'[a].amount = allocation[a].amount
    BY <1>1
  <2>. HIDE DEF S
  <2>2. AllocatedNext(S \union {i}) = Allocated(S) + allocation'[i].amount
    BY <2>1, AllocatedPlus
  <2>. QED
    BY <2>2 DEF S
<1>3. Allocated(Counted(o))' = AllocatedNext(Counted(o)')
  BY DEF Allocated, AllocatedNext
<1>. QED
  BY <1>2, <1>3

\* A clerk's match that is new leaves the reconciler's as they were, and can only take
\* money back from an obligation.
LEMMA AutoByHand ==
  ASSUME RowsOK, NEW i \in Allocations', i \in Allocations => allocation[i].status # "MATCHED",
         Allocations' = Allocations \union {i},
         \A a \in Allocations : a # i => allocation'[a] = allocation[a],
         allocation'[i].source_type = "MANUAL", allocation'[i].amount \in Int
  PROVE  \A o : /\ AutoOf(o)' = AutoOf(o) /\ Allocated(Counted(o))' \in Int
                /\ Allocated(Counted(o))' <= Allocated(Counted(o))
<1>. TAKE o
<1>1. /\ i \notin Counted(o) /\ i \notin AutoOf(o)
      /\ \A a \in Counted(o) : allocation'[a] = allocation[a]
      /\ AutoOf(o)' = AutoOf(o)
  BY DEF AutoOf, Counted
<1>2. CASE i \in Counted(o)'
  <2>1. Counted(o)' = Counted(o) \union {i} /\ allocation'[i].amount < 0
    BY <1>1, <1>2 DEF Counted
  <2>2. Allocated(Counted(o))' = Allocated(Counted(o)) + allocation'[i].amount
    BY <1>1, <2>1, AutoPlus
  <2>3. Allocated(Counted(o)) \in Int
    BY AutoType
  <2>. QED
    BY <1>1, <2>1, <2>2, <2>3
<1>3. CASE i \notin Counted(o)'
  <2>1. Counted(o)' = Counted(o)
    BY <1>1, <1>3 DEF Counted
  <2>2. Allocated(Counted(o))' = Allocated(Counted(o))
    BY <1>1, <2>1, AutoKept
  <2>3. Allocated(Counted(o)) \in Int
    BY AutoType
  <2>. QED
    BY <1>1, <2>2, <2>3
<1>. QED
  BY <1>2, <1>3

\* No automatic match comes or goes: what was checked is still so.
LEMMA AutoSame ==
  ASSUME TypeInv, TypeInv', AutoDue, \A d \in Clerks : AutoHeld(d),
         Obligations \subseteq Obligations',
         \A o : /\ AutoOf(o)' = AutoOf(o) /\ Allocated(Counted(o))' \in Int
                /\ Allocated(Counted(o))' <= Allocated(Counted(o)),
         \A o \in Obligations : obligation'[o] = obligation[o],
         \A o \in Obligations' \ Obligations : o # None
  PROVE  /\ AutoDue'
         /\ \A d \in Clerks : req'[d] = req[d] => AutoHeld(d)'
<1>0. RowsOK /\ RowsOK'
  BY DEF TypeInv
<1>1. \A o : /\ Allocated(Counted(o))' <= Allocated(Counted(o)) /\ Allocated(Counted(o)) \in Int
             /\ Allocated(Counted(o))' \in Int
             /\ o \in Obligations => obligation[o].amount_due \in Int
  BY <1>0, AutoType
<1>2. AutoDue'
  <2>1. SUFFICES ASSUME NEW o \in Obligations'
                 PROVE  AutoOf(o)' = {} \/ Allocated(Counted(o))' <= obligation'[o].amount_due
    BY DEF AutoDue
  <2>2. CASE o \in Obligations /\ AutoOf(o) # {}
    <3>1. Allocated(Counted(o)) <= obligation[o].amount_due /\ obligation'[o] = obligation[o]
      BY <2>2 DEF AutoDue
    <3>2. /\ Allocated(Counted(o))' <= Allocated(Counted(o)) /\ Allocated(Counted(o)) \in Int
          /\ Allocated(Counted(o))' \in Int /\ obligation[o].amount_due \in Int
      BY <1>1, <2>2
    <3>. QED
      BY <3>1, <3>2
  <2>3. CASE o \notin Obligations
    <3>1. o # None
      BY <2>1, <2>3
    <3>2. AutoOf(o) = {}
      BY <1>0, <2>3, <3>1 DEF AutoOf, RowsOK
    <3>. QED
      BY <3>2
  <2>. QED
    BY <2>2, <2>3
<1>3. ASSUME NEW d \in Clerks, req'[d] = req[d], req[d].pc = "commit",
             req[d].result.status = "MATCHED",
             NEW o, o = req[d].result.obligation_id
      PROVE  /\ o \in Obligations'
             /\ Allocated(Counted(o))' + req[d].result.amount <= obligation'[o].amount_due
  <2>1. /\ o \in Obligations
        /\ Allocated(Counted(o)) + req[d].result.amount <= obligation[o].amount_due
    BY <1>3 DEF AutoHeld
  <2>2. req[d].result.amount \in Int
    BY <1>3, ClerkAt DEF TypeInv, PaymentHeld, PaymentRequest, Result
  <2>3. /\ Allocated(Counted(o))' <= Allocated(Counted(o)) /\ Allocated(Counted(o)) \in Int
        /\ Allocated(Counted(o))' \in Int /\ obligation[o].amount_due \in Int
    BY <1>1, <2>1
  <2>. QED
    BY <2>1, <2>2, <2>3
<1>. QED
  BY <1>2, <1>3 DEF AutoHeld

\* A match that commits adds what was checked, while nobody else could.
LEMMA AutoCommit ==
  ASSUME TypeInv, AutoDue, \A d \in Clerks : AutoHeld(d), LockHeld,
         NEW c \in Clerks, CommitPayment(c)
  PROVE  AutoDue' /\ \A d \in Clerks : AutoHeld(d)'
<1>0. RowsOK /\ PaymentHeld(req[c]) /\ req[c].pc = "commit"
  BY ClerkAt DEF TypeInv, CommitPayment
<1>. DEFINE m == req[c].result
<1>1. PICK i \in Nat :
         /\ Allocations' = Allocations \union {i} /\ i \notin Allocations
         /\ \A a \in Allocations : allocation'[a] = allocation[a]
         /\ allocation'[i].obligation_id = m.obligation_id
         /\ allocation'[i].amount = m.amount /\ allocation'[i].status = m.status
         /\ allocation'[i].source_type = "SYSTEM_GENERATED"
  <2>1. Len(allocation) + 1 \in Nat
    BY <1>0, AllocationsFinite
  <2>. QED
    BY <1>0, <2>1, Committed
<1>2. m.amount \in Int
  BY <1>0 DEF PaymentHeld, PaymentRequest, Result
<1>3. UNCHANGED obligation /\ Obligations' = Obligations
  BY DEF CommitPayment, Obligations
<1>4. \A d \in Clerks : req'[d].pc # "commit"
  <2>1. req'[c] = Idle /\ \A d \in Clerks : d # c => req'[d] = req[d]
    BY <1>0, ReqAt DEF CommitPayment, End
  <2>2. \A d \in Clerks : d # c => req[d].pc # "commit"
    BY <1>0, NobodyHolds DEF LockHeld
  <2>. QED
    BY <2>1, <2>2 DEF Idle
<1>5. ASSUME NEW o \in Obligations
      PROVE  AutoOf(o)' = {} \/ Allocated(Counted(o))' <= obligation'[o].amount_due
  <2>0. i \notin Counted(o) /\ \A a \in Counted(o) : allocation'[a].amount = allocation[a].amount
    BY <1>1 DEF Counted
  <2>1. CASE m.status = "MATCHED" /\ m.obligation_id = o
    <3>1. Counted(o)' = Counted(o) \union {i}
      BY <1>1, <2>1 DEF Counted
    <3>2. Allocated(Counted(o))' = Allocated(Counted(o)) + allocation'[i].amount
      BY <1>0, <1>1, <1>2, <2>0, <3>1, AutoPlus
    <3>3. Allocated(Counted(o)) + m.amount <= obligation[o].amount_due
      BY <1>0, <2>1 DEF AutoHeld
    <3>. QED
      BY <1>1, <1>3, <3>2, <3>3
  <2>2. CASE ~(m.status = "MATCHED" /\ m.obligation_id = o)
    <3>1. Counted(o)' = Counted(o) /\ AutoOf(o)' = AutoOf(o)
      BY <1>1, <2>2 DEF Counted, AutoOf
    <3>2. Allocated(Counted(o))' = Allocated(Counted(o))
      BY <1>0, <1>1, <2>0, <3>1, AutoKept
    <3>. QED
      BY <1>3, <3>1, <3>2 DEF AutoDue
  <2>. QED
    BY <2>1, <2>2
<1>. QED
  BY <1>3, <1>4, <1>5 DEF AutoDue, AutoHeld

\* The decision leaves room for itself: of the manual allocations it looks at, those that
\* are not negative only take room away.
LEMMA AutoDecide ==
  ASSUME TypeInv, NEW c \in Clerks, DecideMatch(c)
  PROVE  AutoHeld(c)'
<1>0. RowsOK /\ PaymentHeld(req[c])
  BY ClerkAt DEF TypeInv, DecideMatch
<1>. DEFINE m == match_payment(req[c].pay, req[c].candidates, req[c].window)
<1>1. req'[c].result = m /\ UNCHANGED <<allocation, obligation>>
  <2>. DEFINE r == [req[c] EXCEPT !.pc = "commit", !.result = m]
  <2>1. req'[c] = r
    BY <1>0, ReqAt DEF DecideMatch
  <2>. HIDE DEF m
  <2>2. r.result = m
    BY <1>0 DEF PaymentHeld, PaymentRequest
  <2>. QED
    BY <2>1, <2>2 DEF DecideMatch, rows
<1>2. req[c].pay \in PaymentTransaction /\ req[c].window \in Int
      /\ req[c].candidates \in SUBSET Obligations
  BY <1>0, NumberTypes DEF PaymentRequest, PaymentHeld
<1>3. /\ m \in Result
      /\ m.status = "MATCHED" => /\ m.obligation_id \in Obligations
                                 /\ m.amount <= outstanding_for_obligation(m.obligation_id)
  BY <1>0, <1>2, MatchResult
<1>. HIDE DEF m
<1>4. m.status = "MATCHED"
         => /\ m.obligation_id \in Obligations
            /\ Allocated(Counted(m.obligation_id)) + m.amount
                  <= obligation[m.obligation_id].amount_due
  <2>1. SUFFICES ASSUME NEW o \in Obligations, o = m.obligation_id, m.status = "MATCHED"
                 PROVE  Allocated(Counted(o)) + m.amount <= obligation[o].amount_due
    BY <1>3
  <2>. DEFINE S == {a \in Allocations : allocation[a].obligation_id = o /\ allocation[a].status = "MATCHED"}
  <2>2. /\ S \in SUBSET Allocations /\ Counted(o) \in SUBSET S
        /\ \A a \in S \ Counted(o) : allocation[a].amount >= 0
    <3>1. \A a \in Allocations : allocation[a].amount \in Int
      BY <1>0, AmountTypes
    <3>. QED
      BY <3>1 DEF Counted
  <2>3. matched_amount_for_obligation(o) = Allocated(S)
    BY DEF matched_amount_for_obligation
  <2>. HIDE DEF S
  <2>4. Allocated(Counted(o)) <= Allocated(S)
    BY <1>0, <2>2, AllocatedSubset
  <2>5. Allocated(S) \in Int /\ Allocated(Counted(o)) \in Int /\ obligation[o].amount_due \in Int
    BY <1>0, <2>2, AllocatedType, AutoType
  <2>6. m.amount \in Int /\ m.amount <= obligation[o].amount_due - Allocated(S)
    BY <1>0, <1>3, <2>1, <2>3, OutstandingType DEF Result
  <2>. QED
    BY <2>4, <2>5, <2>6
<1>. QED
  BY <1>1, <1>4 DEF AutoHeld, Counted, Allocated, Allocations, Obligations

\* Only the decision brings a payment to its commit.
LEMMA ToCommit ==
  ASSUME TypeInv, [Next]_vars
  PROVE  /\ raced \subseteq raced'
         /\ \A d \in Clerks : req'[d] = req[d] \/ req'[d].pc # "commit" \/ DecideMatch(d)
<1>1. CASE UNCHANGED vars \/ AddTenant \/ AddLease \/ UpdateOccupancyStatus
           \/ AddRentObligation \/ ImportRentObligationRow
  BY <1>1 DEF vars, AddTenant, AddLease, UpdateOccupancyStatus, AddRentObligation,
              ImportRentObligationRow
<1>2. ASSUME NEW c \in Clerks, Begins(c)
      PROVE  raced \subseteq raced' /\ \A d \in Clerks : req'[d] = req[d] \/ req'[d].pc # "commit"
  BY <1>2, BeginHolds, BegunBy
<1>3. ASSUME NEW c \in Clerks,
             \/ UpdateLeaseStatus(c) \/ UpdateReconciliationConfig(c)
             \/ GetReconciliationConfig(c) \/ ResolvePaymentAllocation(c)
             \/ AddManualAllocation(c) \/ CommitPayment(c)
      PROVE  raced \subseteq raced' /\ \A d \in Clerks : req'[d] = req[d] \/ req'[d].pc # "commit"
  <2>1. End(c) /\ UNCHANGED raced
    BY <1>3 DEF UpdateLeaseStatus, UpdateReconciliationConfig, GetReconciliationConfig,
                ResolvePaymentAllocation, AddManualAllocation, CommitPayment
  <2>. QED
    BY <2>1, ReqAt DEF End, Idle, TypeInv
<1>4. ASSUME NEW c \in Clerks, SelectConfig(c) \/ InsertConfig(c) \/ LoseConfig(c)
      PROVE  raced \subseteq raced' /\ \A d \in Clerks : req'[d] = req[d] \/ req'[d].pc # "commit"
  <2>1. PICK w : GoOn(c, w)
    BY <1>4 DEF SelectConfig, InsertConfig, LoseConfig
  <2>2. /\ raced \subseteq raced'
        /\ req[c] \in ConfigRequest \/ PaymentHeld(req[c])
    BY <1>4, ClerkAt DEF SelectConfig, InsertConfig, LoseConfig, rows, TypeInv
  <2>. DEFINE r == [req[c] EXCEPT !.pc = req[c].next, !.window = w]
  <2>3. r.pc # "commit"
    BY <2>2 DEF ConfigRequest, PaymentHeld, PaymentRequest
  <2>4. req' = [req EXCEPT ![c] = r]
    BY <2>1 DEF GoOn
  <2>. HIDE DEF r
  <2>. QED
    BY <2>2, <2>3, <2>4, ReqAt DEF TypeInv
<1>5. ASSUME NEW c \in Clerks, MissConfig(c)
      PROVE  raced \subseteq raced' /\ \A d \in Clerks : req'[d] = req[d] \/ req'[d].pc # "commit"
  <2>. DEFINE k == [req[c] EXCEPT !.pc = "insert"]
  <2>1. req' = [req EXCEPT ![c] = k] /\ UNCHANGED raced
    BY <1>5 DEF MissConfig, Goto
  <2>2. k.pc = "insert"
    BY <1>5, ClerkAt DEF MissConfig, ConfigRequest, PaymentHeld, PaymentRequest, TypeInv
  <2>. HIDE DEF k
  <2>. QED
    BY <2>1, <2>2, ReqAt DEF TypeInv
<1>6. ASSUME NEW c \in Clerks, ReadOpenObligations(c)
      PROVE  raced \subseteq raced' /\ \A d \in Clerks : req'[d] = req[d] \/ req'[d].pc # "commit"
  <2>. DEFINE S == IF req[c].pay.lease_id = None THEN {}
                   ELSE open_obligations(req[c].pay.lease_id)
              k == [req[c] EXCEPT !.pc = "decide", !.candidates = S]
  <2>1. req' = [req EXCEPT ![c] = k] /\ UNCHANGED raced
    BY <1>6 DEF ReadOpenObligations
  <2>. HIDE DEF S
  <2>2. k.pc = "decide"
    BY <1>6, ClerkAt DEF ReadOpenObligations, PaymentHeld, PaymentRequest, TypeInv
  <2>. HIDE DEF k
  <2>. QED
    BY <2>1, <2>2, ReqAt DEF TypeInv
<1>7. ASSUME NEW c \in Clerks, DecideMatch(c)
      PROVE  raced \subseteq raced' /\ \A d \in Clerks : req'[d] = req[d] \/ DecideMatch(d)
  <2>1. UNCHANGED raced /\ \A d \in Clerks : d # c => req'[d] = req[d]
    BY <1>7, ReqAt DEF DecideMatch, TypeInv
  <2>. QED
    BY <1>7, <2>1
<1>. QED
  BY <1>1, <1>2, <1>3, <1>4, <1>5, <1>6, <1>7 DEF Next, ConfigStep, Begins

\* The steps that neither match by themselves nor undo such a match.
LEMMA AutoStays ==
  ASSUME TypeInv, TypeInv', MoneyInv, Calm, [Next]_vars, ~\E c \in Clerks : CommitPayment(c),
         AutoDue, \A d \in Clerks : AutoHeld(d)
  PROVE  /\ AutoDue'
         /\ \A d \in Clerks : req'[d] = req[d] => AutoHeld(d)'
<1>0. RowsOK /\ RowsOK'
  BY DEF TypeInv
<1>1. CASE UNCHANGED <<allocation, obligation>>
  <2>1. \A o : AutoOf(o)' = AutoOf(o) /\ Counted(o)' = Counted(o)
    BY <1>1 DEF AutoOf, Counted, Allocations
  <2>2. \A o : Allocated(Counted(o))' = Allocated(Counted(o)) /\ Allocated(Counted(o)) \in Int
    BY <1>0, <1>1, <2>1, AutoKept, AutoType DEF Allocations
  <2>. QED
    BY <1>1, <2>1, <2>2, AutoSame DEF Obligations
<1>2. CASE AddRentObligation \/ ImportRentObligationRow
  <2>1. UNCHANGED <<allocation>> /\ \E s \in Seq(RentObligation) : obligation' = obligation \o s
    <3>1. \A o : create_rent_obligation(o) \in {<<o>>, <<>>}
      BY DEF create_rent_obligation
    <3>2. ObligationPayloads \subseteq RentObligation
      BY PayloadsAssumption DEF RentObligation
    <3>3. \A o \in ObligationPayloads : \A s \in {<<o>>, <<>>} : s \in Seq(RentObligation)
      <4>1. \A o \in RentObligation : <<o>> \in Seq(RentObligation)
        OBVIOUS
      <4>2. <<>> \in Seq(RentObligation)
        BY EmptySeq
      <4>. QED
        BY <3>2, <4>1, <4>2
    <3>4. PICK o \in ObligationPayloads : \E s \in {<<o>>, <<>>} : obligation' = obligation \o s
      BY <1>2, <3>1 DEF AddRentObligation, ImportRentObligationRow, import_rent_obligation_row
    <3>. QED
      BY <1>2, <3>3, <3>4 DEF AddRentObligation, ImportRentObligationRow
  <2>2. Obligations \subseteq Obligations' /\ \A o \in Obligations : obligation'[o] = obligation[o]
    BY <1>0, <2>1, ConcatProperties DEF RowsOK, Obligations
  <2>3. \A o \in Obligations' : o # None
    BY <1>0, ElementOfSeq DEF RowsOK, Obligations, None
  <2>4. \A o : AutoOf(o)' = AutoOf(o) /\ Counted(o)' = Counted(o)
    BY <2>1 DEF AutoOf, Counted, Allocations
  <2>5. \A o : Allocated(Counted(o))' = Allocated(Counted(o)) /\ Allocated(Counted(o)) \in Int
    BY <1>0, <2>1, <2>4, AutoKept, AutoType DEF Allocations
  <2>. QED
    BY <2>2, <2>3, <2>4, <2>5, AutoSame
<1>3. ASSUME NEW c \in Clerks, ResolvePaymentAllocation(c)
      PROVE  /\ AutoDue'
             /\ \A d \in Clerks : req'[d] = req[d] => AutoHeld(d)'
  <2>1. PICK i \in Allocations : i = req[c].id
    BY <1>3, ResolveAt DEF ResolvePaymentAllocation
  <2>2. allocation[i].status # "MATCHED" /\ req[c].amount \in Int
    <3>1. req[c].pc = "resolve" /\ req[c].key \notin raced
      BY <1>3, ResolveAt DEF ResolvePaymentAllocation, Calm
    <3>2. LoadResolve(i, req[c].amount)
      BY <2>1, <3>1 DEF MoneyInv, MoneyHeld
    <3>3. req[c].amount \in Int
      BY <3>1, ClerkAt, NumberTypes DEF TypeInv
    <3>. QED
      BY <3>2, <3>3 DEF LoadResolve
  <2>. DEFINE x == [payment_id |-> allocation[i].payment_id, obligation_id |-> req[c].obligation,
                    amount |-> req[c].amount, status |-> "MATCHED", source_type |-> "MANUAL"]
  <2>3. allocation' = [allocation EXCEPT ![i] = x] /\ UNCHANGED obligation
    BY <1>3, <2>1 DEF ResolvePaymentAllocation
  <2>4. x.source_type = "MANUAL" /\ x.amount \in Int
    BY <2>2
  <2>. HIDE DEF x
  <2>5. /\ Allocations' = Allocations /\ allocation'[i] = x
        /\ \A a \in Allocations : a # i => allocation'[a] = allocation[a]
    BY <1>0, <2>3, AllocationsFinite DEF Allocations
  <2>6. \A o : /\ AutoOf(o)' = AutoOf(o) /\ Allocated(Counted(o))' \in Int
               /\ Allocated(Counted(o))' <= Allocated(Counted(o))
    <3>1. i \in Allocations' /\ Allocations' = Allocations \union {i}
      BY <2>5
    <3>. QED
      BY <1>0, <2>2, <2>4, <2>5, <3>1, AutoByHand
  <2>. QED
    BY <2>3, <2>6, AutoSame DEF Obligations
<1>4. ASSUME NEW c \in Clerks, AddManualAllocation(c)
      PROVE  /\ AutoDue'
             /\ \A d \in Clerks : req'[d] = req[d] => AutoHeld(d)'
  <2>. DEFINE x == [payment_id |-> req[c].id, obligation_id |-> req[c].obligation,
                    amount |-> req[c].amount, status |-> "MATCHED", source_type |-> "MANUAL"]
              i == Len(allocation) + 1
  <2>3. /\ allocation' = Append(allocation, x) /\ UNCHANGED obligation
        /\ allocation \in Seq(PaymentAllocation)
    BY <1>0, <1>4 DEF AddManualAllocation, RowsOK
  <2>4. x.source_type = "MANUAL" /\ x.amount \in Int
    BY <1>4, ClerkAt, NumberTypes DEF TypeInv, AddManualAllocation
  <2>. HIDE DEF x
  <2>5. /\ Allocations' = Allocations \union {i} /\ allocation'[i] = x /\ i \notin Allocations
        /\ \A a \in Allocations : allocation'[a] = allocation[a]
    BY <1>0, <2>3, AllocationsFinite DEF Allocations
  <2>. HIDE DEF i
  <2>6. \A o : /\ AutoOf(o)' = AutoOf(o) /\ Allocated(Counted(o))' \in Int
               /\ Allocated(Counted(o))' <= Allocated(Counted(o))
    <3>1. i \in Allocations' /\ (i \in Allocations => allocation[i].status # "MATCHED")
      BY <2>5
    <3>. QED
      BY <1>0, <2>4, <2>5, <3>1, AutoByHand
  <2>. QED
    BY <2>3, <2>6, AutoSame DEF Obligations
<1>5. ASSUME NEW c \in Clerks, Begins(c) PROVE UNCHANGED <<allocation, obligation>>
  BY <1>5, BeginHolds, BegunBy
<1>. QED
  BY <1>1, <1>2, <1>3, <1>4, <1>5
  DEF Next, vars, AddTenant, AddLease, UpdateOccupancyStatus, ConfigStep, SelectConfig,
      MissConfig, InsertConfig, LoseConfig, UpdateReconciliationConfig, GetReconciliationConfig,
      ReadOpenObligations, DecideMatch, UpdateLeaseStatus, Begins, rows

LEMMA PaymentsStay == TypeInv /\ [Next]_vars => Payments \subseteq Payments'
<1>. SUFFICES ASSUME TypeInv, [Next]_vars PROVE Payments \subseteq Payments'
  OBVIOUS
<1>1. ASSUME NEW c \in Clerks, CommitPayment(c) PROVE Payments \subseteq Payments'
  BY <1>1, Committed, ClerkAt DEF TypeInv, CommitPayment
<1>2. ASSUME NEW c \in Clerks, Begins(c) PROVE UNCHANGED payment
  BY <1>2, BeginHolds, BegunBy
<1>3. \/ UNCHANGED payment
      \/ \E c \in Clerks : CommitPayment(c)
  BY <1>2
  DEF Next, vars, AddTenant, AddLease, UpdateOccupancyStatus, AddRentObligation,
      ImportRentObligationRow, ConfigStep, SelectConfig, MissConfig, InsertConfig, LoseConfig,
      UpdateReconciliationConfig, GetReconciliationConfig, ReadOpenObligations, DecideMatch,
      UpdateLeaseStatus, ResolvePaymentAllocation, AddManualAllocation, Begins, rows
<1>. QED
  BY <1>1, <1>3 DEF Payments

LEMMA AutoNext ==
  TypeInv /\ TypeInv' /\ MoneyInv /\ AutoInv /\ [Next]_vars => AutoInv'
<1>. SUFFICES ASSUME TypeInv, TypeInv', MoneyInv, AutoInv, [Next]_vars,
                     Calm'
              PROVE  LockHeld' /\ AutoDue' /\ \A d \in Clerks : AutoHeld(d)'
  BY DEF AutoInv
<1>0. Calm
  <2>1. raced \subseteq raced'
    BY ToCommit
  <2>2. Payments \subseteq Payments'
    BY PaymentsStay
  <2>. QED
    BY <2>1, <2>2 DEF Calm
<1>1. LockHeld /\ AutoDue /\ \A d \in Clerks : AutoHeld(d)
  BY <1>0 DEF AutoInv
<1>2. LockHeld'
  BY <1>1, LockNext DEF Calm
<1>3. ASSUME NEW c \in Clerks, CommitPayment(c)
      PROVE  AutoDue' /\ \A d \in Clerks : AutoHeld(d)'
  BY <1>1, <1>3, AutoCommit
<1>4. CASE ~\E c \in Clerks : CommitPayment(c)
  <2>1. AutoDue' /\ \A d \in Clerks : req'[d] = req[d] => AutoHeld(d)'
    BY <1>0, <1>1, <1>4, AutoStays
  <2>2. ASSUME NEW d \in Clerks, req'[d].pc # "commit" PROVE AutoHeld(d)'
    BY <2>2 DEF AutoHeld
  <2>3. ASSUME NEW d \in Clerks, DecideMatch(d) PROVE AutoHeld(d)'
    BY <2>3, AutoDecide
  <2>4. \A d \in Clerks : req'[d] = req[d] \/ req'[d].pc # "commit" \/ DecideMatch(d)
    BY ToCommit
  <2>5. \A d \in Clerks : AutoHeld(d)'
    BY <2>1, <2>2, <2>3, <2>4
  <2>. QED
    BY <1>2, <2>1, <2>5
<1>. QED
  BY <1>2, <1>3, <1>4

LEMMA AutoInit == Init => AutoInv
<1>. SUFFICES ASSUME Init PROVE AutoInv
  OBVIOUS
<1>1. Obligations = {} /\ \A c \in Clerks : req[c] = Idle
  BY DEF Init, Obligations
<1>. QED
  BY <1>1 DEF AutoInv, LockHeld, AutoDue, AutoHeld, Idle

\* The reconciler never settles an obligation twice: what it matched by itself is at
\* most the amount due and what clerks took back by negative allocations, whatever the
\* signs of the amounts, in every behaviour in which no request lost the race to create
\* the config row and no two manual requests held one payment at once
\* (commercial/reconciliation.py, match_payment, under the FOR UPDATE of
\* get_or_create_reconciliation_config).
THEOREM ReconcilerStaysWithinDue == Spec => []AutoMatchWithinDue
<1>1. TypeInv /\ CountInv /\ KeyInv /\ MoneyInv /\ AutoInv /\ [Next]_vars => AutoInv'
  BY TypeNext, AutoNext
<1>2. TypeInv /\ AutoInv => AutoMatchWithinDue
  <2>1. SUFFICES ASSUME TypeInv, AutoInv, Calm, NEW o \in Obligations,
                        NEW matched, NEW auto, NEW back,
                        matched = {a \in Allocations : /\ allocation[a].obligation_id = o
                                                       /\ allocation[a].status = "MATCHED"},
                        auto = {a \in matched : allocation[a].source_type = "SYSTEM_GENERATED"},
                        back = {a \in matched \ auto : allocation[a].amount < 0}
                 PROVE  auto = {} \/ Allocated(auto \union back) <= obligation[o].amount_due
    BY DEF AutoMatchWithinDue, Calm
  <2>2. auto = AutoOf(o) /\ auto \union back = Counted(o)
    BY <2>1 DEF AutoOf, Counted
  <2>. QED
    BY <2>1, <2>2 DEF AutoInv, AutoDue
<1>3. Spec => [](TypeInv /\ AutoInv)
  BY <1>1, AutoInit, MoneyAlways, PTL DEF Spec
<1>. QED
  BY <1>2, <1>3, PTL
=============================================================================
