----------------------------- MODULE Commercial -----------------------------
(***************************************************************************)
(* Leases, rent obligations, payments and their reconciliation in ONE      *)
(* organisation, over Postgres at READ COMMITTED.                          *)
(*                                                                         *)
(* A clerk is one HTTP request (or one row of a CSV import) in flight.  A  *)
(* request that checks a row and then writes it takes two steps: it loads  *)
(* what the handler reads, and later commits what the handler decided from *)
(* the values it loaded.  A payment takes the steps of match_payment: the  *)
(* reconciliation config row (locked FOR UPDATE when it exists), the open  *)
(* obligations, the matching rules, the commit.                            *)
(*                                                                         *)
(* Rows are sequences in commit order and a row's id is its position.      *)
(* Names, contact details, currencies and methods are left out; a lease's  *)
(* reference is its id (module ReferenceEngine shows it is unique).        *)
(***************************************************************************)
EXTENDS Integers, Sequences, FiniteSets, FiniteSetsExt, Functions

CONSTANTS
    Clerks,          \* requests and import rows that can be in flight at once
    NoClerk,
    Properties,      \* properties the organisation has
    Amounts,         \* amounts of money a payload may carry: any int, a refund is negative
    Days,            \* dates
    References, NoRef,
    Windows,         \* due_date_window_days a PATCH may set
    DefaultWindow,
    ObligationPayloads, PaymentPayloads,   \* the bodies POSTed; rows of a file alike
    MaxLeases, MaxObligations,   \* bounds
    MaxBegun         \* bound: requests begun in a behaviour

ASSUME NumbersAssumption ==
    /\ Amounts \subseteq Int
    /\ Days \subseteq Int
    /\ Windows \subseteq Int /\ DefaultWindow \in Windows
    /\ {MaxLeases, MaxObligations, MaxBegun} \subseteq Nat
ASSUME PayloadsAssumption ==
    /\ ObligationPayloads \subseteq [lease_id : 1..MaxLeases, due_date : Days,
          amount_due : Amounts, invoice_reference : References \union {NoRef}]
    /\ PaymentPayloads \subseteq [lease_id : 0..MaxLeases, amount : Amounts,
          received_date : Days, payer_reference : References \union {NoRef}]
ASSUME NullAssumption == NoClerk \notin Clerks /\ NoRef \notin References

VARIABLES
    tenants,      \* how many tenants there are
    lease,        \* leases
    obligation,   \* rent_obligations
    payment,      \* payment_transactions
    allocation,   \* payment_allocations
    config,       \* the organisation's payment_reconciliation_configs row
    trail,        \* audit_events of each lease's status
    req,          \* what each clerk is doing
    begun,        \* requests begun so far; also the clock audit rows are stamped with
    raced         \* observer: rows two read-check-write requests held at once

rows == <<tenants, lease, obligation, payment, allocation, trail>>
vars == <<tenants, lease, obligation, payment, allocation, config, trail, req, begun, raced>>

-----------------------------------------------------------------------------
(* Rows *)

None == 0    \* a nullable foreign key that is null

LeaseStatuses     == {"DRAFT", "ACTIVE", "EXPIRED", "TERMINATED", "RENEWED"}
OccupancyStatuses == {"OCCUPIED", "VACANT", "NOTICE_GIVEN"}
Lease == [property : Properties, lease_status : LeaseStatuses,
          occupancy_status : OccupancyStatuses]

RentObligation == [lease_id : 1..MaxLeases, due_date : Days, amount_due : Amounts,
                   invoice_reference : References \union {NoRef}]

PaymentTransaction == [lease_id : 0..MaxLeases, amount : Amounts, received_date : Days,
                       payer_reference : References \union {NoRef}]

AllocationStatuses == {"MATCHED", "POSSIBLE_MATCH", "UNALLOCATED", "NEEDS_REVIEW"}
PaymentAllocation == [payment_id : 1..MaxBegun, obligation_id : 0..MaxObligations,
                      amount : Int, status : AllocationStatuses,
                      source_type : {"SYSTEM_GENERATED", "MANUAL"}]

\* absent, inserted by an open transaction, or committed; and who holds its lock
PaymentReconciliationConfig == [state : {"absent", "pending", "present"},
                                window : Windows, lock : Clerks \union {NoClerk}]

LEASE_TRANSITIONS ==
    [DRAFT |-> {"ACTIVE", "TERMINATED"}, ACTIVE |-> {"EXPIRED", "TERMINATED", "RENEWED"},
     EXPIRED |-> {}, TERMINATED |-> {}, RENEWED |-> {}]

record_audit_event(at, before, after) == [at |-> at, before |-> before, after |-> after]

Leases      == DOMAIN lease
Obligations == DOMAIN obligation
Payments    == DOMAIN payment
Allocations == DOMAIN allocation

\* What the payments, and the allocations, of a set amount to.
Received(S)  == SumFunctionOnSet([p \in Payments |-> payment[p].amount], S)
Allocated(S) == SumFunctionOnSet([a \in Allocations |-> allocation[a].amount], S)

-----------------------------------------------------------------------------
(* What is settled: always computed from the MATCHED allocations *)

matched_amount_for_obligation(o) ==
    Allocated({a \in Allocations : /\ allocation[a].obligation_id = o
                                   /\ allocation[a].status = "MATCHED"})

outstanding_for_obligation(o) == obligation[o].amount_due - matched_amount_for_obligation(o)

matched_amounts_for_obligations(S) == [o \in S |-> matched_amount_for_obligation(o)]

open_obligations(l) ==
    {o \in Obligations : obligation[o].lease_id = l /\ outstanding_for_obligation(o) > 0}

(* Arrears *)

AGE_BUCKETS == {"CURRENT", "1-30", "31-60", "61-90", "90+"}

\* A day of the model stands for a month: the bucket edges are one day apart.
bucket_for(days) == CASE days <= 0 -> "CURRENT" [] days = 1 -> "1-30" [] days = 2 -> "31-60"
                      [] days = 3 -> "61-90"    [] days > 3 -> "90+"

\* The snapshot.  Unallocated money is the whole of each payment no MATCHED
\* allocation took from, so the rest of a payment matched in part is in no figure.
arrears_for_lease(l, asOf) ==
    LET mine    == {o \in Obligations : obligation[o].lease_id = l}
        matched == matched_amounts_for_obligations(mine)
        left    == [o \in mine |-> obligation[o].amount_due - matched[o]]
        owing   == {o \in mine : left[o] > 0}
        placed  == {allocation[a].payment_id :
                       a \in {b \in Allocations : allocation[b].status = "MATCHED"}}
    IN  [total_due   |-> SumFunctionOnSet([o \in mine |-> obligation[o].amount_due], mine),
         outstanding |-> SumFunctionOnSet(left, owing),
         ageing      |-> [b \in AGE_BUCKETS |->
                            SumFunctionOnSet(left,
                               {o \in owing : bucket_for(asOf - obligation[o].due_date) = b})],
         credits     |-> -SumFunctionOnSet(left, {o \in mine : left[o] < 0}),
         unallocated |-> Received({p \in Payments : payment[p].lease_id = l /\ p \notin placed})]

collection_rate(first, last) ==
    LET inPeriod == {o \in Obligations : obligation[o].due_date \in first..last} IN
    [due       |-> SumFunctionOnSet([o \in inPeriod |-> obligation[o].amount_due], inPeriod),
     collected |-> SumFunctionOnSet(matched_amounts_for_obligations(inPeriod), inPeriod)]

-----------------------------------------------------------------------------
(* Requests.  pc is where the handler stands; r is its payload and what it *)
(* has loaded.                                                             *)

Idle == [pc |-> "idle"]

InFlight(c) == req[c].pc # "idle"

CanBegin(c) == ~InFlight(c) /\ begun < MaxBegun

Holding(key) == \E c \in Clerks : InFlight(c) /\ req[c].key = key

\* A request that will check and then write the row `key` starts: it races with
\* the requests that already hold what they loaded of that row.
Hold(c, r) ==
    /\ req'   = [req EXCEPT ![c] = r]
    /\ begun' = begun + 1
    /\ raced' = IF r.key # <<>> /\ Holding(r.key) THEN raced \union {r.key} ELSE raced
    /\ UNCHANGED <<rows, config>>

End(c) == req' = [req EXCEPT ![c] = Idle]

(* Tenants, leases, obligations: inserts, whose only checks are 404s on    *)
(* rows that are never deleted.                                            *)

AddTenant ==
    /\ tenants < MaxLeases
    /\ tenants' = tenants + 1
    /\ UNCHANGED <<lease, obligation, payment, allocation, config, trail, req, begun, raced>>

\* Mutant: the new lease is given a status that is none of the enum's.
create_pending_lease(p) ==
    [property |-> p, lease_status |-> "PENDING", occupancy_status |-> "OCCUPIED"]

create_lease(p) == [property |-> p, lease_status |-> "DRAFT", occupancy_status |-> "OCCUPIED"]

AddLease ==
    /\ tenants > 0 /\ Len(lease) < MaxLeases
    /\ \E p \in Properties : lease' = Append(lease, create_lease(p))
    /\ trail' = Append(trail, {})
    /\ UNCHANGED <<tenants, obligation, payment, allocation, config, req, begun, raced>>

create_rent_obligation(o) == IF o.lease_id \in Leases THEN <<o>> ELSE <<>>

\* The endpoint answers 404 for an unknown lease.
AddRentObligation ==
    /\ Len(obligation) < MaxObligations
    /\ \E o \in ObligationPayloads : obligation' = obligation \o create_rent_obligation(o)
    /\ UNCHANGED <<tenants, lease, payment, allocation, config, trail, req, begun, raced>>

\* An imported row names its lease by reference, and is refused with any field missing.
import_rent_obligation_row(o, parses) == IF parses THEN create_rent_obligation(o) ELSE <<>>

ImportRentObligationRow ==
    /\ Len(obligation) < MaxObligations
    /\ \E o \in ObligationPayloads, parses \in BOOLEAN :
          obligation' = obligation \o import_rent_obligation_row(o, parses)
    /\ UNCHANGED <<tenants, lease, payment, allocation, config, trail, req, begun, raced>>

(* Lease status and occupancy *)

\* Mutant: the transition graph is not consulted.
update_any_lease_status(from, to) == to

\* The status the handler writes, or the present one when it answers 400.
update_lease_status(from, to) == IF to \in LEASE_TRANSITIONS[from] THEN to ELSE from

BeginLeaseStatus(c) ==
    /\ CanBegin(c)
    /\ \E l \in Leases, to \in LeaseStatuses :
          Hold(c, [pc |-> "lease", key |-> <<"lease", l>>, id |-> l, to |-> to, at |-> begun,
                   seen |-> lease[l].lease_status])

UpdateLeaseStatus(c) ==
    LET r == req[c] new == update_lease_status(r.seen, r.to) IN
    /\ r.pc = "lease"
    /\ IF new = r.seen THEN UNCHANGED <<lease, trail>>
       ELSE /\ lease' = [lease EXCEPT ![r.id].lease_status = new]
            /\ trail' = [trail EXCEPT ![r.id] =
                            @ \union {record_audit_event(r.at, r.seen, new)}]
    /\ End(c)
    /\ UNCHANGED <<tenants, obligation, payment, allocation, config, begun, raced>>

UpdateOccupancyStatus ==
    /\ begun < MaxBegun /\ begun' = begun + 1
    /\ \E l \in Leases, to \in OccupancyStatuses :
          lease' = [lease EXCEPT ![l].occupancy_status = to]
    /\ UNCHANGED <<tenants, obligation, payment, allocation, config, trail, req, raced>>

-----------------------------------------------------------------------------
(* get_or_create_reconciliation_config, from a request at pc = "config":   *)
(* SELECT ... FOR UPDATE; with no row to lock, INSERT in a savepoint; when *)
(* another transaction's INSERT commits first, read the row WITHOUT a lock *)

Goto(c, pc) == req' = [req EXCEPT ![c].pc = pc]

\* The handler goes on with the row it found, whose window it reads once.
GoOn(c, w) == req' = [req EXCEPT ![c] = [@ EXCEPT !.pc = req[c].next, !.window = w]]

\* Mutant: the row is read without FOR UPDATE.
SelectConfigUnlocked(c) ==
    /\ req[c].pc = "config" /\ config.state = "present"
    /\ GoOn(c, config.window)
    /\ UNCHANGED <<rows, config, begun, raced>>

SelectConfig(c) ==
    /\ req[c].pc = "config" /\ config.state = "present" /\ config.lock = NoClerk
    /\ config' = [config EXCEPT !.lock = c]
    /\ GoOn(c, config.window)
    /\ UNCHANGED <<rows, begun, raced>>

\* A row another transaction has inserted and not committed is not found.
MissConfig(c) ==
    /\ req[c].pc = "config" /\ config.state # "present"
    /\ Goto(c, "insert")
    /\ UNCHANGED <<rows, config, begun, raced>>

\* The unique constraint makes the INSERT wait while another one is uncommitted.
InsertConfig(c) ==
    /\ req[c].pc = "insert" /\ config.state = "absent"
    /\ config' = [state |-> "pending", window |-> DefaultWindow, lock |-> c]
    /\ GoOn(c, DefaultWindow)
    /\ UNCHANGED <<rows, begun, raced>>

\* IntegrityError: the loser goes on with a row it has not locked.
LoseConfig(c) ==
    /\ req[c].pc = "insert" /\ config.state = "present"
    /\ GoOn(c, config.window)
    /\ raced' = raced \union {<<"config">>}
    /\ UNCHANGED <<rows, config, begun>>

\* The config row, once c has committed.
Released(c) ==
    IF config.lock = c THEN [config EXCEPT !.state = "present", !.lock = NoClerk] ELSE config

BeginConfig(c) ==
    /\ CanBegin(c)
    /\ \E w \in Windows :
          Hold(c, [pc |-> "config", key |-> <<>>, next |-> "setconfig", window |-> w, value |-> w])

\* An UPDATE waits while another transaction holds the row's lock.
UpdateReconciliationConfig(c) ==
    /\ req[c].pc = "setconfig" /\ config.lock \in {c, NoClerk}
    /\ config' = [state |-> "present", window |-> req[c].value, lock |-> NoClerk]
    /\ End(c)
    /\ UNCHANGED <<rows, begun, raced>>

\* The GET creates the row too, and commits.
GetReconciliationConfig(c) ==
    /\ req[c].pc = "setconfig"
    /\ config' = Released(c)
    /\ End(c)
    /\ UNCHANGED <<rows, begun, raced>>

-----------------------------------------------------------------------------
(* Payments *)

record_allocation(o, amount, status) ==
    [payment_id |-> None, obligation_id |-> o, amount |-> amount, status |-> status,
     source_type |-> "SYSTEM_GENERATED"]

Only(S) == CHOOSE x \in S : TRUE

Within(o, pay, window) ==
    LET d == obligation[o].due_date - pay.received_date IN d \in -window..window

\* The rules in order: the first that finds a candidate decides, and finding more
\* than one leaves the payment for review.  `candidates` were open when they were
\* read; what is outstanding is read again.
match_payment(pay, candidates, window) ==
    LET Left(o) == outstanding_for_obligation(o)
        found == << {o \in candidates : /\ pay.payer_reference # NoRef
                                        /\ obligation[o].invoice_reference = pay.payer_reference},
                    {o \in candidates : Left(o) = pay.amount /\ Within(o, pay, window)},
                    {o \in candidates : pay.amount < Left(o) /\ Within(o, pay, window)} >>
        hits  == {i \in 1..3 : found[i] # {}}
        rule  == Min(hits)
        o     == Only(found[rule])
    IN  IF hits = {} THEN record_allocation(None, 0, "UNALLOCATED")
        ELSE IF Cardinality(found[rule]) > 1 THEN record_allocation(None, 0, "NEEDS_REVIEW")
        ELSE record_allocation(o, IF rule = 1 THEN Min({pay.amount, Left(o)}) ELSE pay.amount,
                               IF rule = 3 THEN "POSSIBLE_MATCH" ELSE "MATCHED")

BeginPayment(c, pay) ==
    /\ CanBegin(c)
    /\ Hold(c, [pc |-> "config", key |-> <<>>, next |-> "open", window |-> DefaultWindow,
                pay |-> pay, candidates |-> {}, result |-> record_allocation(None, 0, "UNALLOCATED")])

\* A lease_id that is given must exist.
AddPayment(c) ==
    \E pay \in PaymentPayloads : pay.lease_id \in Leases \union {None} /\ BeginPayment(c, pay)

\* An imported row may name a lease nobody has: its payment then has no lease.
import_payment_row(c) ==
    \E pay \in PaymentPayloads :
       BeginPayment(c, [pay EXCEPT !.lease_id = IF @ \in Leases THEN @ ELSE None])

ReadOpenObligations(c) ==
    /\ req[c].pc = "open"
    /\ req' = [req EXCEPT ![c] = [@ EXCEPT !.pc = "decide",
                  !.candidates = IF req[c].pay.lease_id = None THEN {}
                                 ELSE open_obligations(req[c].pay.lease_id)]]
    /\ UNCHANGED <<rows, config, begun, raced>>

DecideMatch(c) ==
    /\ req[c].pc = "decide"
    /\ req' = [req EXCEPT ![c] = [@ EXCEPT !.pc = "commit",
                  !.result = match_payment(req[c].pay, req[c].candidates, req[c].window)]]
    /\ UNCHANGED <<rows, config, begun, raced>>

CommitPayment(c) ==
    LET r == req[c] IN
    /\ r.pc = "commit"
    /\ payment' = Append(payment, r.pay)
    /\ allocation' = Append(allocation, [r.result EXCEPT !.payment_id = Len(payment) + 1])
    /\ config' = Released(c)
    /\ End(c)
    /\ UNCHANGED <<tenants, lease, obligation, trail, begun, raced>>

(* Resolving and adding allocations by hand: the total allocated is read,  *)
(* checked, and written without a lock.                                    *)

AllocatedOf(p) == {a \in Allocations : allocation[a].payment_id = p}

\* Mutant: the total already allocated is not looked at.
LoadResolveUnchecked(a, amount) == allocation[a].status # "MATCHED"

\* Mutant: an allocation that is MATCHED already is resolved again.
LoadResolveAgain(a, amount) ==
    LET p == allocation[a].payment_id IN
    Allocated(AllocatedOf(p) \ {a}) + amount <= payment[p].amount

\* What resolve_payment_allocation checks before it writes.
LoadResolve(a, amount) ==
    LET p == allocation[a].payment_id IN
    /\ allocation[a].status # "MATCHED"
    /\ Allocated(AllocatedOf(p) \ {a}) + amount <= payment[p].amount

BeginResolve(c) ==
    /\ CanBegin(c)
    /\ \E a \in Allocations, o \in Obligations, amount \in Amounts :
          /\ LoadResolve(a, amount)
          /\ Hold(c, [pc |-> "resolve", key |-> <<"payment", allocation[a].payment_id>>,
                      id |-> a, obligation |-> o, amount |-> amount])

ResolvePaymentAllocation(c) ==
    LET r == req[c] IN
    /\ r.pc = "resolve"
    /\ allocation' = [allocation EXCEPT ![r.id] =
                        [payment_id |-> @.payment_id, obligation_id |-> r.obligation,
                         amount |-> r.amount, status |-> "MATCHED", source_type |-> "MANUAL"]]
    /\ End(c)
    /\ UNCHANGED <<tenants, lease, obligation, payment, config, trail, begun, raced>>

LoadManual(p, amount) == Allocated(AllocatedOf(p)) + amount <= payment[p].amount

BeginManualAllocation(c) ==
    /\ CanBegin(c)
    /\ \E p \in Payments, o \in Obligations, amount \in Amounts :
          /\ LoadManual(p, amount)
          /\ Hold(c, [pc |-> "manual", key |-> <<"payment", p>>, id |-> p,
                      obligation |-> o, amount |-> amount])

AddManualAllocation(c) ==
    LET r == req[c] IN
    /\ r.pc = "manual"
    /\ allocation' = Append(allocation,
                        [payment_id |-> r.id, obligation_id |-> r.obligation,
                         amount |-> r.amount, status |-> "MATCHED", source_type |-> "MANUAL"])
    /\ End(c)
    /\ UNCHANGED <<tenants, lease, obligation, payment, config, trail, begun, raced>>

-----------------------------------------------------------------------------
Init ==
    /\ tenants = 0 /\ lease = <<>> /\ obligation = <<>> /\ payment = <<>> /\ allocation = <<>>
    /\ config = [state |-> "absent", window |-> DefaultWindow, lock |-> NoClerk]
    /\ trail = <<>> /\ req = [c \in Clerks |-> Idle] /\ begun = 0 /\ raced = {}

ConfigStep(c) == SelectConfig(c) \/ MissConfig(c) \/ InsertConfig(c) \/ LoseConfig(c)

Next ==
    \/ AddTenant \/ AddLease \/ UpdateOccupancyStatus
    \/ AddRentObligation \/ ImportRentObligationRow
    \/ \E c \in Clerks :
          \/ BeginLeaseStatus(c) \/ UpdateLeaseStatus(c)
          \/ ConfigStep(c)
          \/ BeginConfig(c) \/ UpdateReconciliationConfig(c) \/ GetReconciliationConfig(c)
          \/ AddPayment(c) \/ import_payment_row(c)
          \/ ReadOpenObligations(c) \/ DecideMatch(c) \/ CommitPayment(c)
          \/ BeginResolve(c) \/ ResolvePaymentAllocation(c)
          \/ BeginManualAllocation(c) \/ AddManualAllocation(c)

Spec == Init /\ [][Next]_vars

-----------------------------------------------------------------------------
(* Properties *)

\* Every table holds rows of its columns' types.
TypeOK ==
    /\ tenants \in Nat
    /\ lease \in Seq(Lease) /\ obligation \in Seq(RentObligation)
    /\ payment \in Seq(PaymentTransaction) /\ allocation \in Seq(PaymentAllocation)
    /\ config \in PaymentReconciliationConfig
    /\ DOMAIN trail = Leases /\ begun \in 0..MaxBegun

\* No penny of a lease's payments is reported twice: what arrears_for_lease calls
\* unallocated, and what the allocations of the other payments of the lease come to,
\* together never exceed what was received -- unless two manual requests on one
\* payment overlapped.  Amounts may be negative, so every allocation of such a
\* payment counts, the tentative ones too: the requests check that total.
MoneyCountedOnce ==
    \A l \in Leases :
       LET paid   == {p \in Payments : payment[p].lease_id = l}
           placed == {p \in paid : \E a \in AllocatedOf(p) : allocation[a].status = "MATCHED"}
           used   == {a \in Allocations : allocation[a].payment_id \in placed}
       IN  (\A p \in paid : <<"payment", p>> \notin raced) =>
              arrears_for_lease(l, 0).unallocated + Allocated(used)
                 <= Received(paid)

\* The reconciler never settles an obligation twice: what it matched by itself is at
\* most the amount due and what clerks took back from the obligation by negative
\* allocations -- unless a request lost the race to create the config row, or two
\* manual requests on one payment overlapped and overwrote such an allocation.
AutoMatchWithinDue ==
    <<"config">> \notin raced /\ (\A p \in Payments : <<"payment", p>> \notin raced) =>
       \A o \in Obligations :
          LET matched == {a \in Allocations : /\ allocation[a].obligation_id = o
                                              /\ allocation[a].status = "MATCHED"}
              auto    == {a \in matched : allocation[a].source_type = "SYSTEM_GENERATED"}
              back    == {a \in matched \ auto : allocation[a].amount < 0}
          IN  auto = {} \/ Allocated(auto \union back) <= obligation[o].amount_due

\* The audit trail of a lease, read in the order of its timestamps, is a walk of
\* LEASE_TRANSITIONS from DRAFT to the lease's status -- unless two status requests
\* on the lease overlapped.
LeaseTrailIsItsHistory ==
    \A l \in Leases : <<"lease", l>> \notin raced =>
       LET t == trail[l] IN
       /\ \A e \in t : /\ e.after \in LEASE_TRANSITIONS[e.before]
                       /\ \/ e.before = "DRAFT" /\ \A f \in t : f.at >= e.at
                          \/ \E f \in t : /\ f.at < e.at /\ f.after = e.before
                                          /\ \A g \in t : g.at \notin f.at + 1..e.at - 1
       /\ lease[l].lease_status =
             IF t = {} THEN "DRAFT" ELSE (CHOOSE e \in t : \A f \in t : f.at <= e.at).after

\* A confirmed match is final: no step changes a MATCHED allocation, unless two manual
\* requests on its payment overlapped.
MatchedIsFinal ==
    [][\A a \in Allocations :
          /\ allocation[a].status = "MATCHED"
          /\ <<"payment", allocation[a].payment_id>> \notin raced
          => allocation'[a] = allocation[a]]_vars
=============================================================================
