------------------------------ MODULE LazyRows ------------------------------
(***************************************************************************)
(* The configuration rows of one organisation that are made when first     *)
(* read.  The get_or_create_* functions share one shape: SELECT ... FOR    *)
(* UPDATE; if there is no row, INSERT within a savepoint; if another       *)
(* transaction has inserted it meanwhile, catch the IntegrityError and     *)
(* select again - with the lock only in the attention engine's own         *)
(* (Relocked).  The locks last until the request commits or rolls back,    *)
(* reads included, so a request that reads several rows takes several      *)
(* locks, in the order of its code: its plan.  An INSERT waits for another *)
(* transaction's uncommitted one, a locking SELECT of a committed row for  *)
(* the transaction that holds it, a SELECT that sees no row for nobody.    *)
(***************************************************************************)
EXTENDS Naturals, Sequences

CONSTANTS
    Callers,                 \* requests, and worker jobs, that may be in flight at once
    Codes,                   \* the codes of the rows
    RULE_REGISTRY,           \* the codes of the attention rules, in order
    DEFAULT_FACTOR_WEIGHTS,  \* of the planned investment weights
    DEFAULT_CHECK_WEIGHTS,   \* of the handover readiness weights
    RepairRules,             \* of the repair rule configs: RULE_DEFAULTS of repeat_repair.py
    Calls,                   \* what is called: [asks |-> BOOLEAN, plan |-> the codes it reads, in order]
    MaxCalls                 \* bound: requests begun in a behaviour

ASSUME CallsAssumption ==
    /\ MaxCalls \in Nat
    /\ \A r \in Calls : r = [asks |-> r.asks, plan |-> r.plan] /\ r.asks \in BOOLEAN /\ r.plan \in Seq(Codes)

-----------------------------------------------------------------------------
\* The plans.  A row read for each of several entities is read twice here.

Each(plan) == {<<>>, plan, plan \o plan}
Joined(S, T) == {s \o t : s \in S, t \in T}

Status  == <<"COMPLIANCE_STATUS">>     \* compliance_status_configs has one row
Repeats == <<RepairRules[1]>>          \* repeat_repairs_for_property
Failures == <<RepairRules[2]>>         \* repeat_failures_for_component

list_rules == RULE_REGISTRY
\* Mutant: the rules are listed in the order of their codes.
repair_configs_by_code == <<RepairRules[3], RepairRules[2], RepairRules[1]>>
list_repair_rule_configs == RepairRules
get_repairs_intelligence == Repeats \o Failures
list_planned_investment_weights == DEFAULT_FACTOR_WEIGHTS
compute_investment_priority ==
    DEFAULT_FACTOR_WEIGHTS \o <<"PLANNED_INVESTMENT">> \o Failures
list_planned_investment == Each(compute_investment_priority)
get_check_weights == DEFAULT_CHECK_WEIGHTS
get_portfolio_summary == Each(get_check_weights)
list_compliance_statuses_for_entity == Each(Status)
run_attention_scan ==
    Joined({list_rules}, Joined(Each(Repeats), Joined(Each(Failures), Each(Status))))

\* Ask runs the tools its keywords match in the order of TOOL_REGISTRY.
TOOL_REGISTRY ==
    [property    |-> Joined(list_compliance_statuses_for_entity, {<<>>, Repeats}),
     component   |-> Joined(list_compliance_statuses_for_entity,
                            Joined({<<>>, Failures}, {<<>>, compute_investment_priority})),
     development |-> {<<>>, get_check_weights}]

ask_datalume == UNION {TOOL_REGISTRY[e] : e \in DOMAIN TOOL_REGISTRY}

-----------------------------------------------------------------------------
VARIABLES
    row,           \* codes whose row is committed
    tx,            \* the transaction of each caller
    calls          \* requests begun so far

lazyVars == <<row, tx, calls>>

\* next: the position in the plan; held: rows locked or inserted; created: rows inserted;
\* missed: its SELECT found no row; lost: observer, an INSERT of its lost and the second
\* SELECT took no lock.
Tx(r, next, held, created, missed, lost) ==
    [asks |-> r.asks, plan |-> r.plan, next |-> next, held |-> held, created |-> created,
     missed |-> missed, lost |-> lost]
NoTx == Tx([asks |-> FALSE, plan |-> <<>>], 1, {}, {}, FALSE, FALSE)

LazyInit == row = {} /\ tx = [c \in Callers |-> NoTx] /\ calls = 0

Reading(c) == tx[c].next <= Len(tx[c].plan)
Wanted(c)  == tx[c].plan[tx[c].next]
Others(c, k) == {d \in Callers \ {c} : k \in tx[d].held}

BeginCall(c) ==
    /\ tx[c] = NoTx /\ calls < MaxCalls
    /\ \E r \in Calls : tx' = [tx EXCEPT ![c] = Tx(r, 1, {}, {}, FALSE, FALSE)]
    /\ calls' = calls + 1
    /\ UNCHANGED row

SelectForUpdate(c) ==
    /\ Reading(c) /\ ~tx[c].missed
    /\ Wanted(c) \in row \union tx[c].created
    /\ Others(c, Wanted(c)) = {}
    /\ tx' = [tx EXCEPT ![c] =
                Tx(@, @.next + 1, @.held \union {Wanted(c)}, @.created, FALSE, @.lost)]
    /\ UNCHANGED <<row, calls>>

SelectNothing(c) ==
    /\ Reading(c) /\ ~tx[c].missed
    /\ Wanted(c) \notin row \union tx[c].created
    /\ tx' = [tx EXCEPT ![c] = Tx(@, @.next, @.held, @.created, TRUE, @.lost)]
    /\ UNCHANGED <<row, calls>>

InsertRow(c) ==
    /\ Reading(c) /\ tx[c].missed
    /\ Wanted(c) \notin row
    /\ Others(c, Wanted(c)) = {}
    /\ tx' = [tx EXCEPT ![c] =
                Tx(@, @.next + 1, @.held \union {Wanted(c)}, @.created \union {Wanted(c)}, FALSE, @.lost)]
    /\ UNCHANGED <<row, calls>>

Relocked == {RULE_REGISTRY[i] : i \in 1..Len(RULE_REGISTRY)}

\* IntegrityError: the row is there.  Only the attention engine selects it again FOR UPDATE.
LoseInsert(c) ==
    /\ Reading(c) /\ tx[c].missed
    /\ Wanted(c) \in row
    /\ tx' = [tx EXCEPT ![c] =
                IF Wanted(c) \in Relocked THEN Tx(@, @.next, @.held, @.created, FALSE, @.lost)
                ELSE Tx(@, @.next + 1, @.held, @.created, FALSE, TRUE)]
    /\ UNCHANGED <<row, calls>>

CommitCall(c) ==
    /\ tx[c] # NoTx /\ ~Reading(c)
    /\ row' = row \union tx[c].created
    /\ tx' = [tx EXCEPT ![c] = NoTx]
    /\ UNCHANGED calls

\* A read that never commits, a request that fails, or the one Postgres picks from a circle.
RollBackCall(c) ==
    /\ tx[c] # NoTx
    /\ tx' = [tx EXCEPT ![c] = NoTx]
    /\ UNCHANGED <<row, calls>>

LazyStep(c) ==
    \/ BeginCall(c) \/ SelectForUpdate(c) \/ SelectNothing(c) \/ InsertRow(c) \/ LoseInsert(c)
    \/ CommitCall(c) \/ RollBackCall(c)

LazyNext == \E c \in Callers : LazyStep(c)

LazySpec == LazyInit /\ [][LazyNext]_lazyVars

-----------------------------------------------------------------------------
\* c can go no further before d ends: it selects a committed row or inserts a missing one.
Waits(c, d) ==
    /\ c # d /\ Reading(c)
    /\ Wanted(c) \in tx[d].held
    /\ tx[c].missed # (Wanted(c) \in row)

Circle(S) == S # {} /\ \A c \in S : \E d \in S : Waits(c, d)

\* A circle of requests that wait for one another, which Postgres breaks by failing one,
\* goes through a question to Ask, whose tools read the rows in an order of their own, or
\* through a request that lost an INSERT and so does not hold a row it reads again.
CirclesExplained ==
    \A S \in SUBSET Callers : Circle(S) => \E c \in S : tx[c].asks \/ tx[c].lost
=============================================================================
