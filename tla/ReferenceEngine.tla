--------------------------- MODULE ReferenceEngine ---------------------------
(***************************************************************************)
(* The Identifier & Reference Engine of ONE organisation: the              *)
(* reference_patterns rows (format and next_sequence, one row per entity   *)
(* type) and the transactions that use them, over Postgres at READ         *)
(* COMMITTED:                                                              *)
(*                                                                         *)
(*   create     POST of a property, building, repair...: one               *)
(*              generate_reference and one INSERT                          *)
(*   import     an import job of the worker: the same once per row, and    *)
(*              process_import_job commits what an exception leaves        *)
(*   configure  PATCH /reference-patterns/{type}: set_reference_pattern    *)
(*   list       GET /reference-patterns: list_reference_patterns           *)
(*                                                                         *)
(* Each begins with _get_or_create_pattern: SELECT ... FOR UPDATE, and a   *)
(* nested INSERT when there is no row yet.  A row carries its committed    *)
(* (format, next) and what its lock owner has written (newFormat,          *)
(* newNext).                                                               *)
(***************************************************************************)
EXTENDS Integers, FiniteSets

CONSTANTS
    Requests,        \* transactions
    NumTypes,        \* size of DEFAULT_PATTERNS
    EntityIds,       \* bound: primary keys a new entity may draw
    Formats,         \* pattern strings: the literal digit before {sequence}, 0 for none
    Unrenderable,    \* those that str.format rejects, such as "REP-{sequence"
    DefaultFormat,   \* DEFAULT_PATTERNS[entity_type]
    Settable,        \* bound: what a PATCH sets, as <<entity type, pattern>>
    NoTx,
    MaxRequests      \* bound: transactions begun in a behaviour

Types == 1..NumTypes

ASSUME NumTypesAssumption == NumTypes \in Nat \ {0}
ASSUME FormatAssumption   == /\ Formats \subseteq Nat
                             /\ Unrenderable \subseteq Formats
                             /\ DefaultFormat \in Formats \ Unrenderable
                             /\ Settable \subseteq Types \X Formats
ASSUME TxAssumption       == NoTx \notin Requests
ASSUME BoundAssumption    == MaxRequests \in Nat

VARIABLES
    pattern,      \* reference_patterns
    entity,       \* the rows of the referenced tables
    request,      \* local state of each transaction
    begun         \* bounded counter

vars == <<pattern, entity, request, begun>>

Numbers == Nat \ {0}

PatternRow == [state     : {"absent", "pending", "present"},
               format    : Formats, next    : Numbers,
               newFormat : Formats, newNext : Numbers,
               lock      : Requests \union {NoTx}]

EntityRow == [state  : {"unused", "pending", "saved"},
              type   : Types,
              number : Nat,
              format : Formats,
              owner  : Requests \union {NoTx}]

Creating == {"create", "import"}
Ops      == Creating \union {"configure", "list"}

RequestState == [pc     : {"idle", "select", "seed", "locked", "done"},
                 op     : Ops,
                 type   : Types,
                 next   : Numbers,     \* the loaded row's next_sequence
                 format : Formats]     \* and its pattern

AbsentPattern == [state |-> "absent", format |-> DefaultFormat, next |-> 1,
                  newFormat |-> DefaultFormat, newNext |-> 1, lock |-> NoTx]
UnusedEntity  == [state |-> "unused", type |-> 1, number |-> 0,
                  format |-> DefaultFormat, owner |-> NoTx]
Idle          == [pc |-> "idle", op |-> "list", type |-> 1,
                  next |-> 1, format |-> DefaultFormat]

Init ==
    /\ pattern = [k \in Types |-> AbsentPattern]
    /\ entity = [e \in EntityIds |-> UnusedEntity]
    /\ request = [t \in Requests |-> Idle]
    /\ begun = 0

(***************************************************************************)
(* Postgres: commit and rollback of a transaction.                         *)
(***************************************************************************)

CommittedPatterns(t) ==
    [k \in Types |->
        IF pattern[k].lock = t
        THEN [state |-> "present",
              format |-> pattern[k].newFormat, next |-> pattern[k].newNext,
              newFormat |-> pattern[k].newFormat, newNext |-> pattern[k].newNext,
              lock |-> NoTx]
        ELSE pattern[k]]

RolledBackPatterns(t) ==
    [k \in Types |->
        IF pattern[k].lock # t THEN pattern[k]
        ELSE IF pattern[k].state = "pending" THEN AbsentPattern
        ELSE [state |-> pattern[k].state,
              format |-> pattern[k].format, next |-> pattern[k].next,
              newFormat |-> pattern[k].format, newNext |-> pattern[k].next,
              lock |-> NoTx]]

CommittedEntities(t) ==
    [e \in EntityIds |->
        IF entity[e].owner = t
        THEN [state |-> "saved", type |-> entity[e].type,
              number |-> entity[e].number, format |-> entity[e].format,
              owner |-> NoTx]
        ELSE entity[e]]

RolledBackEntities(t) ==
    [e \in EntityIds |->
        IF entity[e].owner = t THEN UnusedEntity ELSE entity[e]]

(***************************************************************************)
(* _get_or_create_pattern.                                                 *)
(***************************************************************************)

Unused == {e \in EntityIds : entity[e].state = "unused"}

\* A fresh primary key; one is as good as another (uuid4).
NewKey == CHOOSE e \in Unused : TRUE

\* Bound: keys are left over once every creation under way has drawn one.
SpareIds ==
    Cardinality({t \in Requests : /\ request[t].op \in Creating
                                  /\ request[t].pc # "done"})
      < Cardinality(Unused)

\* A request that is about to load the pattern row of type k.
Wanting(op, k) == [pc |-> "select", op |-> op, type |-> k,
                   next |-> 1, format |-> DefaultFormat]

Begin(t) ==
    /\ request[t].pc = "idle"
    /\ begun < MaxRequests
    /\ begun' = begun + 1
    /\ \/ \E op \in Creating \union {"configure"}, k \in Types :
             /\ op \in Creating => SpareIds
             /\ request' = [request EXCEPT ![t] = Wanting(op, k)]
       \/ request' = [request EXCEPT ![t] = Wanting("list", 1)]
    /\ UNCHANGED <<pattern, entity>>

\* Request t has the pattern row of its type in memory, with these values.
Holding(t, pc, next, format) ==
    [pc |-> pc, op |-> request[t].op, type |-> request[t].type,
     next |-> next, format |-> format]
Loaded(t, next, format) ==
    request' = [request EXCEPT ![t] = Holding(t, "locked", next, format)]

\* Mutant: the counter is written in a session of its own, which commits.
UpdatedAtOnce(t, k, format, next) ==
    [state |-> pattern[k].state,
     format |-> pattern[k].format, next |-> next,
     newFormat |-> format, newNext |-> next, lock |-> t]

\* The row of type k as t's UPDATE leaves it: t holds its lock.
Updated(t, k, format, next) ==
    [state |-> pattern[k].state,
     format |-> pattern[k].format, next |-> pattern[k].next,
     newFormat |-> format, newNext |-> next, lock |-> t]

\* Mutant: the row is read without FOR UPDATE.
SelectUnlocked(t) ==
    LET k == request[t].type IN
    /\ request[t].pc = "select"
    /\ \/ /\ pattern[k].state = "present"
          /\ Loaded(t, pattern[k].next, pattern[k].format)
       \/ /\ pattern[k].state # "present"
          /\ request' = [request EXCEPT ![t].pc = "seed"]
    /\ UNCHANGED <<pattern, entity, begun>>

\* _select_pattern: FOR UPDATE waits for the lock of a committed row; an
\* absent row, or one another transaction has inserted but not committed, is
\* not seen.
SelectPattern(t) ==
    LET k == request[t].type IN
    /\ request[t].pc = "select"
    /\ \/ /\ pattern[k].state = "present"
          /\ pattern[k].lock = NoTx
          /\ pattern' = [pattern EXCEPT ![k].lock = t]
          /\ Loaded(t, pattern[k].next, pattern[k].format)
       \/ /\ pattern[k].state # "present"
          /\ request' = [request EXCEPT ![t].pc = "seed"]
          /\ UNCHANGED pattern
    /\ UNCHANGED <<entity, begun>>

\* The bootstrap row.
SeededRow(t) == [state |-> "pending", format |-> DefaultFormat, next |-> 1,
                 newFormat |-> DefaultFormat, newNext |-> 1, lock |-> t]

\* Mutant: the insert upserts, so it restarts the counter of a committed row.
SeedResets(t) ==
    LET k == request[t].type IN
    /\ request[t].pc = "seed"
    /\ pattern[k].lock = NoTx
    /\ pattern' = [pattern EXCEPT ![k] = SeededRow(t)]
    /\ Loaded(t, 1, DefaultFormat)
    /\ UNCHANGED <<entity, begun>>

\* Mutant: the IntegrityError of the lost race is not recovered.
SeedUnrecovered(t) ==
    LET k == request[t].type IN
    /\ request[t].pc = "seed"
    /\ pattern[k].state = "absent"
    /\ pattern' = [pattern EXCEPT ![k] = SeededRow(t)]
    /\ Loaded(t, 1, DefaultFormat)
    /\ UNCHANGED <<entity, begun>>

\* The nested INSERT waits for a concurrent one.  If that one committed, the
\* unique constraint fails, the savepoint rolls back and the row is selected
\* again (patterns are never deleted, so this time it is there).
SeedPattern(t) ==
    LET k == request[t].type IN
    /\ request[t].pc = "seed"
    /\ \/ /\ pattern[k].state = "absent"
          /\ pattern' = [pattern EXCEPT ![k] = SeededRow(t)]
          /\ Loaded(t, 1, DefaultFormat)
       \/ /\ pattern[k].state = "present"
          /\ request' = [request EXCEPT ![t].pc = "select"]
          /\ UNCHANGED pattern
    /\ UNCHANGED <<entity, begun>>

(***************************************************************************)
(* generate_reference, set_reference_pattern, list_reference_patterns.     *)
(***************************************************************************)

\* generate_reference and the INSERT of the entity it is for.  The reference
\* comes from the loaded row; the flush of next_sequence is an UPDATE, which
\* needs the row lock.  An import job does this once per row.
CreateEntity(t) ==
    LET k == request[t].type
        n == request[t].next
    IN
    /\ \/ request[t].op \in Creating /\ request[t].pc = "locked"
       \/ request[t].op = "import" /\ request[t].pc = "done" /\ SpareIds
    /\ request[t].format \notin Unrenderable
    /\ pattern[k].lock \in {NoTx, t}
    /\ pattern' = [pattern EXCEPT
                      ![k] = Updated(t, k, pattern[k].newFormat, n + 1)]
    /\ Unused # {}
    /\ entity' = [entity EXCEPT
          ![NewKey] = [state |-> "pending", type |-> k, number |-> n,
                       format |-> request[t].format, owner |-> t]]
    /\ request' = [request EXCEPT
                      ![t] = Holding(t, "done", n + 1, request[t].format)]
    /\ UNCHANGED begun

\* The transaction ends without effect.
Undo(t) ==
    /\ pattern' = RolledBackPatterns(t)
    /\ entity' = RolledBackEntities(t)
    /\ request' = [request EXCEPT ![t] = Idle]
    /\ UNCHANGED begun

\* The pattern does not render: a POST ends in a 500 and rolls back.
CreateFails(t) ==
    /\ request[t].op = "create"
    /\ request[t].pc = "locked"
    /\ request[t].format \in Unrenderable
    /\ Undo(t)

\* In an import job the exception reaches process_import_job, which marks the
\* job FAILED and commits: the counter, flushed before the rendering, has moved
\* on and there is no entity.
ImportFails(t) ==
    LET k == request[t].type
        n == request[t].next
    IN
    /\ request[t].op = "import"
    /\ request[t].pc = "locked"
    /\ request[t].format \in Unrenderable
    /\ pattern[k].lock \in {NoTx, t}
    /\ pattern' = [pattern EXCEPT
                      ![k] = Updated(t, k, pattern[k].newFormat, n + 1)]
    /\ request' = [request EXCEPT
                      ![t] = Holding(t, "done", n + 1, request[t].format)]
    /\ UNCHANGED <<entity, begun>>

\* set_reference_pattern writes the format and nothing else.
SetPattern(t) ==
    LET k == request[t].type IN
    /\ request[t].op = "configure"
    /\ request[t].pc = "locked"
    /\ pattern[k].lock \in {NoTx, t}
    /\ \E f \in {g \in Formats : <<k, g>> \in Settable} :
          pattern' = [pattern EXCEPT
                         ![k] = Updated(t, k, f, pattern[k].newNext)]
    /\ request' = [request EXCEPT ![t].pc = "done"]
    /\ UNCHANGED <<entity, begun>>

\* list_reference_patterns goes through the types in DEFAULT_PATTERNS order.
ListNext(t) ==
    /\ request[t].op = "list"
    /\ request[t].pc = "locked"
    /\ \/ /\ request[t].type < NumTypes
          /\ request' = [request EXCEPT
                            ![t] = Wanting("list", request[t].type + 1)]
       \/ /\ request[t].type = NumTypes
          /\ request' = [request EXCEPT ![t].pc = "done"]
    /\ UNCHANGED <<pattern, entity, begun>>

Commit(t) ==
    /\ request[t].pc = "done"
    /\ pattern' = CommittedPatterns(t)
    /\ entity' = CommittedEntities(t)
    /\ request' = [request EXCEPT ![t] = Idle]
    /\ UNCHANGED begun

\* Any later error of the handler, a crash or a lost connection.
RollBack(t) ==
    /\ request[t].pc # "idle"
    /\ Undo(t)

Step(t) ==
    \/ SelectPattern(t) \/ SeedPattern(t)
    \/ CreateEntity(t) \/ CreateFails(t) \/ ImportFails(t)
    \/ SetPattern(t) \/ ListNext(t) \/ Commit(t)

Next == \E t \in Requests : Begin(t) \/ Step(t) \/ RollBack(t)

\* A running request goes on as long as the database lets it (an import has
\* finitely many rows); nobody has to send one.
Fairness == \A t \in Requests : WF_vars(Step(t))

Spec     == Init /\ [][Next]_vars
FairSpec == Spec /\ Fairness

-----------------------------------------------------------------------------
(***************************************************************************)
(* Properties                                                              *)
(***************************************************************************)

Saved(k) == {e \in EntityIds : entity[e].state = "saved" /\ entity[e].type = k}

\* Type correctness.
TypeOK ==
    /\ pattern \in [Types -> PatternRow]
    /\ entity \in [EntityIds -> EntityRow]
    /\ request \in [Requests -> RequestState]
    /\ begun \in 0..MaxRequests

\* Two committed entities of one type never carry the same number, whatever
\* creations, imports, bootstraps and rollbacks raced ("two concurrent creates
\* can never read the same sequence number").
NumberUnique ==
    \A k \in Types : \A e, f \in Saved(k) :
        e # f => entity[e].number # entity[f].number

\* The types whose patterns all render.
Rendering == {k \in Types : \A f \in Unrenderable : <<k, f>> \notin Settable}

\* The committed numbers of a type whose patterns render are exactly those
\* below its counter: a rolled-back creation leaves no gap, and the counter
\* never lags behind, whatever becomes of the other types.  An import with a
\* pattern that does not render leaves a gap.
GapFree ==
    \A k \in Rendering :
        {entity[e].number : e \in Saved(k)} = 1..(pattern[k].next - 1)

\* An entity is named with the pattern in force when it is committed: a
\* pattern change cannot slip in between generate_reference and the commit.
NamedByCurrentPattern ==
    [][ \A e \in EntityIds :
          entity[e].state = "pending" /\ entity'[e].state = "saved"
          => entity'[e].format = pattern'[entity[e].type].format ]_vars

\* The books of ReferenceLedger: page n is the committed entity number n.
NoEntity == "no entity"
HolderOf(k, n) ==
    IF \E e \in Saved(k) : entity[e].number = n
    THEN CHOOSE e \in Saved(k) : entity[e].number = n
    ELSE NoEntity

Ledger == INSTANCE ReferenceLedger
    WITH Types <- Rendering,
         book  <- [k \in Rendering |->
                    [n \in 1..(pattern[k].next - 1) |-> HolderOf(k, n)]]

\* Every behaviour of the engine is one of the ledger: numbers are issued in
\* commit order, without gaps, each to one entity, and never change hands
\* (again, for the types whose patterns render).
KeepsTheLedger == Ledger!Spec

\* Every request ends: nobody waits for ever on a pattern row, and list's walk
\* over all rows cannot deadlock with the others.
EveryRequestEnds ==
    \A t \in Requests : request[t].pc # "idle" ~> request[t].pc = "idle"

\* 'Never silently reused': two committed entities of a type never show the
\* same reference, once number n is rendered with its pattern.  (Numbers up to
\* 99, which is more than any run draws.)
Rendered(e) ==
    LET d == entity[e].format
        n == entity[e].number
    IN d * (IF n < 10 THEN 10 ELSE 100) + n

ReferenceNeverReused ==
    \A k \in Types : \A e, f \in Saved(k) :
        e # f => Rendered(e) # Rendered(f)
=============================================================================
