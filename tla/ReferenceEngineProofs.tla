------------------------ MODULE ReferenceEngineProofs ------------------------
(***************************************************************************)
(* Theorems about ReferenceEngine, for every number of requests, entity    *)
(* types, keys and patterns.                                               *)
(***************************************************************************)
EXTENDS ReferenceEngine, SequenceTheorems, TLAPS

(***************************************************************************)
(* The inductive invariant.  NumberUnique and GapFree speak of committed   *)
(* entities; what keeps them true is that the entities of a type, pending  *)
(* ones included, carry distinct numbers below the written counter (all of *)
(* them for a type whose patterns render), that only the holder of the row *)
(* lock has pending ones, and that the row the holder loaded is up to      *)
(* date.  A type that renders is never loaded with a pattern that does not *)
(* (Renders).                                                              *)
(***************************************************************************)

Used(e) == entity[e].state # "unused"

RowInv(k) ==
    /\ pattern[k].state = "absent" => pattern[k] = AbsentPattern
    /\ pattern[k].state = "pending" =>
          pattern[k].next = 1 /\ pattern[k].lock # NoTx
    /\ pattern[k].lock = NoTx => pattern[k].newNext = pattern[k].next
    /\ pattern[k].next <= pattern[k].newNext

EntityInv(e) ==
    IF Used(e)
    THEN /\ entity[e].number \in 1..(pattern[entity[e].type].newNext - 1)
         /\ entity[e].state = "saved" <=>
               entity[e].number < pattern[entity[e].type].next
         /\ entity[e].owner = IF entity[e].state = "saved"
                              THEN NoTx
                              ELSE pattern[entity[e].type].lock
         /\ entity[e].state = "pending" => entity[e].owner # NoTx
    ELSE entity[e] = UnusedEntity

Distinct ==
    \A e, f \in EntityIds :
        /\ e # f /\ Used(e) /\ Used(f)
        /\ entity[e].type = entity[f].type
        => entity[e].number # entity[f].number

NoGap ==
    \A k \in Rendering : \A n \in 1..(pattern[k].newNext - 1) :
        \E e \in EntityIds :
            Used(e) /\ entity[e].type = k /\ entity[e].number = n

Renders ==
    /\ \A k \in Rendering : /\ pattern[k].format \notin Unrenderable
                             /\ pattern[k].newFormat \notin Unrenderable
    /\ \A t \in Requests :
          request[t].type \in Rendering => request[t].format \notin Unrenderable

RequestInv(t) ==
    request[t].pc \in {"locked", "done"} /\ request[t].op # "list" =>
        /\ pattern[request[t].type].lock = t
        /\ request[t].op \in Creating =>
              request[t].next = pattern[request[t].type].newNext

-----------------------------------------------------------------------------
(***************************************************************************)
(* Types of the values the actions build.                                  *)
(***************************************************************************)

LEMMA RowTypes ==
    /\ AbsentPattern \in PatternRow
    /\ UnusedEntity \in EntityRow
    /\ Idle \in RequestState
    /\ \A op \in Ops, k \in Types : Wanting(op, k) \in RequestState
    /\ \A t \in Requests : SeededRow(t) \in PatternRow
  BY NumTypesAssumption, FormatAssumption
     DEF AbsentPattern, UnusedEntity, Idle, Wanting, SeededRow, PatternRow,
         EntityRow, RequestState, Numbers, Types, Ops, Creating

LEMMA EndTypes ==
    ASSUME TypeOK, NEW t \in Requests
    PROVE  /\ CommittedPatterns(t) \in [Types -> PatternRow]
           /\ RolledBackPatterns(t) \in [Types -> PatternRow]
           /\ CommittedEntities(t) \in [EntityIds -> EntityRow]
           /\ RolledBackEntities(t) \in [EntityIds -> EntityRow]
  <1>1. CommittedPatterns(t) \in [Types -> PatternRow]
    BY DEF TypeOK, CommittedPatterns, PatternRow
  <1>2. RolledBackPatterns(t) \in [Types -> PatternRow]
    BY RowTypes DEF TypeOK, RolledBackPatterns, PatternRow
  <1>3. CommittedEntities(t) \in [EntityIds -> EntityRow]
    BY DEF TypeOK, CommittedEntities, EntityRow
  <1>4. RolledBackEntities(t) \in [EntityIds -> EntityRow]
    BY RowTypes DEF TypeOK, RolledBackEntities
  <1> QED BY <1>1, <1>2, <1>3, <1>4

LEMMA HoldingType ==
    ASSUME TypeOK, NEW t \in Requests, NEW pc \in {"locked", "done"},
           NEW n \in Numbers, NEW f \in Formats
    PROVE  Holding(t, pc, n, f) \in RequestState
  BY DEF Holding, TypeOK, RequestState

LEMMA UpdatedType ==
    ASSUME TypeOK, NEW t \in Requests, NEW k \in Types,
           NEW f \in Formats, NEW n \in Numbers
    PROVE  Updated(t, k, f, n) \in PatternRow
  BY DEF Updated, TypeOK, PatternRow

LEMMA NewKeyUnused ==
    Unused # {} => NewKey \in EntityIds /\ entity[NewKey].state = "unused"
  BY DEF NewKey, Unused

\* Every variable keeps its type.
LEMMA TypeStep == TypeOK /\ [Next]_vars => TypeOK'
  <1> SUFFICES ASSUME TypeOK, [Next]_vars PROVE TypeOK'
    OBVIOUS
  <1>1. ASSUME NEW t \in Requests, Begin(t) PROVE TypeOK'
    <2>1. request' \in [Requests -> RequestState]
      <3>1. 1 \in Types /\ Creating \union {"configure", "list"} \subseteq Ops
        BY NumTypesAssumption DEF Types, Ops
      <3> QED BY <1>1, <3>1, RowTypes DEF Begin, TypeOK
    <2>2. begun' \in 0..MaxRequests
      BY <1>1, BoundAssumption DEF Begin, TypeOK
    <2> QED BY <1>1, <2>1, <2>2 DEF Begin, TypeOK
  <1>2. ASSUME NEW t \in Requests, SelectPattern(t) PROVE TypeOK'
    <2>1. PICK k \in Types : k = request[t].type
      BY DEF TypeOK, RequestState
    <2>2. CASE /\ pattern' = [pattern EXCEPT ![k].lock = t]
               /\ Loaded(t, pattern[k].next, pattern[k].format)
      <3>1. pattern' \in [Types -> PatternRow]
        BY <2>2 DEF TypeOK, PatternRow
      <3>2. pattern[k].next \in Numbers /\ pattern[k].format \in Formats
        BY DEF TypeOK, PatternRow
      <3>3. request' \in [Requests -> RequestState]
        BY <2>2, <3>2, HoldingType DEF Loaded, TypeOK
      <3> QED BY <1>2, <3>1, <3>3 DEF SelectPattern, TypeOK
    <2>3. CASE /\ request' = [request EXCEPT ![t].pc = "seed"]
               /\ UNCHANGED pattern
      BY <1>2, <2>3 DEF SelectPattern, TypeOK, RequestState
    <2> QED BY <1>2, <2>1, <2>2, <2>3 DEF SelectPattern
  <1>3. ASSUME NEW t \in Requests, SeedPattern(t) PROVE TypeOK'
    <2>1. PICK k \in Types : k = request[t].type
      BY DEF TypeOK, RequestState
    <2>2. CASE /\ pattern' = [pattern EXCEPT ![k] = SeededRow(t)]
               /\ Loaded(t, 1, DefaultFormat)
      <3>1. pattern' \in [Types -> PatternRow]
        BY <2>2, RowTypes DEF TypeOK
      <3>2. request' \in [Requests -> RequestState]
        BY <2>2, HoldingType, FormatAssumption DEF Loaded, TypeOK, Numbers
      <3> QED BY <1>3, <3>1, <3>2 DEF SeedPattern, TypeOK
    <2>3. CASE /\ request' = [request EXCEPT ![t].pc = "select"]
               /\ UNCHANGED pattern
      BY <1>3, <2>3 DEF SeedPattern, TypeOK, RequestState
    <2> QED BY <1>3, <2>1, <2>2, <2>3 DEF SeedPattern
  <1>4. ASSUME NEW t \in Requests, CreateEntity(t) PROVE TypeOK'
    <2>1. PICK k \in Types, n \in Numbers, f \in Formats :
             k = request[t].type /\ n = request[t].next /\ f = request[t].format
      BY DEF TypeOK, RequestState
    <2>2. n + 1 \in Numbers /\ n \in Nat /\ pattern[k].newFormat \in Formats
      BY DEF Numbers, TypeOK, PatternRow
    <2>3. pattern' \in [Types -> PatternRow]
      BY <1>4, <2>1, <2>2, UpdatedType DEF CreateEntity, TypeOK
    <2>4. request' \in [Requests -> RequestState]
      BY <1>4, <2>1, <2>2, HoldingType DEF CreateEntity, TypeOK
    <2>5. entity' \in [EntityIds -> EntityRow]
      <3>1. [state |-> "pending", type |-> k, number |-> n,
             format |-> f, owner |-> t] \in EntityRow
        BY <2>2 DEF EntityRow
      <3> QED BY <1>4, <2>1, <3>1, NewKeyUnused DEF CreateEntity, TypeOK
    <2> QED BY <1>4, <2>3, <2>4, <2>5 DEF CreateEntity, TypeOK
  <1>9. ASSUME NEW t \in Requests, ImportFails(t) PROVE TypeOK'
    <2>1. PICK k \in Types, n \in Numbers, f \in Formats :
             k = request[t].type /\ n = request[t].next /\ f = request[t].format
      BY DEF TypeOK, RequestState
    <2>2. n + 1 \in Numbers /\ pattern[k].newFormat \in Formats
      BY DEF Numbers, TypeOK, PatternRow
    <2>3. pattern' \in [Types -> PatternRow]
      BY <1>9, <2>1, <2>2, UpdatedType DEF ImportFails, TypeOK
    <2>4. request' \in [Requests -> RequestState]
      BY <1>9, <2>1, <2>2, HoldingType DEF ImportFails, TypeOK
    <2> QED BY <1>9, <2>3, <2>4 DEF ImportFails, TypeOK
  <1>5. ASSUME NEW t \in Requests, SetPattern(t) PROVE TypeOK'
    <2>1. PICK k \in Types, f \in Formats :
             /\ k = request[t].type
             /\ pattern' = [pattern EXCEPT
                               ![k] = Updated(t, k, f, pattern[k].newNext)]
      BY <1>5 DEF SetPattern, TypeOK, RequestState
    <2>2. pattern[k].newNext \in Numbers
      BY DEF TypeOK, PatternRow
    <2>3. pattern' \in [Types -> PatternRow]
      BY <2>1, <2>2, UpdatedType DEF TypeOK
    <2>4. request' \in [Requests -> RequestState]
      BY <1>5 DEF SetPattern, TypeOK, RequestState
    <2> QED BY <1>5, <2>3, <2>4 DEF SetPattern, TypeOK
  <1>6. ASSUME NEW t \in Requests, ListNext(t) PROVE TypeOK'
    <2>1. CASE request[t].type < NumTypes
      <3>1. request[t].type + 1 \in Types /\ "list" \in Ops
        BY <2>1, NumTypesAssumption DEF TypeOK, RequestState, Types, Ops
      <3>2. request' = [request EXCEPT
                           ![t] = Wanting("list", request[t].type + 1)]
        BY <1>6, <2>1, NumTypesAssumption DEF ListNext
      <3>3. Wanting("list", request[t].type + 1) \in RequestState
        BY <3>1, RowTypes
      <3> QED BY <1>6, <3>2, <3>3 DEF ListNext, TypeOK
    <2>2. CASE request' = [request EXCEPT ![t].pc = "done"]
      BY <1>6, <2>2 DEF ListNext, TypeOK, RequestState
    <2> QED BY <1>6, <2>1, <2>2 DEF ListNext
  <1>7. ASSUME NEW t \in Requests, Commit(t) \/ Undo(t) PROVE TypeOK'
    BY <1>7, EndTypes, RowTypes DEF Commit, Undo, TypeOK
  <1>8. CASE UNCHANGED vars
    BY <1>8 DEF vars, TypeOK
  <1> QED
    BY <1>1, <1>2, <1>3, <1>4, <1>5, <1>6, <1>7, <1>8, <1>9
       DEF Next, Step, CreateFails, RollBack

LEMMA TypeInit == Init => TypeOK
  BY RowTypes, BoundAssumption DEF Init, TypeOK

\* Every variable keeps its type; in particular the counter of a type is never
\* below 1 (identifiers/models.py, identifiers/service.py).
THEOREM TypeCorrect == Spec => []TypeOK
  BY TypeInit, TypeStep, PTL DEF Spec

-----------------------------------------------------------------------------
(***************************************************************************)
(* The numbers.  Ledgered is what the actions preserve beside the types.   *)
(***************************************************************************)

Ledgered ==
    /\ \A k \in Types : RowInv(k)
    /\ \A e \in EntityIds : EntityInv(e)
    /\ Distinct
    /\ NoGap
    /\ \A t \in Requests : RequestInv(t)

\* A type that renders keeps to the patterns it is given, in its row and in the requests.
LEMMA RendersInit == Init => Renders
  BY FormatAssumption DEF Init, Renders, AbsentPattern, Idle, Rendering

LEMMA RendersStep == TypeOK /\ Renders /\ [Next]_vars => Renders'
  <1> SUFFICES ASSUME TypeOK, Renders, [Next]_vars PROVE Renders'
    OBVIOUS
  <1>0. DefaultFormat \notin Unrenderable /\ Rendering \subseteq Types
    BY FormatAssumption DEF Rendering
  <1>1. ASSUME NEW t \in Requests, Begin(t) \/ ListNext(t) PROVE Renders'
    BY <1>0, <1>1 DEF Begin, ListNext, Wanting, Renders, TypeOK, RequestState
  <1>2. ASSUME NEW t \in Requests, SelectPattern(t) PROVE Renders'
    <2>1. PICK k \in Types : k = request[t].type
      BY DEF TypeOK, RequestState
    <2>2. CASE request' = [request EXCEPT ![t].pc = "seed"] /\ UNCHANGED pattern
      BY <2>2 DEF Renders, TypeOK, RequestState
    <2>3. CASE pattern' = [pattern EXCEPT ![k].lock = t] /\ Loaded(t, pattern[k].next, pattern[k].format)
      BY <1>0, <2>1, <2>3 DEF Renders, Loaded, Holding, TypeOK, PatternRow, RequestState
    <2> QED BY <1>2, <2>1, <2>2, <2>3 DEF SelectPattern
  <1>3. ASSUME NEW t \in Requests, SeedPattern(t) PROVE Renders'
    <2>1. PICK k \in Types : k = request[t].type
      BY DEF TypeOK, RequestState
    <2>2. CASE request' = [request EXCEPT ![t].pc = "select"] /\ UNCHANGED pattern
      BY <2>2 DEF Renders, TypeOK, RequestState
    <2>3. CASE pattern' = [pattern EXCEPT ![k] = SeededRow(t)] /\ Loaded(t, 1, DefaultFormat)
      BY <1>0, <2>1, <2>3 DEF Renders, Loaded, Holding, SeededRow, TypeOK, RequestState
    <2> QED BY <1>3, <2>1, <2>2, <2>3 DEF SeedPattern
  <1>4. ASSUME NEW t \in Requests, CreateEntity(t) \/ ImportFails(t) PROVE Renders'
    <2>1. PICK k \in Types, n \in Nat :
             /\ k = request[t].type
             /\ pattern' = [pattern EXCEPT ![k] = Updated(t, k, pattern[k].newFormat, n)]
             /\ request' = [request EXCEPT ![t] = Holding(t, "done", n, request[t].format)]
      BY <1>4 DEF CreateEntity, ImportFails, TypeOK, RequestState, Numbers
    <2> QED BY <1>0, <2>1 DEF Renders, Updated, Holding, TypeOK, RequestState
  <1>5. ASSUME NEW t \in Requests, SetPattern(t) PROVE Renders'
    <2>1. PICK k \in Types, f \in Formats :
             /\ k = request[t].type /\ <<k, f>> \in Settable
             /\ pattern' = [pattern EXCEPT ![k] = Updated(t, k, f, pattern[k].newNext)]
             /\ request' = [request EXCEPT ![t].pc = "done"]
      BY <1>5 DEF SetPattern, TypeOK, RequestState
    <2>2. k \in Rendering => f \notin Unrenderable
      BY <2>1 DEF Rendering
    <2> QED BY <1>0, <2>1, <2>2 DEF Renders, Updated, TypeOK, RequestState
  <1>6. ASSUME NEW t \in Requests, Commit(t) \/ Undo(t) PROVE Renders'
    <2>1. \A k \in Types :
             /\ pattern'[k].format \in {pattern[k].format, pattern[k].newFormat, DefaultFormat}
             /\ pattern'[k].newFormat \in {pattern[k].format, pattern[k].newFormat, DefaultFormat}
      BY <1>6 DEF Commit, Undo, CommittedPatterns, RolledBackPatterns, AbsentPattern
    <2>2. request' = [request EXCEPT ![t] = Idle]
      BY <1>6 DEF Commit, Undo
    <2> QED BY <1>0, <2>1, <2>2 DEF Renders, Idle, TypeOK
  <1>7. CASE UNCHANGED vars
    BY <1>7 DEF vars, Renders
  <1> QED
    BY <1>1, <1>2, <1>3, <1>4, <1>5, <1>6, <1>7 DEF Next, Step, CreateFails, RollBack

\* A step of one request that holds no row afterwards, and leaves the tables.
LEMMA RequestOnly ==
    ASSUME TypeOK, Ledgered, NEW t \in Requests,
           UNCHANGED <<pattern, entity>>,
           \A q \in Requests \ {t} : request'[q] = request[q],
           request'[t].pc \notin {"locked", "done"} \/ request'[t].op = "list"
    PROVE  Ledgered'
  <1>1. (\A k \in Types : RowInv(k))' /\ (\A e \in EntityIds : EntityInv(e))'
    BY DEF Ledgered, RowInv, EntityInv, Used
  <1>2. Distinct' /\ NoGap'
    BY DEF Ledgered, Distinct, NoGap, Used
  <1>3. \A q \in Requests : RequestInv(q)'
    BY DEF Ledgered, RequestInv
  <1> QED BY <1>1, <1>2, <1>3 DEF Ledgered

\* A request that locks a free row, or writes the row it has locked, without
\* moving the counter.
LEMMA RowLocked ==
    ASSUME TypeOK, Ledgered, NEW t \in Requests, NEW k \in Types,
           pattern[k].lock \in {NoTx, t},
           NEW new \in PatternRow, new.lock = t, new.state # "absent",
           new.state = "pending" => new.next = 1,
           new.next = pattern[k].next, new.newNext = pattern[k].newNext,
           pattern' = [pattern EXCEPT ![k] = new],
           UNCHANGED entity,
           \A q \in Requests \ {t} : request'[q] = request[q],
           request'[t].op # "list" => request'[t].type = k,
           request'[t].op \in Creating => request'[t].next = new.newNext
    PROVE  Ledgered'
  <1>1. pattern'[k] = new /\ \A j \in Types \ {k} : pattern'[j] = pattern[j]
    BY DEF TypeOK
  <1>2. \A j \in Types : RowInv(j)'
    BY <1>1, TxAssumption DEF Ledgered, RowInv
  <1>3. ASSUME NEW e \in EntityIds PROVE EntityInv(e)'
    <2>1. CASE entity[e].type # k \/ ~Used(e)
      BY <1>1, <2>1 DEF Ledgered, EntityInv, Used, TypeOK, EntityRow
    <2>2. CASE entity[e].type = k /\ Used(e)
      <3>1. pattern[k].lock = NoTx => entity[e].state = "saved"
        BY <2>2 DEF Ledgered, EntityInv, Used, TypeOK, EntityRow
      <3> QED
        BY <1>1, <2>2, <3>1 DEF Ledgered, EntityInv, Used, TypeOK, EntityRow
    <2> QED BY <2>1, <2>2
  <1>4. Distinct'
    BY DEF Ledgered, Distinct, Used
  <1>5. \A j \in Types : pattern'[j].newNext = pattern[j].newNext
    BY <1>1
  <1>6. NoGap'
    BY <1>5 DEF Ledgered, NoGap, Used
  <1>7. ASSUME NEW q \in Requests PROVE RequestInv(q)'
    <2>1. CASE q = t
      BY <1>1, <2>1 DEF RequestInv
    <2>2. CASE q # t
      <3>1. request[q].type \in Types
        BY DEF TypeOK, RequestState
      <3> QED
        BY <1>1, <2>2, <3>1, TxAssumption DEF Ledgered, RequestInv
    <2> QED BY <2>1, <2>2
  <1> QED BY <1>2, <1>3, <1>4, <1>6, <1>7 DEF Ledgered

LEMMA EntityCreated ==
    ASSUME TypeOK, Ledgered, NEW t \in Requests, CreateEntity(t)
    PROVE  Ledgered'
  <1>1. PICK k \in Types, n \in Numbers, key \in EntityIds :
           /\ k = request[t].type /\ n = request[t].next /\ key = NewKey
           /\ entity[key].state = "unused"
    BY NewKeyUnused DEF CreateEntity, TypeOK, RequestState
  <1>2. pattern[k].lock = t /\ pattern[k].newNext = n /\ n \in Nat /\ n > 0
    BY <1>1 DEF CreateEntity, Ledgered, RequestInv, Numbers, Creating
  <1>3. /\ pattern'[k].state = pattern[k].state
        /\ pattern'[k].next = pattern[k].next
        /\ pattern'[k].newNext = n + 1 /\ pattern'[k].lock = t
        /\ \A j \in Types \ {k} : pattern'[j] = pattern[j]
    BY <1>1 DEF CreateEntity, Updated, TypeOK
  <1>4. /\ entity'[key].state = "pending" /\ entity'[key].type = k
        /\ entity'[key].number = n /\ entity'[key].owner = t
        /\ \A e \in EntityIds \ {key} : entity'[e] = entity[e]
    BY <1>1 DEF CreateEntity, TypeOK
  <1>5. /\ request'[t].type = k /\ request'[t].next = n + 1
        /\ \A q \in Requests \ {t} : request'[q] = request[q]
    BY <1>1 DEF CreateEntity, Holding, TypeOK
  <1>6. pattern[k].next \in Nat /\ pattern[k].next <= n
    BY <1>2 DEF Ledgered, RowInv, TypeOK, PatternRow, Numbers
  <1>7. ASSUME NEW j \in Types PROVE RowInv(j)'
    <2>1. CASE j = k
      <3>1. pattern[k].state # "absent"
        BY <1>2, TxAssumption DEF Ledgered, RowInv, AbsentPattern
      <3> QED
        BY <1>2, <1>3, <1>6, <2>1, <3>1, TxAssumption DEF Ledgered, RowInv
    <2>2. CASE j # k
      BY <1>3, <2>2 DEF Ledgered, RowInv
    <2> QED BY <2>1, <2>2
  <1>8. ASSUME NEW e \in EntityIds PROVE EntityInv(e)'
    <2>1. CASE e = key
      BY <1>2, <1>3, <1>4, <1>6, <2>1, TxAssumption DEF EntityInv, Used
    <2>2. CASE e # key
      BY <1>2, <1>3, <1>4, <2>2
         DEF Ledgered, EntityInv, Used, TypeOK, EntityRow
    <2> QED BY <2>1, <2>2
  <1>9. \A e \in EntityIds :
           Used(e) /\ entity[e].type = k => entity[e].number # n
    BY <1>2 DEF Ledgered, EntityInv
  <1>10. Distinct'
    BY <1>1, <1>4, <1>9 DEF Ledgered, Distinct, Used
  <1>11. ASSUME NEW j \in Rendering, NEW m \in 1..(pattern'[j].newNext - 1)
         PROVE  \E e \in EntityIds :
                   Used(e)' /\ entity'[e].type = j /\ entity'[e].number = m
    <2>1. CASE j = k /\ m = n
      BY <1>4, <2>1 DEF Used
    <2>2. CASE ~(j = k /\ m = n)
      <3>1. m \in 1..(pattern[j].newNext - 1)
        BY <1>2, <1>3, <1>11, <2>2 DEF Rendering
      <3>2. PICK e \in EntityIds :
               Used(e) /\ entity[e].type = j /\ entity[e].number = m
        BY <1>11, <3>1 DEF Ledgered, NoGap
      <3> QED BY <1>1, <1>4, <3>2 DEF Used
    <2> QED BY <2>1, <2>2
  <1>12. NoGap'
    BY <1>11 DEF NoGap
  <1>13. ASSUME NEW q \in Requests PROVE RequestInv(q)'
    <2>1. CASE q = t
      BY <1>3, <1>5, <2>1 DEF RequestInv
    <2>2. CASE q # t
      <3>1. request[q].type \in Types
        BY DEF TypeOK, RequestState
      <3> QED BY <1>2, <1>3, <1>5, <2>2, <3>1 DEF Ledgered, RequestInv
    <2> QED BY <2>1, <2>2
  <1> QED BY <1>7, <1>8, <1>10, <1>12, <1>13 DEF Ledgered

\* A failed import moves the counter of its row and creates nothing.
LEMMA NumberSkipped ==
    ASSUME TypeOK, Renders, Ledgered, NEW t \in Requests, ImportFails(t)
    PROVE  Ledgered'
  <1>1. PICK k \in Types, n \in Numbers : k = request[t].type /\ n = request[t].next
    BY DEF TypeOK, RequestState
  <1>2. pattern[k].lock = t /\ pattern[k].newNext = n /\ n \in Nat
    BY <1>1 DEF ImportFails, Ledgered, RequestInv, Numbers, Creating
  <1>3. /\ pattern'[k].state = pattern[k].state
        /\ pattern'[k].next = pattern[k].next
        /\ pattern'[k].newNext = n + 1 /\ pattern'[k].lock = t
        /\ \A j \in Types \ {k} : pattern'[j] = pattern[j]
    BY <1>1 DEF ImportFails, Updated, TypeOK
  <1>4. /\ request'[t].type = k /\ request'[t].next = n + 1
        /\ \A q \in Requests \ {t} : request'[q] = request[q]
        /\ UNCHANGED entity
    BY <1>1 DEF ImportFails, Holding, TypeOK
  <1>5. pattern[k].next \in Nat /\ pattern[k].next <= n
    BY <1>2 DEF Ledgered, RowInv, TypeOK, PatternRow, Numbers
  <1>6. ASSUME NEW j \in Types PROVE RowInv(j)'
    <2>1. CASE j = k
      <3>1. pattern[k].state # "absent"
        BY <1>2, TxAssumption DEF Ledgered, RowInv, AbsentPattern
      <3> QED
        BY <1>2, <1>3, <1>5, <2>1, <3>1, TxAssumption DEF Ledgered, RowInv
    <2>2. CASE j # k
      BY <1>3, <2>2 DEF Ledgered, RowInv
    <2> QED BY <2>1, <2>2
  <1>7. ASSUME NEW e \in EntityIds PROVE EntityInv(e)'
    BY <1>2, <1>3, <1>4 DEF Ledgered, EntityInv, Used, TypeOK, EntityRow
  <1>8. Distinct'
    BY <1>4 DEF Ledgered, Distinct, Used
  <1>9. NoGap'
    <2>1. k \notin Rendering
      BY <1>1 DEF ImportFails, Renders
    <2>2. \A j \in Rendering : pattern'[j] = pattern[j]
      BY <1>3, <2>1 DEF Rendering
    <2> QED BY <1>4, <2>2 DEF Ledgered, NoGap, Used
  <1>10. ASSUME NEW q \in Requests PROVE RequestInv(q)'
    <2>1. CASE q = t
      BY <1>3, <1>4, <2>1 DEF RequestInv
    <2>2. CASE q # t
      <3>1. request[q].type \in Types
        BY DEF TypeOK, RequestState
      <3> QED BY <1>2, <1>3, <1>4, <2>2, <3>1 DEF Ledgered, RequestInv
    <2> QED BY <2>1, <2>2
  <1> QED BY <1>6, <1>7, <1>8, <1>9, <1>10 DEF Ledgered

\* What the end of a transaction makes of an entity of another, and of its own.
LEMMA EndOfEntities ==
    ASSUME TypeOK, Ledgered, NEW t \in Requests, NEW e \in EntityIds
    PROVE  /\ entity[e].owner # t =>
                /\ CommittedEntities(t)[e] = entity[e]
                /\ RolledBackEntities(t)[e] = entity[e]
           /\ entity[e].owner = t =>
                /\ entity[e].state = "pending"
                /\ pattern[entity[e].type].lock = t
                /\ RolledBackEntities(t)[e] = UnusedEntity
                /\ CommittedEntities(t)[e].state = "saved"
                /\ CommittedEntities(t)[e].type = entity[e].type
                /\ CommittedEntities(t)[e].number = entity[e].number
                /\ CommittedEntities(t)[e].owner = NoTx
  BY TxAssumption
     DEF Ledgered, EntityInv, Used, UnusedEntity, CommittedEntities,
         RolledBackEntities, TypeOK, EntityRow

LEMMA EndOfRows ==
    ASSUME TypeOK, Ledgered, NEW t \in Requests, NEW k \in Types
    PROVE  /\ pattern[k].lock # t =>
                /\ CommittedPatterns(t)[k] = pattern[k]
                /\ RolledBackPatterns(t)[k] = pattern[k]
           /\ pattern[k].lock = t =>
                /\ CommittedPatterns(t)[k].state = "present"
                /\ CommittedPatterns(t)[k].next = pattern[k].newNext
                /\ CommittedPatterns(t)[k].newNext = pattern[k].newNext
                /\ CommittedPatterns(t)[k].lock = NoTx
                /\ \/ RolledBackPatterns(t)[k] = AbsentPattern
                   \/ RolledBackPatterns(t)[k].state = "present"
                /\ RolledBackPatterns(t)[k].next = pattern[k].next
                /\ RolledBackPatterns(t)[k].newNext = pattern[k].next
                /\ RolledBackPatterns(t)[k].lock = NoTx
  <1>1. CASE pattern[k].lock # t
    BY <1>1 DEF CommittedPatterns, RolledBackPatterns
  <1>2. CASE pattern[k].lock = t
    <2>1. pattern[k].state \in {"pending", "present"}
      BY <1>2, TxAssumption DEF Ledgered, RowInv, AbsentPattern, TypeOK, PatternRow
    <2>2. pattern[k].state = "pending" => pattern[k].next = 1
      BY DEF Ledgered, RowInv
    <2> QED
      BY <1>2, <2>1, <2>2
         DEF CommittedPatterns, RolledBackPatterns, AbsentPattern
  <1> QED BY <1>1, <1>2

\* Nobody else's RequestInv looks at a row that t has locked.
LEMMA OtherRequests ==
    ASSUME TypeOK, Ledgered, NEW t \in Requests,
           request' = [request EXCEPT ![t] = Idle],
           \A k \in Types : pattern[k].lock # t => pattern'[k] = pattern[k]
    PROVE  \A q \in Requests : RequestInv(q)'
  <1>1. request'[t].op = "list" /\ \A q \in Requests \ {t} : request'[q] = request[q]
    BY DEF Idle, TypeOK
  <1>2. \A q \in Requests : request[q].type \in Types
    BY DEF TypeOK, RequestState
  <1> QED BY <1>1, <1>2 DEF Ledgered, RequestInv

LEMMA Committing ==
    ASSUME TypeOK, Ledgered, NEW t \in Requests, Commit(t)
    PROVE  Ledgered'
  <1>1. pattern' = CommittedPatterns(t) /\ entity' = CommittedEntities(t)
    BY DEF Commit
  <1>2. \A k \in Types : /\ pattern'[k].newNext = pattern[k].newNext
                         /\ pattern[k].lock # t => pattern'[k] = pattern[k]
    BY <1>1, EndOfRows
  <1>3. \A e \in EntityIds :
           /\ Used(e)' <=> Used(e)
           /\ entity'[e].type = entity[e].type
           /\ entity'[e].number = entity[e].number
    BY <1>1, EndOfEntities DEF Used
  <1>4. ASSUME NEW k \in Types PROVE RowInv(k)'
    <2>1. CASE pattern[k].lock # t
      BY <1>2, <2>1 DEF Ledgered, RowInv
    <2>2. CASE pattern[k].lock = t
      <3>1. /\ pattern'[k].state = "present"
            /\ pattern'[k].next = pattern[k].newNext
            /\ pattern'[k].newNext = pattern[k].newNext
            /\ pattern[k].newNext \in Int
        BY <1>1, <2>2, EndOfRows DEF TypeOK, PatternRow, Numbers
      <3> QED BY <3>1 DEF RowInv
    <2> QED BY <2>1, <2>2
  <1>5. ASSUME NEW e \in EntityIds PROVE EntityInv(e)'
    <2>1. entity[e].type \in Types
      BY DEF TypeOK, EntityRow
    <2>2. CASE ~Used(e)
      <3>1. entity'[e] = entity[e]
        BY <1>1, <2>2, EndOfEntities DEF Used
      <3> QED BY <2>2, <3>1 DEF Ledgered, EntityInv, Used
    <2>3. CASE Used(e) /\ pattern[entity[e].type].lock # t
      <3>1. entity'[e] = entity[e]
        BY <1>1, <2>3, EndOfEntities
      <3> QED BY <1>2, <2>1, <2>3, <3>1 DEF Ledgered, EntityInv, Used
    <2>4. CASE Used(e) /\ pattern[entity[e].type].lock = t
      <3>1. entity'[e].state = "saved" /\ entity'[e].owner = NoTx
        BY <1>1, <2>4, EndOfEntities
           DEF Ledgered, EntityInv, Used, TypeOK, EntityRow
      <3>2. /\ pattern'[entity[e].type].next = pattern[entity[e].type].newNext
            /\ pattern'[entity[e].type].newNext = pattern[entity[e].type].newNext
            /\ pattern[entity[e].type].newNext \in Int
        BY <1>1, <2>1, <2>4, EndOfRows DEF TypeOK, PatternRow, Numbers
      <3>3. entity[e].number \in 1..(pattern[entity[e].type].newNext - 1)
        BY <2>4 DEF Ledgered, EntityInv
      <3> QED BY <1>3, <3>1, <3>2, <3>3 DEF EntityInv, Used
    <2> QED BY <2>2, <2>3, <2>4
  <1>6. Distinct'
    BY <1>3 DEF Ledgered, Distinct
  <1>7. NoGap'
    BY <1>2, <1>3 DEF Ledgered, NoGap, Rendering
  <1>8. \A q \in Requests : RequestInv(q)'
    BY <1>2, OtherRequests DEF Commit
  <1> QED BY <1>4, <1>5, <1>6, <1>7, <1>8 DEF Ledgered

LEMMA RollingBack ==
    ASSUME TypeOK, Ledgered, NEW t \in Requests, Undo(t)
    PROVE  Ledgered'
  <1>1. pattern' = RolledBackPatterns(t) /\ entity' = RolledBackEntities(t)
    BY DEF Undo
  <1>2. \A k \in Types :
           /\ pattern'[k].next = pattern[k].next
           /\ pattern[k].lock # t => pattern'[k] = pattern[k]
           /\ pattern[k].lock = t => pattern'[k].newNext = pattern[k].next
    BY <1>1, EndOfRows
  <1>3. \A e \in EntityIds :
           /\ entity[e].owner # t => entity'[e] = entity[e]
           /\ entity[e].owner = t => entity'[e] = UnusedEntity
    BY <1>1, EndOfEntities
  <1>4. ASSUME NEW k \in Types PROVE RowInv(k)'
    <2>1. CASE pattern[k].lock # t
      BY <1>2, <2>1 DEF Ledgered, RowInv
    <2>2. CASE pattern[k].lock = t
      <3>1. /\ pattern'[k] = AbsentPattern \/ pattern'[k].state = "present"
            /\ pattern'[k].next = pattern[k].next
            /\ pattern'[k].newNext = pattern[k].next
            /\ pattern[k].next \in Int
        BY <1>1, <2>2, EndOfRows DEF TypeOK, PatternRow, Numbers
      <3> QED BY <3>1 DEF RowInv, AbsentPattern
    <2> QED BY <2>1, <2>2
  <1>5. ASSUME NEW e \in EntityIds PROVE EntityInv(e)'
    <2>1. entity[e].type \in Types /\ entity[e].number \in Nat
      BY DEF TypeOK, EntityRow
    <2>2. CASE entity[e].owner = t
      BY <1>3, <2>2 DEF EntityInv, Used, UnusedEntity
    <2>3. CASE entity[e].owner # t /\ ~Used(e)
      BY <1>3, <2>3 DEF Ledgered, EntityInv, Used
    <2>4. CASE entity[e].owner # t /\ Used(e) /\ pattern[entity[e].type].lock # t
      BY <1>2, <1>3, <2>1, <2>4 DEF Ledgered, EntityInv, Used
    <2>5. CASE entity[e].owner # t /\ Used(e) /\ pattern[entity[e].type].lock = t
      <3>1. /\ entity'[e] = entity[e]
            /\ pattern'[entity[e].type].next = pattern[entity[e].type].next
            /\ pattern'[entity[e].type].newNext = pattern[entity[e].type].next
        BY <1>2, <1>3, <2>1, <2>5
      <3>2. entity[e].state = "saved"
        BY <2>5 DEF Ledgered, EntityInv, Used, TypeOK, EntityRow
      <3>3. /\ entity[e].owner = NoTx
            /\ entity[e].number < pattern[entity[e].type].next
            /\ entity[e].number >= 1
            /\ pattern[entity[e].type].next \in Int
        BY <2>1, <2>5, <3>2
           DEF Ledgered, EntityInv, TypeOK, PatternRow, Numbers
      <3> QED BY <2>1, <2>5, <3>1, <3>2, <3>3 DEF EntityInv, Used
    <2> QED BY <2>2, <2>3, <2>4, <2>5
  <1>6. \A e \in EntityIds : Used(e)' => entity'[e] = entity[e] /\ Used(e)
    BY <1>3 DEF Used, UnusedEntity
  <1>7. Distinct'
    BY <1>6 DEF Ledgered, Distinct
  <1>8. ASSUME NEW k \in Rendering, NEW n \in 1..(pattern'[k].newNext - 1)
        PROVE  \E e \in EntityIds :
                  Used(e)' /\ entity'[e].type = k /\ entity'[e].number = n
    <2>1. /\ pattern[k].next \in Int /\ pattern[k].newNext \in Int
          /\ pattern[k].next <= pattern[k].newNext /\ k \in Types
      BY DEF Ledgered, RowInv, TypeOK, PatternRow, Numbers, Rendering
    <2>2. n \in 1..(pattern[k].newNext - 1)
      BY <1>2, <1>8, <2>1
    <2>3. PICK e \in EntityIds :
             Used(e) /\ entity[e].type = k /\ entity[e].number = n
      BY <1>8, <2>2 DEF Ledgered, NoGap
    <2>4. entity[e].owner # t
      <3>1. CASE pattern[k].lock # t
        BY <2>3, <3>1, EndOfEntities
      <3>2. CASE pattern[k].lock = t
        <4>1. n < pattern[k].next
          BY <1>2, <1>8, <2>1, <3>2
        <4>2. entity[e].state = "saved"
          BY <2>3, <4>1 DEF Ledgered, EntityInv
        <4> QED BY <4>2, EndOfEntities
      <3> QED BY <3>1, <3>2
    <2> QED BY <1>3, <2>3, <2>4 DEF Used
  <1>9. NoGap'
    BY <1>8 DEF NoGap
  <1>10. \A q \in Requests : RequestInv(q)'
    BY <1>2, OtherRequests DEF Undo
  <1> QED BY <1>4, <1>5, <1>7, <1>9, <1>10 DEF Ledgered

LEMMA LedgeredStep == TypeOK /\ Renders /\ Ledgered /\ [Next]_vars => Ledgered'
  <1> SUFFICES ASSUME TypeOK, Renders, Ledgered, [Next]_vars PROVE Ledgered'
    OBVIOUS
  <1>1. ASSUME NEW t \in Requests, Begin(t) PROVE Ledgered'
    <2>1. request'[t].pc = "select" /\ \A q \in Requests \ {t} : request'[q] = request[q]
      BY <1>1 DEF Begin, Wanting, TypeOK
    <2> QED BY <1>1, <2>1, RequestOnly DEF Begin
  <1>2. ASSUME NEW t \in Requests, SelectPattern(t) PROVE Ledgered'
    <2>1. PICK k \in Types : k = request[t].type
      BY DEF TypeOK, RequestState
    <2>2. CASE request' = [request EXCEPT ![t].pc = "seed"] /\ UNCHANGED pattern
      <3>1. request'[t].pc = "seed" /\ \A q \in Requests \ {t} : request'[q] = request[q]
        BY <2>2 DEF TypeOK, RequestState
      <3> QED BY <1>2, <2>2, <3>1, RequestOnly DEF SelectPattern
    <2>3. CASE /\ pattern[k].state = "present" /\ pattern[k].lock = NoTx
               /\ pattern' = [pattern EXCEPT ![k].lock = t]
               /\ Loaded(t, pattern[k].next, pattern[k].format)
      <3>1. [pattern[k] EXCEPT !.lock = t] \in PatternRow
        BY DEF TypeOK, PatternRow
      <3>2. PICK new \in PatternRow :
               /\ new.lock = t /\ new.state = pattern[k].state
               /\ new.next = pattern[k].next /\ new.newNext = pattern[k].newNext
               /\ pattern' = [pattern EXCEPT ![k] = new]
        BY <2>3, <3>1 DEF TypeOK, PatternRow
      <3>3. /\ request'[t].type = k /\ request'[t].next = pattern[k].next
            /\ \A q \in Requests \ {t} : request'[q] = request[q]
        BY <2>1, <2>3 DEF Loaded, Holding, TypeOK
      <3>4. pattern[k].newNext = pattern[k].next
        BY <2>3 DEF Ledgered, RowInv
      <3>5. pattern[k].lock \in {NoTx, t} /\ UNCHANGED entity
        BY <1>2, <2>3 DEF SelectPattern
      <3>6. /\ new.state = "present"
            /\ request'[t].next = new.newNext
        BY <2>3, <3>2, <3>3, <3>4
      <3> QED BY <3>2, <3>3, <3>5, <3>6, RowLocked
    <2> QED BY <1>2, <2>1, <2>2, <2>3 DEF SelectPattern
  <1>3. ASSUME NEW t \in Requests, SeedPattern(t) PROVE Ledgered'
    <2>1. PICK k \in Types : k = request[t].type
      BY DEF TypeOK, RequestState
    <2>2. CASE request' = [request EXCEPT ![t].pc = "select"] /\ UNCHANGED pattern
      <3>1. request'[t].pc = "select" /\ \A q \in Requests \ {t} : request'[q] = request[q]
        BY <2>2 DEF TypeOK, RequestState
      <3> QED BY <1>3, <2>2, <3>1, RequestOnly DEF SeedPattern
    <2>3. CASE /\ pattern[k].state = "absent"
               /\ pattern' = [pattern EXCEPT ![k] = SeededRow(t)]
               /\ Loaded(t, 1, DefaultFormat)
      <3>1. PICK new \in PatternRow :
               /\ new = SeededRow(t) /\ new.lock = t /\ new.state = "pending"
               /\ new.next = 1 /\ new.newNext = 1
        BY RowTypes DEF SeededRow
      <3>2. /\ request'[t].type = k /\ request'[t].next = 1
            /\ \A q \in Requests \ {t} : request'[q] = request[q]
        BY <2>1, <2>3 DEF Loaded, Holding, TypeOK
      <3>3. pattern[k].next = 1 /\ pattern[k].newNext = 1 /\ pattern[k].lock = NoTx
        BY <2>3 DEF Ledgered, RowInv, AbsentPattern
      <3> QED BY <1>3, <2>3, <3>1, <3>2, <3>3, RowLocked DEF SeedPattern
    <2> QED BY <1>3, <2>1, <2>2, <2>3 DEF SeedPattern
  <1>4. ASSUME NEW t \in Requests, CreateEntity(t) PROVE Ledgered'
    BY <1>4, EntityCreated
  <1>5. ASSUME NEW t \in Requests, SetPattern(t) PROVE Ledgered'
    <2>1. PICK k \in Types, f \in Formats :
             /\ k = request[t].type
             /\ pattern' = [pattern EXCEPT
                               ![k] = Updated(t, k, f, pattern[k].newNext)]
      BY <1>5 DEF SetPattern, TypeOK, RequestState
    <2>2. pattern[k].lock = t
      BY <1>5, <2>1 DEF SetPattern, Ledgered, RequestInv
    <2>3. pattern[k].newNext \in Numbers
      BY DEF TypeOK, PatternRow
    <2>4. PICK new \in PatternRow :
             /\ new = Updated(t, k, f, pattern[k].newNext)
             /\ new.lock = t /\ new.state = pattern[k].state
             /\ new.next = pattern[k].next /\ new.newNext = pattern[k].newNext
      BY <2>3, UpdatedType DEF Updated
    <2>5. pattern[k].state # "absent" /\ (pattern[k].state = "pending" => pattern[k].next = 1)
      BY <2>2, TxAssumption DEF Ledgered, RowInv, AbsentPattern
    <2>6. /\ request'[t].type = k /\ request'[t].op = "configure"
          /\ \A q \in Requests \ {t} : request'[q] = request[q]
      BY <1>5, <2>1 DEF SetPattern, TypeOK, RequestState
    <2> QED BY <1>5, <2>1, <2>2, <2>4, <2>5, <2>6, RowLocked DEF SetPattern, Creating
  <1>6. ASSUME NEW t \in Requests, ListNext(t) PROVE Ledgered'
    <2>1. request'[t].op = "list" /\ \A q \in Requests \ {t} : request'[q] = request[q]
      BY <1>6 DEF ListNext, Wanting, TypeOK, RequestState
    <2> QED BY <1>6, <2>1, RequestOnly DEF ListNext
  <1>7. ASSUME NEW t \in Requests, Commit(t) PROVE Ledgered'
    BY <1>7, Committing
  <1>8. ASSUME NEW t \in Requests, Undo(t) PROVE Ledgered'
    BY <1>8, RollingBack
  <1>10. ASSUME NEW t \in Requests, ImportFails(t) PROVE Ledgered'
    BY <1>10, NumberSkipped
  <1>9. CASE UNCHANGED vars
    <2>1. UNCHANGED <<pattern, entity, request>>
      BY <1>9 DEF vars
    <2>2. (\A k \in Types : RowInv(k))' /\ (\A e \in EntityIds : EntityInv(e))'
      BY <2>1 DEF Ledgered, RowInv, EntityInv, Used
    <2>3. Distinct' /\ NoGap' /\ (\A q \in Requests : RequestInv(q))'
      BY <2>1 DEF Ledgered, Distinct, NoGap, Used, RequestInv
    <2> QED BY <2>2, <2>3 DEF Ledgered
  <1> QED
    BY <1>1, <1>2, <1>3, <1>4, <1>5, <1>6, <1>7, <1>8, <1>9, <1>10
       DEF Next, Step, CreateFails, RollBack

LEMMA LedgeredInit == Init => Ledgered
  BY DEF Init, Ledgered, RowInv, EntityInv, Used, Distinct, NoGap, RequestInv, Rendering,
         AbsentPattern, UnusedEntity, Idle

\* Two committed entities of a type never carry the same number, however many
\* requests race on the counter or on its bootstrap and however they end
\* (identifiers/service.py, generate_reference).
THEOREM Unique == Spec => []NumberUnique
  <1>1. Ledgered => NumberUnique
    BY DEF Ledgered, Distinct, Used, NumberUnique, Saved
  <1> QED
    BY <1>1, TypeInit, TypeStep, RendersInit, RendersStep, LedgeredInit, LedgeredStep, PTL
       DEF Spec

\* The committed numbers of a type whose patterns render are 1 .. next_sequence - 1: a
\* rollback takes its counter update with it, so no number is lost.
THEOREM NoNumberLost == Spec => []GapFree
  <1>1. TypeOK /\ Ledgered => GapFree
    <2> SUFFICES ASSUME TypeOK, Ledgered, NEW k \in Rendering, k \in Types
                 PROVE  {entity[e].number : e \in Saved(k)} = 1..(pattern[k].next - 1)
      BY DEF GapFree, Rendering
    <2>1. /\ pattern[k].next \in Int /\ pattern[k].newNext \in Int
          /\ pattern[k].next <= pattern[k].newNext
      BY DEF Ledgered, RowInv, TypeOK, PatternRow, Numbers
    <2>2. ASSUME NEW e \in Saved(k)
          PROVE  entity[e].number \in 1..(pattern[k].next - 1)
      <3>1. Used(e) /\ entity[e].type = k /\ entity[e].state = "saved" /\ e \in EntityIds
        BY DEF Saved, Used
      <3>2. /\ entity[e].number \in 1..(pattern[k].newNext - 1)
            /\ entity[e].number < pattern[k].next
        BY <3>1 DEF Ledgered, EntityInv
      <3> QED BY <2>1, <3>2
    <2>3. ASSUME NEW n \in 1..(pattern[k].next - 1)
          PROVE  \E e \in Saved(k) : entity[e].number = n
      <3>1. n \in 1..(pattern[k].newNext - 1) /\ n < pattern[k].next
        BY <2>1
      <3>2. PICK e \in EntityIds :
               Used(e) /\ entity[e].type = k /\ entity[e].number = n
        BY <3>1 DEF Ledgered, NoGap
      <3>3. entity[e].state = "saved"
        BY <3>1, <3>2 DEF Ledgered, EntityInv
      <3> QED BY <3>2, <3>3 DEF Saved
    <2> QED BY <2>2, <2>3
  <1> QED
    BY <1>1, TypeInit, TypeStep, RendersInit, RendersStep, LedgeredInit, LedgeredStep, PTL
       DEF Spec

------------------------------------------------------------------------------
(***************************************************************************)
(* That the engine implements ReferenceLedger, and that an entity is named *)
(* by the pattern in force when it is committed: for every number of       *)
(* requests, entity types, keys and patterns.                              *)
(*                                                                         *)
(* A transaction may hold the rows of several types (list does), so a      *)
(* commit might publish new numbers of several types and enter several     *)
(* pages of the ledger at once.  It does not, because only a creating      *)
(* transaction moves a counter, and it holds one row (OneWriter); the same *)
(* fact keeps the format of what it created (PendingOwned).                *)
(***************************************************************************)

Owns(t, k) == /\ request[t].pc \in {"locked", "done"}
              /\ request[t].op \in Creating
              /\ request[t].type = k

OneWriter ==
    \A k \in Types :
        pattern[k].newNext # pattern[k].next
        => \E t \in Requests : pattern[k].lock = t /\ Owns(t, k)

OwnFormat ==
    \A t \in Requests, k \in Types : Owns(t, k) => request[t].format = pattern[k].newFormat

FreeRows == \A k \in Types : pattern[k].lock = NoTx => pattern[k].newFormat = pattern[k].format

PendingOwned ==
    \A e \in EntityIds, k \in Types :
        entity[e].state = "pending" /\ entity[e].type = k
        => \E t \in Requests : entity[e].owner = t /\ Owns(t, k)
                            /\ entity[e].format = pattern[k].newFormat

Written == OneWriter /\ OwnFormat /\ FreeRows /\ PendingOwned

-----------------------------------------------------------------------------
LEMMA WrittenInit == Init => Written
  BY TxAssumption
     DEF Init, Written, OneWriter, OwnFormat, FreeRows, PendingOwned, Owns, AbsentPattern,
         UnusedEntity, Idle

\* Who owns a row has locked it.
LEMMA OwnsLocks ==
    ASSUME Ledgered, NEW t \in Requests, NEW k \in Types, Owns(t, k)
    PROVE  pattern[k].lock = t
  BY DEF Ledgered, RequestInv, Owns, Creating

\* A step of a request that creates nothing, before or after it, and leaves the tables.
LEMMA NothingWritten ==
    ASSUME Written, NEW t \in Requests, UNCHANGED <<pattern, entity>>,
           \A q \in Requests \ {t} : request'[q] = request[q],
           \A k \in Types : ~Owns(t, k) /\ ~Owns(t, k)'
    PROVE  Written'
  <1>1. \A q \in Requests, k \in Types : Owns(q, k)' <=> Owns(q, k)
    BY DEF Owns
  <1>2. OneWriter' /\ FreeRows'
    BY <1>1 DEF Written, OneWriter, FreeRows
  <1>3. OwnFormat'
    BY DEF Written, OwnFormat, Owns
  <1>4. PendingOwned'
    BY <1>1 DEF Written, PendingOwned, Owns
  <1> QED BY <1>2, <1>3, <1>4 DEF Written

\* A request that created nothing so far locks a free row, or writes the format of its own.
LEMMA RowTaken ==
    ASSUME TypeOK, Ledgered, Written, NEW t \in Requests, NEW k \in Types,
           pattern[k].lock \in {NoTx, t}, \A j \in Types : ~Owns(t, j),
           NEW new, new.lock = t, new.next = pattern[k].next, new.newNext = pattern[k].newNext,
           pattern' = [pattern EXCEPT ![k] = new], UNCHANGED entity,
           \A q \in Requests \ {t} : request'[q] = request[q],
           \A j \in Types : Owns(t, j)' => j = k /\ request'[t].format = new.newFormat
    PROVE  Written'
  <1>1. pattern'[k] = new /\ \A j \in Types \ {k} : pattern'[j] = pattern[j]
    BY DEF TypeOK
  <1>2. pattern[k].newNext = pattern[k].next
    BY DEF Ledgered, RowInv, Written, OneWriter
  <1>3. \A q \in Requests \ {t}, j \in Types : Owns(q, j)' <=> Owns(q, j)
    BY DEF Owns
  <1>4. \A q \in Requests : ~Owns(q, k)
    BY OwnsLocks, TxAssumption
  <1>5. OneWriter'
    BY <1>1, <1>2, <1>3 DEF Written, OneWriter
  <1>6. OwnFormat'
    <2> SUFFICES ASSUME NEW q \in Requests, NEW j \in Types, Owns(q, j)'
                 PROVE  request'[q].format = pattern'[j].newFormat
      BY DEF OwnFormat
    <2>1. CASE q = t
      BY <2>1, <1>1
    <2>2. CASE q # t
      BY <2>2, <1>1, <1>3, <1>4 DEF Written, OwnFormat
    <2> QED BY <2>1, <2>2
  <1>7. FreeRows'
    BY <1>1, TxAssumption DEF Written, FreeRows
  <1>8. PendingOwned'
    <2> SUFFICES ASSUME NEW e \in EntityIds, NEW j \in Types,
                        entity[e].state = "pending", entity[e].type = j
                 PROVE  \E q \in Requests : entity[e].owner = q /\ Owns(q, j)'
                                         /\ entity[e].format = pattern'[j].newFormat
      BY DEF PendingOwned
    <2>1. PICK q \in Requests : entity[e].owner = q /\ Owns(q, j)
                             /\ entity[e].format = pattern[j].newFormat
      BY DEF Written, PendingOwned
    <2> QED BY <2>1, <1>1, <1>3, <1>4
  <1> QED BY <1>5, <1>6, <1>7, <1>8 DEF Written

\* A creating request moves the counter of its row, and may create an entity.
LEMMA CounterMoved ==
    ASSUME TypeOK, Ledgered, Written, NEW t \in Requests, NEW k \in Types, Owns(t, k), Owns(t, k)',
           NEW new, new.lock = t, new.newFormat = pattern[k].newFormat,
           pattern' = [pattern EXCEPT ![k] = new],
           request'[t].format = request[t].format,
           \A q \in Requests \ {t} : request'[q] = request[q],
           \A e \in EntityIds :
              \/ entity'[e] = entity[e]
              \/ /\ entity'[e].owner = t /\ entity'[e].type = k
                 /\ entity'[e].format = request[t].format
    PROVE  Written'
  <1>1. pattern'[k] = new /\ \A j \in Types \ {k} : pattern'[j] = pattern[j]
    BY DEF TypeOK
  <1>2. \A q \in Requests, j \in Types : Owns(q, j)' <=> Owns(q, j)
    BY DEF Owns
  <1>3. \A j \in Types : pattern'[j].newFormat = pattern[j].newFormat
    BY <1>1
  <1>4. OneWriter'
    BY <1>1, <1>2 DEF Written, OneWriter
  <1>5. OwnFormat'
    BY <1>2, <1>3 DEF Written, OwnFormat, Owns
  <1>6. FreeRows'
    BY <1>1, TxAssumption DEF Written, FreeRows
  <1>7. PendingOwned'
    <2> SUFFICES ASSUME NEW e \in EntityIds, NEW j \in Types,
                        entity'[e].state = "pending", entity'[e].type = j
                 PROVE  \E q \in Requests : entity'[e].owner = q /\ Owns(q, j)'
                                         /\ entity'[e].format = pattern'[j].newFormat
      BY DEF PendingOwned
    <2>1. CASE entity'[e] = entity[e]
      BY <2>1, <1>2, <1>3 DEF Written, PendingOwned
    <2>2. CASE /\ entity'[e].owner = t /\ entity'[e].type = k
               /\ entity'[e].format = request[t].format
      <3>1. request[t].format = pattern'[k].newFormat
        BY <1>3 DEF Written, OwnFormat
      <3> QED BY <2>2, <3>1
    <2> QED BY <2>1, <2>2
  <1> QED BY <1>4, <1>5, <1>6, <1>7 DEF Written

\* The transaction ends: its rows are free and its entities are no longer pending.
LEMMA TransactionEnds ==
    ASSUME TypeOK, Ledgered, Written, NEW t \in Requests,
           request' = [request EXCEPT ![t] = Idle],
           \/ pattern' = CommittedPatterns(t) /\ entity' = CommittedEntities(t)
           \/ pattern' = RolledBackPatterns(t) /\ entity' = RolledBackEntities(t)
    PROVE  Written'
  <1>1. \A k \in Types : /\ pattern[k].lock # t => pattern'[k] = pattern[k]
                         /\ pattern[k].lock = t => /\ pattern'[k].newNext = pattern'[k].next
                                                   /\ pattern'[k].newFormat = pattern'[k].format
    BY EndOfRows DEF CommittedPatterns, RolledBackPatterns, AbsentPattern
  <1>2. \A e \in EntityIds : /\ entity[e].owner # t => entity'[e] = entity[e]
                             /\ entity[e].owner = t => entity'[e].state # "pending"
    BY EndOfEntities DEF UnusedEntity
  <1>3. /\ request'[t].pc = "idle" /\ \A q \in Requests \ {t} : request'[q] = request[q]
    BY DEF Idle, TypeOK
  <1>4. \A q \in Requests, k \in Types : Owns(q, k)' => q # t /\ Owns(q, k)
    BY <1>3 DEF Owns
  <1>5. \A q \in Requests \ {t}, k \in Types : Owns(q, k) => Owns(q, k)' /\ pattern[k].lock # t
    BY <1>3, OwnsLocks DEF Owns
  <1>6. OneWriter'
    BY <1>1, <1>5 DEF Written, OneWriter
  <1>7. OwnFormat'
    BY <1>1, <1>3, <1>4, <1>5 DEF Written, OwnFormat
  <1>8. FreeRows'
    BY <1>1 DEF Written, FreeRows
  <1>9. PendingOwned'
    <2> SUFFICES ASSUME NEW e \in EntityIds, NEW j \in Types,
                        entity'[e].state = "pending", entity'[e].type = j
                 PROVE  \E q \in Requests : entity'[e].owner = q /\ Owns(q, j)'
                                         /\ entity'[e].format = pattern'[j].newFormat
      BY DEF PendingOwned
    <2>1. entity[e].owner # t /\ entity'[e] = entity[e]
      BY <1>2
    <2>2. PICK q \in Requests : entity[e].owner = q /\ Owns(q, j)
                             /\ entity[e].format = pattern[j].newFormat
      BY <2>1 DEF Written, PendingOwned
    <2> QED BY <2>1, <2>2, <1>1, <1>5
  <1> QED BY <1>6, <1>7, <1>8, <1>9 DEF Written

LEMMA WrittenStep == TypeOK /\ Ledgered /\ Written /\ [Next]_vars => Written'
  <1> SUFFICES ASSUME TypeOK, Ledgered, Written, [Next]_vars PROVE Written'
    OBVIOUS
  <1>1. ASSUME NEW t \in Requests, Begin(t) PROVE Written'
    <2>1. /\ request[t].pc = "idle" /\ request'[t].pc = "select" /\ UNCHANGED <<pattern, entity>>
          /\ \A q \in Requests \ {t} : request'[q] = request[q]
      BY <1>1 DEF Begin, Wanting, TypeOK
    <2> QED BY <2>1, NothingWritten DEF Owns
  <1>2. ASSUME NEW t \in Requests, SelectPattern(t) PROVE Written'
    <2>1. PICK k \in Types : k = request[t].type
      BY DEF TypeOK, RequestState
    <2>2. request[t].pc = "select" /\ UNCHANGED entity /\ \A j \in Types : ~Owns(t, j)
      BY <1>2 DEF SelectPattern, Owns
    <2>3. CASE request' = [request EXCEPT ![t].pc = "seed"] /\ UNCHANGED pattern
      <3>1. request'[t].pc = "seed" /\ \A q \in Requests \ {t} : request'[q] = request[q]
        BY <2>3 DEF TypeOK, RequestState
      <3> QED BY <2>2, <2>3, <3>1, NothingWritten DEF Owns
    <2>4. CASE /\ pattern[k].state = "present" /\ pattern[k].lock = NoTx
               /\ pattern' = [pattern EXCEPT ![k].lock = t]
               /\ Loaded(t, pattern[k].next, pattern[k].format)
      <3>1. PICK new : /\ new.lock = t /\ new.newFormat = pattern[k].newFormat
                       /\ new.next = pattern[k].next /\ new.newNext = pattern[k].newNext
                       /\ pattern' = [pattern EXCEPT ![k] = new]
        <4>1. PICK new : new = [pattern[k] EXCEPT !.lock = t]
          OBVIOUS
        <4> QED BY <2>4, <4>1 DEF TypeOK, PatternRow
      <3>2. /\ request'[t].type = k /\ request'[t].format = pattern[k].format
            /\ \A q \in Requests \ {t} : request'[q] = request[q]
        BY <2>1, <2>4 DEF Loaded, Holding, TypeOK
      <3>3. pattern[k].newFormat = pattern[k].format
        BY <2>4 DEF Written, FreeRows
      <3>4. \A j \in Types : Owns(t, j)' => j = k /\ request'[t].format = new.newFormat
        BY <3>1, <3>2, <3>3 DEF Owns
      <3>5. pattern[k].lock \in {NoTx, t}
        BY <2>4
      <3> QED BY <2>2, <3>1, <3>2, <3>4, <3>5, RowTaken
    <2> QED BY <1>2, <2>1, <2>3, <2>4 DEF SelectPattern
  <1>3. ASSUME NEW t \in Requests, SeedPattern(t) PROVE Written'
    <2>1. PICK k \in Types : k = request[t].type
      BY DEF TypeOK, RequestState
    <2>2. request[t].pc = "seed" /\ UNCHANGED entity /\ \A j \in Types : ~Owns(t, j)
      BY <1>3 DEF SeedPattern, Owns
    <2>3. CASE request' = [request EXCEPT ![t].pc = "select"] /\ UNCHANGED pattern
      <3>1. request'[t].pc = "select" /\ \A q \in Requests \ {t} : request'[q] = request[q]
        BY <2>3 DEF TypeOK, RequestState
      <3> QED BY <2>2, <2>3, <3>1, NothingWritten DEF Owns
    <2>4. CASE /\ pattern[k].state = "absent"
               /\ pattern' = [pattern EXCEPT ![k] = SeededRow(t)]
               /\ Loaded(t, 1, DefaultFormat)
      <3>1. pattern[k].next = 1 /\ pattern[k].newNext = 1 /\ pattern[k].lock = NoTx
        BY <2>4 DEF Ledgered, RowInv, AbsentPattern
      <3>2. PICK new : /\ new = SeededRow(t) /\ new.lock = t /\ new.newFormat = DefaultFormat
                       /\ new.next = 1 /\ new.newNext = 1
        <4>1. PICK new : new = SeededRow(t)
          OBVIOUS
        <4> QED BY <4>1 DEF SeededRow
      <3>3. /\ request'[t].type = k /\ request'[t].format = DefaultFormat
            /\ \A q \in Requests \ {t} : request'[q] = request[q]
        BY <2>1, <2>4 DEF Loaded, Holding, TypeOK
      <3>4. \A j \in Types : Owns(t, j)' => j = k
        BY <3>3 DEF Owns
      <3> QED BY <2>2, <2>4, <3>1, <3>2, <3>3, <3>4, RowTaken
    <2> QED BY <1>3, <2>1, <2>3, <2>4 DEF SeedPattern
  <1>4. ASSUME NEW t \in Requests, CreateEntity(t) PROVE Written'
    <2>1. PICK k \in Types, n \in Numbers :
             /\ k = request[t].type /\ n = request[t].next /\ Owns(t, k)
             /\ pattern' = [pattern EXCEPT ![k] = Updated(t, k, pattern[k].newFormat, n + 1)]
             /\ request' = [request EXCEPT ![t] = Holding(t, "done", n + 1, request[t].format)]
      BY <1>4 DEF CreateEntity, TypeOK, RequestState, Owns, Creating
    <2>2. PICK new : /\ new = Updated(t, k, pattern[k].newFormat, n + 1)
                     /\ new.lock = t /\ new.newFormat = pattern[k].newFormat
      <3>1. PICK new : new = Updated(t, k, pattern[k].newFormat, n + 1)
        OBVIOUS
      <3> QED BY <3>1 DEF Updated
    <2>3. /\ request'[t].format = request[t].format /\ Owns(t, k)'
          /\ \A q \in Requests \ {t} : request'[q] = request[q]
      BY <2>1 DEF Holding, TypeOK, Owns
    <2>4. \A e \in EntityIds :
              \/ entity'[e] = entity[e]
              \/ /\ entity'[e].owner = t /\ entity'[e].type = k
                 /\ entity'[e].format = request[t].format
      BY <1>4, <2>1 DEF CreateEntity, TypeOK
    <2> QED BY <2>1, <2>2, <2>3, <2>4, CounterMoved
  <1>5. ASSUME NEW t \in Requests, ImportFails(t) PROVE Written'
    <2>1. PICK k \in Types, n \in Numbers :
             /\ k = request[t].type /\ n = request[t].next /\ Owns(t, k)
             /\ pattern' = [pattern EXCEPT ![k] = Updated(t, k, pattern[k].newFormat, n + 1)]
             /\ request' = [request EXCEPT ![t] = Holding(t, "done", n + 1, request[t].format)]
             /\ UNCHANGED entity
      BY <1>5 DEF ImportFails, TypeOK, RequestState, Owns, Creating
    <2>2. PICK new : /\ new = Updated(t, k, pattern[k].newFormat, n + 1)
                     /\ new.lock = t /\ new.newFormat = pattern[k].newFormat
      <3>1. PICK new : new = Updated(t, k, pattern[k].newFormat, n + 1)
        OBVIOUS
      <3> QED BY <3>1 DEF Updated
    <2>3. /\ request'[t].format = request[t].format /\ Owns(t, k)'
          /\ \A q \in Requests \ {t} : request'[q] = request[q]
      BY <2>1 DEF Holding, TypeOK, Owns
    <2> QED BY <2>1, <2>2, <2>3, CounterMoved
  <1>6. ASSUME NEW t \in Requests, SetPattern(t) PROVE Written'
    <2>1. PICK k \in Types, f \in Formats :
             /\ k = request[t].type
             /\ pattern' = [pattern EXCEPT ![k] = Updated(t, k, f, pattern[k].newNext)]
      BY <1>6 DEF SetPattern, TypeOK, RequestState
    <2>2. PICK new : /\ new = Updated(t, k, f, pattern[k].newNext) /\ new.lock = t
                     /\ new.next = pattern[k].next /\ new.newNext = pattern[k].newNext
      <3>1. PICK new : new = Updated(t, k, f, pattern[k].newNext)
        OBVIOUS
      <3> QED BY <3>1 DEF Updated
    <2>3. /\ request[t].op = "configure" /\ request'[t].op = "configure" /\ UNCHANGED entity
          /\ pattern[k].lock \in {NoTx, t}
          /\ \A q \in Requests \ {t} : request'[q] = request[q]
      BY <1>6, <2>1 DEF SetPattern, TypeOK, RequestState
    <2>4. \A j \in Types : ~Owns(t, j) /\ ~Owns(t, j)'
      BY <2>3 DEF Owns, Creating
    <2> QED BY <2>1, <2>2, <2>3, <2>4, RowTaken
  <1>7. ASSUME NEW t \in Requests, ListNext(t) PROVE Written'
    <2>1. /\ request[t].op = "list" /\ request'[t].op = "list" /\ UNCHANGED <<pattern, entity>>
          /\ \A q \in Requests \ {t} : request'[q] = request[q]
      BY <1>7 DEF ListNext, Wanting, TypeOK, RequestState
    <2> QED BY <2>1, NothingWritten DEF Owns, Creating
  <1>8. ASSUME NEW t \in Requests, Commit(t) \/ Undo(t) PROVE Written'
    BY <1>8, TransactionEnds DEF Commit, Undo
  <1>9. CASE UNCHANGED vars
    BY <1>9 DEF vars, Written, OneWriter, OwnFormat, FreeRows, PendingOwned, Owns
  <1> QED
    BY <1>1, <1>2, <1>3, <1>4, <1>5, <1>6, <1>7, <1>8, <1>9
       DEF Next, Step, CreateFails, RollBack

-----------------------------------------------------------------------------
(***************************************************************************)
(* What one step publishes.                                                *)
(***************************************************************************)

NumberedSame(j) == pattern'[j].next = pattern[j].next

\* What is saved stays, and what becomes saved was pending and has the format in force.
Published ==
    \A e \in EntityIds :
        /\ entity[e].state = "saved" => entity'[e] = entity[e]
        /\ entity[e].state = "pending" /\ entity'[e].state = "saved"
           => entity'[e].format = pattern'[entity[e].type].format

\* Only the counter of one type moves, and it moves up.
OneType ==
    \E k \in Types : /\ pattern[k].next <= pattern'[k].next
                     /\ \A j \in Types \ {k} : NumberedSame(j)

LEMMA NothingPublished ==
    ASSUME TypeOK, \A k \in Types : NumberedSame(k),
           \A e \in EntityIds : entity'[e] = entity[e] \/ (entity[e].state # "saved" /\ entity'[e].state # "saved")
    PROVE  Published /\ OneType
  <1>1. Published
    BY DEF Published
  <1>2. 1 \in Types /\ \A k \in Types : pattern[k].next <= pattern'[k].next
    BY NumTypesAssumption DEF TypeOK, PatternRow, NumberedSame, Numbers, Types
  <1> QED BY <1>1, <1>2 DEF OneType

LEMMA CommitPublishes ==
    ASSUME TypeOK, Ledgered, Written, NEW t \in Requests, Commit(t)
    PROVE  Published /\ OneType
  <1>1. pattern' = CommittedPatterns(t) /\ entity' = CommittedEntities(t)
    BY DEF Commit
  <1>2. \A k \in Types : /\ pattern[k].lock # t => pattern'[k] = pattern[k]
                         /\ pattern[k].lock = t => /\ pattern'[k].next = pattern[k].newNext
                                                   /\ pattern'[k].format = pattern[k].newFormat
    BY <1>1, EndOfRows DEF CommittedPatterns
  <1>3. ASSUME NEW e \in EntityIds, entity[e].state = "saved" PROVE entity'[e] = entity[e]
    BY <1>1, <1>3, EndOfEntities
  <1>4. ASSUME NEW e \in EntityIds, entity[e].state = "pending", entity'[e].state = "saved"
        PROVE  entity'[e].format = pattern'[entity[e].type].format
    <2>1. PICK k \in Types : k = entity[e].type
      BY DEF TypeOK, EntityRow
    <2>2. entity[e].owner = t
      BY <1>1, <1>4, EndOfEntities
    <2>3. pattern[k].lock = t /\ entity'[e].format = entity[e].format
      BY <1>1, <2>1, <2>2, EndOfEntities DEF CommittedEntities
    <2>4. entity[e].format = pattern[k].newFormat
      BY <1>4, <2>1 DEF Written, PendingOwned
    <2> QED BY <1>2, <2>1, <2>3, <2>4
  <1>5. OneType
    <2>1. \A k \in Types : pattern[k].next <= pattern'[k].next
      BY <1>2 DEF Ledgered, RowInv, TypeOK, PatternRow, Numbers
    <2>2. PICK k \in Types : k = request[t].type
      BY DEF TypeOK, RequestState
    <2>3. ASSUME NEW j \in Types \ {k} PROVE NumberedSame(j)
      <3>1. CASE pattern[j].lock # t
        BY <1>2, <3>1 DEF NumberedSame
      <3>2. CASE pattern[j].lock = t
        <4>1. pattern[j].newNext = pattern[j].next
          BY <2>2, <3>2 DEF Written, OneWriter, Owns
        <4> QED BY <1>2, <3>2, <4>1 DEF NumberedSame
      <3> QED BY <3>1, <3>2
    <2> QED BY <2>1, <2>3 DEF OneType
  <1> QED BY <1>3, <1>4, <1>5 DEF Published

LEMMA StepPublishes == TypeOK /\ Ledgered /\ Written /\ [Next]_vars => Published /\ OneType
  <1> SUFFICES ASSUME TypeOK, Ledgered, Written, [Next]_vars PROVE Published /\ OneType
    OBVIOUS
  <1>1. ASSUME NEW t \in Requests, Begin(t) \/ ListNext(t) PROVE Published /\ OneType
    BY <1>1, NothingPublished DEF Begin, ListNext, NumberedSame
  <1>2. ASSUME NEW t \in Requests, SelectPattern(t) PROVE Published /\ OneType
    <2>1. UNCHANGED entity /\ \A k \in Types : NumberedSame(k)
      BY <1>2 DEF SelectPattern, NumberedSame, TypeOK, PatternRow
    <2> QED BY <2>1, NothingPublished
  <1>3. ASSUME NEW t \in Requests, SeedPattern(t) PROVE Published /\ OneType
    <2>1. PICK k \in Types : k = request[t].type
      BY DEF TypeOK, RequestState
    <2>2. CASE UNCHANGED pattern
      BY <1>3, <2>2, NothingPublished DEF SeedPattern, NumberedSame
    <2>3. CASE pattern[k].state = "absent" /\ pattern' = [pattern EXCEPT ![k] = SeededRow(t)]
      <3>1. pattern[k].next = 1 /\ SeededRow(t).next = 1
        BY <2>3 DEF Ledgered, RowInv, AbsentPattern, SeededRow
      <3>2. \A j \in Types : NumberedSame(j)
        BY <2>3, <3>1 DEF NumberedSame, TypeOK
      <3> QED BY <1>3, <3>2, NothingPublished DEF SeedPattern
    <2> QED BY <1>3, <2>1, <2>2, <2>3 DEF SeedPattern
  <1>4. ASSUME NEW t \in Requests, CreateEntity(t) \/ ImportFails(t) \/ SetPattern(t)
        PROVE  Published /\ OneType
    <2>1. \A k \in Types : NumberedSame(k)
      <3>1. PICK k \in Types : k = request[t].type
        BY DEF TypeOK, RequestState
      <3>2. \E f, n : pattern' = [pattern EXCEPT ![k] = Updated(t, k, f, n)]
        BY <1>4, <3>1 DEF CreateEntity, ImportFails, SetPattern
      <3>3. PICK f, n : pattern' = [pattern EXCEPT ![k] = Updated(t, k, f, n)]
        BY <3>2
      <3>4. Updated(t, k, f, n).next = pattern[k].next
        BY DEF Updated
      <3> QED BY <3>3, <3>4 DEF NumberedSame, TypeOK
    <2>2. \A e \in EntityIds : entity'[e] = entity[e]
              \/ (entity[e].state # "saved" /\ entity'[e].state # "saved")
      BY <1>4, NewKeyUnused DEF CreateEntity, ImportFails, SetPattern, TypeOK
    <2> QED BY <2>1, <2>2, NothingPublished
  <1>5. ASSUME NEW t \in Requests, Commit(t) PROVE Published /\ OneType
    BY <1>5, CommitPublishes
  <1>6. ASSUME NEW t \in Requests, Undo(t) PROVE Published /\ OneType
    <2>1. \A k \in Types : NumberedSame(k)
      BY <1>6, EndOfRows DEF Undo, NumberedSame
    <2>2. \A e \in EntityIds : entity'[e] = entity[e]
              \/ (entity[e].state # "saved" /\ entity'[e].state # "saved")
      BY <1>6, EndOfEntities DEF Undo, UnusedEntity
    <2> QED BY <2>1, <2>2, NothingPublished
  <1>7. CASE UNCHANGED vars
    BY <1>7, NothingPublished DEF vars, NumberedSame
  <1> QED
    BY <1>1, <1>2, <1>3, <1>4, <1>5, <1>6, <1>7 DEF Next, Step, CreateFails, RollBack

\* The three invariants together, as the theorems use them.
LEMMA Invariant == Spec => [](TypeOK /\ Ledgered /\ Written)
  BY TypeInit, TypeStep, RendersInit, RendersStep, LedgeredInit, LedgeredStep, WrittenInit,
     WrittenStep, PTL DEF Spec

\* An entity is named with the pattern in force when it is committed: a pattern change
\* cannot slip in between generate_reference and the commit.
THEOREM NamedInForce == Spec => NamedByCurrentPattern
  <1>1. TypeOK /\ Ledgered /\ Written /\ [Next]_vars =>
           [ \A e \in EntityIds :
               entity[e].state = "pending" /\ entity'[e].state = "saved"
               => entity'[e].format = pattern'[entity[e].type].format ]_vars
    BY StepPublishes DEF Published
  <1> QED BY <1>1, Invariant, PTL DEF Spec, NamedByCurrentPattern

-----------------------------------------------------------------------------
(***************************************************************************)
(* The refinement.                                                         *)
(***************************************************************************)

Book == [k \in Rendering |-> [n \in 1..(pattern[k].next - 1) |-> HolderOf(k, n)]]

\* Every page is written, by the one entity with that number.
PagesWritten ==
    \A k \in Rendering : \A n \in 1..(pattern[k].next - 1) :
        HolderOf(k, n) \in Saved(k) /\ entity[HolderOf(k, n)].number = n

LEMMA Pages == TypeOK /\ Ledgered => PagesWritten
  <1> SUFFICES ASSUME TypeOK, Ledgered, NEW k \in Rendering, NEW n \in 1..(pattern[k].next - 1)
               PROVE  HolderOf(k, n) \in Saved(k) /\ entity[HolderOf(k, n)].number = n
    BY DEF PagesWritten
  <1>1. /\ pattern[k].next \in Int /\ pattern[k].newNext \in Int
        /\ pattern[k].next <= pattern[k].newNext
    BY DEF Ledgered, RowInv, TypeOK, PatternRow, Numbers, Rendering
  <1>2. n \in 1..(pattern[k].newNext - 1) /\ n < pattern[k].next
    BY <1>1
  <1>3. PICK e \in EntityIds : Used(e) /\ entity[e].type = k /\ entity[e].number = n
    BY <1>2 DEF Ledgered, NoGap
  <1>4. e \in Saved(k)
    BY <1>2, <1>3 DEF Ledgered, EntityInv, Saved
  <1>5. HolderOf(k, n) = CHOOSE x \in Saved(k) : entity[x].number = n
    BY <1>3, <1>4 DEF HolderOf
  <1> QED BY <1>3, <1>4, <1>5

\* A page once written keeps its entity.
LEMMA PageKept ==
    ASSUME PagesWritten, PagesWritten', Ledgered', Published,
           NEW k \in Rendering, NEW n \in 1..(pattern[k].next - 1), n \in 1..(pattern'[k].next - 1)
    PROVE  HolderOf(k, n)' = HolderOf(k, n)
  <1>1. PICK e : e = HolderOf(k, n) /\ e \in Saved(k) /\ entity[e].number = n
    BY DEF PagesWritten
  <1>2. PICK f : f = HolderOf(k, n)' /\ f \in Saved(k)' /\ entity'[f].number = n
    BY DEF PagesWritten
  <1>3. /\ e \in EntityIds /\ entity'[e] = entity[e]
        /\ entity'[e].state = "saved" /\ entity'[e].type = k /\ entity'[e].number = n
    BY <1>1 DEF Published, Saved
  <1>4. f \in EntityIds /\ entity'[f].state = "saved" /\ entity'[f].type = k
    BY <1>2 DEF Saved
  <1>5. e = f
    BY <1>2, <1>3, <1>4 DEF Ledgered, Distinct, Used
  <1> QED BY <1>1, <1>2, <1>5

LEMMA PagesAreSeq ==
    ASSUME NEW S, NEW m \in Nat, NEW s \in [1..m -> S]
    PROVE  s \in Seq(S) /\ Len(s) = m
OBVIOUS

\* A longer book that keeps the pages of the old one begins with it.
LEMMA BeginsWith ==
    ASSUME NEW S, NEW old \in Seq(S), NEW new \in Seq(S), Len(old) <= Len(new),
           \A i \in 1..Len(old) : new[i] = old[i]
    PROVE  SubSeq(new, 1, Len(old)) = old
  <1>1. Len(old) \in Nat /\ Len(new) \in Nat
    BY LenProperties
  <1>2. \A i \in 1..Len(old) : new[i] \in S
    BY <1>1, ElementOfSeq
  <1>3. /\ SubSeq(new, 1, Len(old)) \in Seq(S)
        /\ Len(SubSeq(new, 1, Len(old))) = Len(old)
        /\ \A i \in 1..Len(old) : SubSeq(new, 1, Len(old))[i] = new[i]
    BY <1>1, <1>2, SubSeqProperties
  <1> QED BY <1>3, SeqEqual

LEMMA SameBook ==
    ASSUME PagesWritten, PagesWritten', Ledgered', Published, \A k \in Rendering : NumberedSame(k)
    PROVE  Book' = Book
  <1>1. \A k \in Rendering : \A n \in 1..(pattern[k].next - 1) : HolderOf(k, n)' = HolderOf(k, n)
    BY PageKept DEF NumberedSame
  <1>2. \A k \in Rendering : Book'[k] = Book[k]
    BY <1>1 DEF Book, NumberedSame
  <1> QED BY <1>2 DEF Book

LEMMA Issues ==
    ASSUME TypeOK, TypeOK', Ledgered', PagesWritten, PagesWritten', Published,
           NEW k \in Rendering, pattern[k].next < pattern'[k].next,
           \A j \in Rendering \ {k} : NumberedSame(j)
    PROVE  Ledger!Issue(k)
  <1>1. PICK m \in Nat, m2 \in Nat : m = pattern[k].next - 1 /\ m2 = pattern'[k].next - 1 /\ m < m2
    BY DEF TypeOK, PatternRow, Numbers, Rendering
  <1>2. PICK old, new : old = Book[k] /\ new = Book'[k]
    OBVIOUS
  <1>3. /\ old \in [1..m -> EntityIds] /\ \A n \in 1..m : old[n] = HolderOf(k, n)
    BY <1>1, <1>2 DEF Book, PagesWritten, Saved
  <1>4. /\ new \in [1..m2 -> EntityIds] /\ \A n \in 1..m2 : new[n] = HolderOf(k, n)'
    BY <1>1, <1>2 DEF Book, PagesWritten, Saved
  <1>5. /\ old \in Seq(EntityIds) /\ Len(old) = m
        /\ new \in Seq(EntityIds) /\ Len(new) = m2
    BY <1>3, <1>4, PagesAreSeq
  <1>6. SubSeq(new, 1, Len(old)) = old
    <2>1. \A n \in 1..m : new[n] = old[n]
      BY <1>1, <1>3, <1>4, PageKept
    <2> QED BY <1>1, <1>5, <2>1, BeginsWith
  <1>7. \A n \in 1..m2 : new[n] \in EntityIds /\ entity'[new[n]].number = n /\ entity'[new[n]].type = k
    BY <1>1, <1>4 DEF PagesWritten, Saved
  <1>8. ASSUME NEW j \in Rendering \ {k}
        PROVE  /\ Book'[j] = Book[j]
               /\ \A i \in 1..Len(Book[j]) : entity'[Book[j][i]].type = j
    <2>1. PICK l \in Nat : l = pattern[j].next - 1 /\ l = pattern'[j].next - 1
      BY <1>8 DEF NumberedSame, TypeOK, PatternRow, Numbers, Rendering
    <2>2. \A n \in 1..l : HolderOf(j, n)' = HolderOf(j, n)
      BY <2>1, PageKept
    <2>3. Book'[j] = Book[j]
      BY <2>1, <2>2 DEF Book
    <2>4. \A n \in 1..l : HolderOf(j, n) \in EntityIds /\ entity'[HolderOf(j, n)].type = j
      BY <2>1 DEF PagesWritten, Saved, Published
    <2>5. Book[j] \in [1..l -> EntityIds] /\ \A n \in 1..l : Book[j][n] = HolderOf(j, n)
      BY <2>1, <2>4 DEF Book
    <2>6. Len(Book[j]) = l
      BY <2>5, PagesAreSeq
    <2> QED BY <2>3, <2>4, <2>5, <2>6
  <1>9. /\ Len(new) > Len(old)
        /\ \A n \in (Len(old) + 1)..Len(new) :
              /\ new[n] \in EntityIds
              /\ \A i \in 1..(n - 1) : new[i] # new[n]
              /\ \A j \in Rendering \ {k} : \A i \in 1..Len(Book[j]) : Book[j][i] # new[n]
    <2>1. ASSUME NEW n \in (m + 1)..m2
          PROVE  /\ new[n] \in EntityIds
                 /\ \A i \in 1..(n - 1) : new[i] # new[n]
                 /\ \A j \in Rendering \ {k} : \A i \in 1..Len(Book[j]) : Book[j][i] # new[n]
      <3>1. n \in 1..m2 /\ \A i \in 1..(n - 1) : i \in 1..m2 /\ i # n
        OBVIOUS
      <3> QED BY <3>1, <1>7, <1>8
    <2> QED BY <2>1, <1>1, <1>5
  <1>10. /\ Len(Book'[k]) > Len(Book[k])
         /\ SubSeq(Book'[k], 1, Len(Book[k])) = Book[k]
         /\ \A n \in (Len(Book[k]) + 1)..Len(Book'[k]) :
               /\ Book'[k][n] \in EntityIds
               /\ \A i \in 1..(n - 1) : Book'[k][i] # Book'[k][n]
               /\ \A j \in Rendering \ {k} : \A i \in 1..Len(Book[j]) : Book[j][i] # Book'[k][n]
         /\ \A j \in Rendering \ {k} : Book'[j] = Book[j]
    BY <1>2, <1>6, <1>8, <1>9, Zenon
  <1> QED BY <1>10, Zenon DEF Ledger!Issue, Book

\* Every behaviour of the engine is one of the ledger, for the types whose
\* patterns render: numbers are issued in commit order, without gaps, each to one entity, and stay.
THEOREM Refinement == Spec => KeepsTheLedger
  <1>1. Init => Ledger!Init
    <2> SUFFICES ASSUME Init, NEW k \in Rendering PROVE Book[k] = <<>>
      BY DEF Ledger!Init, Book
    <2>1. pattern[k].next - 1 = 0
      BY DEF Init, AbsentPattern, Rendering
    <2> QED BY <2>1 DEF Book
  <1>2. /\ TypeOK /\ TypeOK' /\ Ledgered /\ Ledgered' /\ Written
        /\ PagesWritten /\ PagesWritten' /\ [Next]_vars
        => Ledger!Next \/ Book' = Book
    <2> SUFFICES ASSUME TypeOK, TypeOK', Ledgered, Ledgered', Written, PagesWritten, PagesWritten',
                        [Next]_vars
                 PROVE  Ledger!Next \/ Book' = Book
      OBVIOUS
    <2>1. Published
      BY StepPublishes
    <2>2. PICK k \in Types : /\ pattern[k].next <= pattern'[k].next
                             /\ \A j \in Types \ {k} : NumberedSame(j)
      BY StepPublishes DEF OneType
    <2>0. \A j \in Rendering : j \in Types
      BY DEF Rendering
    <2>3. CASE NumberedSame(k) \/ k \notin Rendering
      <3>1. \A j \in Rendering : NumberedSame(j)
        BY <2>0, <2>2, <2>3
      <3> QED BY <2>1, <3>1, SameBook
    <2>4. CASE pattern[k].next < pattern'[k].next /\ k \in Rendering
      BY <2>0, <2>1, <2>2, <2>4, Issues DEF Ledger!Next
    <2>5. pattern[k].next \in Nat /\ pattern'[k].next \in Nat
      BY DEF TypeOK, PatternRow, Numbers
    <2>6. pattern'[k].next = pattern[k].next \/ pattern[k].next < pattern'[k].next
      BY <2>2, <2>5
    <2> QED BY <2>3, <2>4, <2>6 DEF NumberedSame
  <1>3. /\ TypeOK /\ TypeOK' /\ Ledgered /\ Ledgered' /\ Written
        /\ PagesWritten /\ PagesWritten' /\ [Next]_vars
        => [Ledger!Next]_([k \in Rendering |-> [n \in 1..(pattern[k].next - 1) |-> HolderOf(k, n)]])
    BY <1>2 DEF Book
  <1> QED BY <1>1, <1>3, Pages, Invariant, PTL DEF Spec, KeepsTheLedger, Ledger!Spec
=============================================================================
