------------------------------ MODULE Requests ------------------------------
(***************************************************************************)
(* The requests of one organisation over Postgres at READ COMMITTED, as    *)
(* the modules that extend this one see them.                              *)
(*                                                                         *)
(* A handler that loads a row, checks it and then writes it, all without a *)
(* row lock, takes two steps: Hold(c, r) when it loads what it checks, and *)
(* a step of its own that commits what it decided from the values it       *)
(* loaded.  A handler whose only checks are 404s on rows that are never    *)
(* deleted takes one step (Once).  A request that dies before it commits   *)
(* leaves nothing behind, as if it had not begun.                          *)
(***************************************************************************)
EXTENDS Integers, Sequences, FiniteSets, FiniteSetsExt

CONSTANTS
    Properties,  \* the properties of the organisation
    Clerks,      \* requests and import rows that can be in flight at once
    MaxBegun,    \* bound: requests begun in a behaviour
    MaxDay       \* bound: days are 1..MaxDay

ASSUME BoundsAssumption == MaxBegun \in Nat /\ MaxDay \in Nat \ {0}

Days == 1..MaxDay
None == 0        \* a date, or a foreign key, that is null

VARIABLES
    req,         \* what each clerk's request stands at, and what it has loaded
    begun,       \* requests begun so far
    raced,       \* observer: keys of rows that two requests held at once
    today        \* what date.today() returns

requests == <<req, begun, raced, today>>

Idle == [pc |-> "idle"]

At(c, pc)   == req[c].pc = pc
CanBegin(c) == At(c, "idle") /\ begun < MaxBegun

Held == UNION {req[c].keys : c \in {k \in Clerks : ~At(k, "idle")}}

\* The request r of c starts and reads what it will check of the rows named in r.keys.
Hold(c, r) ==
    /\ CanBegin(c)
    /\ req'   = [req EXCEPT ![c] = r]
    /\ begun' = begun + 1
    /\ raced' = raced \union (r.keys \intersect Held)
    /\ UNCHANGED today

End(c) == req' = [req EXCEPT ![c] = Idle] /\ UNCHANGED <<begun, raced, today>>

Once == begun < MaxBegun /\ begun' = begun + 1 /\ UNCHANGED <<req, raced, today>>

\* completed_date or date.today(): the date a request gives, or today when it gives none.
OrToday(given) == IF given = None THEN today ELSE given

NextDay == today < MaxDay /\ today' = today + 1 /\ UNCHANGED <<req, begun, raced>>

RequestsInit == req = [c \in Clerks |-> Idle] /\ begun = 0 /\ raced = {} /\ today = 1

RequestsOK == begun \in 0..MaxBegun /\ today \in Days /\ DOMAIN req = Clerks
=============================================================================
