--------------------------- MODULE ReferenceLedger ---------------------------
(***************************************************************************)
(* What the Identifier & Reference Engine promises, without counters, row  *)
(* locks or rollbacks: for every entity type one append-only book whose    *)
(* n-th page is the entity that owns number n.  An entity is entered once, *)
(* no number is skipped, and what is written stays.                        *)
(***************************************************************************)
EXTENDS Naturals, Sequences

CONSTANTS Types, EntityIds

VARIABLE book

Init == book = [k \in Types |-> <<>>]

\* One creating transaction commits: its entities, none of them in any book
\* yet, take the next numbers of their type.
Issue(k) ==
    LET old == book[k]
        new == book'[k]
    IN
    /\ Len(new) > Len(old)
    /\ SubSeq(new, 1, Len(old)) = old
    /\ \A n \in (Len(old) + 1)..Len(new) :
          /\ new[n] \in EntityIds
          /\ \A m \in 1..(n - 1) : new[m] # new[n]
          /\ \A j \in Types \ {k} : \A m \in 1..Len(book[j]) :
                book[j][m] # new[n]
    /\ \A j \in Types \ {k} : book'[j] = book[j]

Next == \E k \in Types : Issue(k)

Spec == Init /\ [][Next]_book
=============================================================================
