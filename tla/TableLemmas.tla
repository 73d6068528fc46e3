------------------------------ MODULE TableLemmas -----------------------------
(***************************************************************************)
(* Facts the proofs about rows share: a table as a sequence of rows, one   *)
(* appended or one overwritten, and SumFunctionOnSet(f, S), the sum of the *)
(* integers f[x] over a finite set S, for amounts of money, weights and    *)
(* counts of rows.  The community module defines the sum by recursion over *)
(* the subsets of S, taking away a CHOSEN element: what has to be shown is *)
(* that the order does not matter (SumRemove).                             *)
(*                                                                         *)
(* Induction is done with sets instead of operators: a set of numbers that *)
(* holds 0 and the successor of each of its members is Nat.                *)
(***************************************************************************)
EXTENDS Integers, Sequences, FiniteSets, Functions, FiniteSetTheorems, SequenceTheorems,
        WellFoundedInduction, TLAPS

-----------------------------------------------------------------------------
(* Tables *)

\* What a table of rows of S is.
LEMMA TableType ==
  ASSUME NEW S, NEW table \in Seq(S)
  PROVE  /\ Len(table) \in Nat /\ DOMAIN table = 1..Len(table)
         /\ DOMAIN table \subseteq Nat /\ 0 \notin DOMAIN table
         /\ \A i \in DOMAIN table : table[i] \in S
         /\ IsFiniteSet(DOMAIN table)
<1>1. Len(table) \in Nat /\ DOMAIN table = 1..Len(table)
  BY ElementOfSeq
<1>2. IsFiniteSet(1..Len(table))
  BY <1>1, FS_Interval
<1>. QED
  BY <1>1, <1>2, ElementOfSeq

\* A row appended has the next position, and the others keep theirs.
LEMMA RowAppended ==
  ASSUME NEW S, NEW table \in Seq(S), NEW row \in S
  PROVE  LET t == Append(table, row) n == Len(table) + 1 IN
         /\ t \in Seq(S) /\ Len(t) = n /\ n \in Nat
         /\ n \notin DOMAIN table /\ DOMAIN t = DOMAIN table \union {n}
         /\ t[n] = row /\ \A i \in DOMAIN table : t[i] = table[i]
<1>1. Len(table) \in Nat /\ DOMAIN table = 1..Len(table)
  BY TableType
<1>2. /\ Append(table, row) \in Seq(S) /\ Len(Append(table, row)) = Len(table) + 1
      /\ \A i \in 1..Len(table) : Append(table, row)[i] = table[i]
      /\ Append(table, row)[Len(table) + 1] = row
  BY AppendProperties
<1>3. DOMAIN Append(table, row) = 1..Len(table) + 1
  BY <1>2
<1>. QED
  BY <1>1, <1>2, <1>3

\* A table of some rows is a table of more kinds of rows.
LEMMA WiderRows ==
  ASSUME NEW S, NEW T, S \subseteq T, NEW table \in Seq(S)
  PROVE  table \in Seq(T)
<1>1. /\ Len(table) \in Nat /\ DOMAIN table = 1..Len(table)
      /\ table = [i \in 1..Len(table) |-> table[i]]
      /\ \A i \in DOMAIN table : table[i] \in S
  BY ElementOfSeq, LenProperties
<1>2. table \in [1..Len(table) -> T]
  BY <1>1
<1>. QED
  BY <1>1, <1>2, SeqDef

\* The row that follows a table takes no id that was there.
LEMMA TableGrows ==
  ASSUME NEW S, NEW table \in Seq(S), NEW row
  PROVE  /\ DOMAIN table \subseteq DOMAIN Append(table, row)
         /\ DOMAIN Append(table, row) = DOMAIN table \union {Len(table) + 1}
<1>1. table \in Seq(S \union {row})
  BY WiderRows
<1>. QED
  BY <1>1, RowAppended

\* A row overwritten leaves the others, and the size of the table, as they are.
LEMMA RowWritten ==
  ASSUME NEW S, NEW table \in Seq(S), NEW i \in DOMAIN table, NEW row \in S
  PROVE  LET t == [table EXCEPT ![i] = row] IN
         /\ t \in Seq(S) /\ DOMAIN t = DOMAIN table /\ Len(t) = Len(table)
         /\ t[i] = row /\ \A j \in DOMAIN table : j # i => t[j] = table[j]
<1>1. Len(table) \in Nat /\ DOMAIN table = 1..Len(table)
  BY TableType
<1>2. [table EXCEPT ![i] = row] \in Seq(S)
  BY <1>1, ExceptSeq
<1>. QED
  BY <1>1, <1>2

-----------------------------------------------------------------------------
(* Sums *)

NatLess == {ss \in Nat \X Nat : ss[1] < ss[2]}

\* The order of the natural numbers is well founded.
LEMMA NatLessWF == IsWellFoundedOn(NatLess, Nat)
  BY NatLessThanWellFounded DEF OpToRel, NatLess

\* Induction on the natural numbers, for a set.
LEMMA SetInduction ==
  ASSUME NEW T \in SUBSET Nat, 0 \in T, \A n \in T : n + 1 \in T
  PROVE  T = Nat
<1>1. SUFFICES ASSUME Nat \ T # {} PROVE FALSE
  OBVIOUS
<1>2. PICK m \in Nat \ T : \A y \in Nat \ T : <<y, m>> \notin NatLess
  <2>1. Nat \ T \subseteq Nat
    OBVIOUS
  <2>. QED
    BY <1>1, <2>1, WFMin, NatLessWF
<1>3. m \in Nat /\ m # 0 /\ m - 1 \in Nat
  OBVIOUS
<1>4. m - 1 \in Nat \ T
  OBVIOUS
<1>5. <<m - 1, m>> \in NatLess
  BY <1>3 DEF NatLess
<1>. QED
  BY <1>2, <1>4, <1>5

-----------------------------------------------------------------------------
(* The recursion of the definition *)

Chosen(s) == CHOOSE x \in s : TRUE

Sums(f, S, g) ==
  g = [s \in SUBSET S |-> IF s = {} THEN 0
                          ELSE f[CHOOSE x \in s : TRUE] + g[s \ {CHOOSE x \in s : TRUE}]]

\* A sum is the value of the function its recursive definition picks.
LEMMA SumDef ==
  ASSUME NEW f, NEW S
  PROVE  SumFunctionOnSet(f, S) = (CHOOSE g : Sums(f, S, g))[S]
  BY DEF SumFunctionOnSet, FoldFunctionOnSet, MapThenFoldSet, Sums

\* The element a sum takes first is one of the set.
LEMMA ChosenIn ==
  ASSUME NEW s, s # {}
  PROVE  Chosen(s) \in s
  BY DEF Chosen

\* The rest of a finite set is finite, and smaller by one.
LEMMA SmallerSet ==
  ASSUME NEW s, IsFiniteSet(s), NEW x \in s
  PROVE  /\ IsFiniteSet(s \ {x}) /\ Cardinality(s) \in Nat /\ Cardinality(s \ {x}) \in Nat
         /\ Cardinality(s \ {x}) = Cardinality(s) - 1
  BY FS_RemoveElement, FS_CardinalityType

\* There is a function that satisfies the recursive definition.
LEMMA SumsExist ==
  ASSUME NEW f, NEW S, IsFiniteSet(S)
  PROVE  \E g : Sums(f, S, g)
<1>. DEFINE Good(h, s) == h[s] = IF s = {} THEN 0 ELSE f[Chosen(s)] + h[s \ {Chosen(s)}]
            UpTo(n) == {s \in SUBSET S : Cardinality(s) <= n}
            T == {n \in Nat : \E h : \A s \in UpTo(n) : Good(h, s)}
<1>0. \A s \in SUBSET S : IsFiniteSet(s) /\ Cardinality(s) \in Nat /\ Cardinality(s) <= Cardinality(S)
  BY FS_Subset, FS_CardinalityType
<1>1. 0 \in T
  <2>. DEFINE h == [s \in SUBSET S |-> 0]
  <2>1. \A s \in UpTo(0) : s = {}
    BY <1>0, FS_EmptySet
  <2>2. \A s \in UpTo(0) : Good(h, s)
    BY <2>1
  <2>. QED
    BY <2>2
<1>2. ASSUME NEW n \in T PROVE n + 1 \in T
  <2>1. PICK h : \A s \in UpTo(n) : Good(h, s)
    OBVIOUS
  <2>. DEFINE k == [s \in SUBSET S |-> IF s = {} THEN 0
                       ELSE IF Cardinality(s) <= n THEN h[s]
                       ELSE f[Chosen(s)] + h[s \ {Chosen(s)}]]
  <2>2. \A s \in UpTo(n) : k[s] = h[s]
    BY <2>1
  <2>3. ASSUME NEW s \in UpTo(n + 1) PROVE Good(k, s)
    <3>1. CASE s = {}
      BY <3>1
    <3>2. CASE s # {}
      <4>1. s \ {Chosen(s)} \in UpTo(n)
        BY <1>0, <3>2, ChosenIn, SmallerSet
      <4>2. k[s \ {Chosen(s)}] = h[s \ {Chosen(s)}]
        BY <2>2, <4>1
      <4>3. CASE Cardinality(s) <= n
        BY <2>1, <3>2, <4>2, <4>3
      <4>4. CASE ~(Cardinality(s) <= n)
        BY <3>2, <4>2, <4>4
      <4>. QED
        BY <4>3, <4>4
    <3>. QED
      BY <3>1, <3>2
  <2>. HIDE DEF k
  <2>4. \E hh : \A s \in UpTo(n + 1) : Good(hh, s)
    BY <2>3
  <2>5. n + 1 \in Nat
    OBVIOUS
  <2>. HIDE DEF Good, UpTo
  <2>. QED
    BY <2>4, <2>5
<1>3. Cardinality(S) \in T
  <2>. HIDE DEF T
  <2>1. T \subseteq Nat
    BY DEF T
  <2>2. T = Nat
    BY <1>1, <1>2, <2>1, SetInduction
  <2>. QED
    BY <1>0, <2>2
<1>4. PICK h : \A s \in UpTo(Cardinality(S)) : Good(h, s)
  BY <1>3
<1>5. \A s \in SUBSET S : Good(h, s)
  BY <1>0, <1>4
<1>. DEFINE g == [s \in SUBSET S |-> h[s]]
<1>6. \A s \in SUBSET S : g[s] = IF s = {} THEN 0 ELSE f[Chosen(s)] + g[s \ {Chosen(s)}]
  <2>1. ASSUME NEW s \in SUBSET S
        PROVE  s \ {Chosen(s)} \in SUBSET S
    OBVIOUS
  <2>. QED
    BY <1>5, <2>1
<1>. HIDE DEF g
<1>7. g = [s \in SUBSET S |-> IF s = {} THEN 0 ELSE f[Chosen(s)] + g[s \ {Chosen(s)}]]
  <2>1. g = [s \in SUBSET S |-> g[s]]
    BY DEF g
  <2>. QED
    BY <1>6, <2>1
<1>. QED
  BY <1>7 DEF Sums, Chosen

\* What the recursive definition says of a subset.
LEMMA SumsExpand ==
  ASSUME NEW f, NEW S, NEW g, Sums(f, S, g), NEW s \in SUBSET S
  PROVE  g[s] = IF s = {} THEN 0 ELSE f[Chosen(s)] + g[s \ {Chosen(s)}]
  BY DEF Sums, Chosen

\* Two such functions, for different sets, agree where both are defined.
LEMMA SumsUnique ==
  ASSUME NEW f, NEW S, NEW R, NEW g, NEW h, Sums(f, S, g), Sums(f, R, h),
         NEW q \in SUBSET S, q \in SUBSET R, IsFiniteSet(q)
  PROVE  g[q] = h[q]
<1>. DEFINE T == {n \in Nat : \A s \in SUBSET q : Cardinality(s) = n => g[s] = h[s]}
<1>0. \A s \in SUBSET q : IsFiniteSet(s) /\ Cardinality(s) \in Nat
  BY FS_Subset, FS_CardinalityType
<1>1. 0 \in T
  <2>1. \A s \in SUBSET q : Cardinality(s) = 0 => s = {}
    BY <1>0, FS_EmptySet
  <2>2. g[{}] = 0 /\ h[{}] = 0
    BY SumsExpand
  <2>. QED
    BY <2>1, <2>2
<1>2. ASSUME NEW n \in T PROVE n + 1 \in T
  <2>1. ASSUME NEW s \in SUBSET q, Cardinality(s) = n + 1 PROVE g[s] = h[s]
    <3>1. s # {}
      BY <2>1, FS_EmptySet
    <3>2. /\ s \ {Chosen(s)} \in SUBSET q /\ Cardinality(s \ {Chosen(s)}) = n
      BY <1>0, <2>1, <3>1, ChosenIn, SmallerSet
    <3>3. g[s \ {Chosen(s)}] = h[s \ {Chosen(s)}]
      BY <3>2
    <3>. QED
      BY <3>1, <3>3, SumsExpand
  <2>. QED
    BY <2>1
<1>. HIDE DEF T
<1>3. T = Nat
  <2>1. T \subseteq Nat
    BY DEF T
  <2>. QED
    BY <1>1, <1>2, <2>1, SetInduction
<1>. QED
  BY <1>0, <1>3 DEF T

-----------------------------------------------------------------------------
(* Sums *)

\* The sum over no element is 0.
LEMMA SumEmpty ==
  ASSUME NEW f
  PROVE  SumFunctionOnSet(f, {}) = 0
  BY SumDef, SumsExist, SumsExpand, FS_EmptySet

\* A sum is the element it takes first and the sum of the others.
LEMMA SumStep ==
  ASSUME NEW f, NEW S, IsFiniteSet(S), S # {}
  PROVE  SumFunctionOnSet(f, S) = f[Chosen(S)] + SumFunctionOnSet(f, S \ {Chosen(S)})
<1>. DEFINE R == S \ {Chosen(S)}
<1>1. IsFiniteSet(R)
  BY FS_RemoveElement
<1>2. PICK g : Sums(f, S, g) /\ SumFunctionOnSet(f, S) = g[S]
  BY SumDef, SumsExist
<1>3. PICK h : Sums(f, R, h) /\ SumFunctionOnSet(f, R) = h[R]
  BY <1>1, SumDef, SumsExist
<1>4. g[R] = h[R]
  BY <1>1, <1>2, <1>3, SumsUnique
<1>. QED
  BY <1>2, <1>3, <1>4, SumsExpand

\* A sum of integers is an integer.
LEMMA SumType ==
  ASSUME NEW f, NEW S, IsFiniteSet(S), \A x \in S : f[x] \in Int
  PROVE  SumFunctionOnSet(f, S) \in Int
<1>. DEFINE T == {n \in Nat : \A s \in SUBSET S : Cardinality(s) = n => SumFunctionOnSet(f, s) \in Int}
<1>0. \A s \in SUBSET S : IsFiniteSet(s) /\ Cardinality(s) \in Nat
  BY FS_Subset, FS_CardinalityType
<1>1. 0 \in T
  <2>1. \A s \in SUBSET S : Cardinality(s) = 0 => s = {}
    BY <1>0, FS_EmptySet
  <2>. QED
    BY <2>1, SumEmpty
<1>2. ASSUME NEW n \in T PROVE n + 1 \in T
  <2>1. ASSUME NEW s \in SUBSET S, Cardinality(s) = n + 1 PROVE SumFunctionOnSet(f, s) \in Int
    <3>1. s # {}
      BY <2>1, FS_EmptySet
    <3>2. /\ s \ {Chosen(s)} \in SUBSET S /\ Cardinality(s \ {Chosen(s)}) = n
          /\ Chosen(s) \in S
      BY <1>0, <2>1, <3>1, ChosenIn, SmallerSet
    <3>3. SumFunctionOnSet(f, s \ {Chosen(s)}) \in Int
      BY <3>2
    <3>4. f[Chosen(s)] \in Int
      BY <3>2
    <3>. QED
      BY <1>0, <3>1, <3>3, <3>4, SumStep
  <2>. QED
    BY <2>1
<1>. HIDE DEF T
<1>3. T = Nat
  <2>1. T \subseteq Nat
    BY DEF T
  <2>. QED
    BY <1>1, <1>2, <2>1, SetInduction
<1>. QED
  BY <1>0, <1>3 DEF T

\* The order does not matter: any element may be taken away first.
LEMMA SumRemove ==
  ASSUME NEW f, NEW S, IsFiniteSet(S), \A x \in S : f[x] \in Int, NEW e \in S
  PROVE  SumFunctionOnSet(f, S) = f[e] + SumFunctionOnSet(f, S \ {e})
<1>. DEFINE Splits(s) == \A x \in s : SumFunctionOnSet(f, s) = f[x] + SumFunctionOnSet(f, s \ {x})
            T == {n \in Nat : \A s \in SUBSET S : Cardinality(s) = n => Splits(s)}
<1>0. \A s \in SUBSET S : IsFiniteSet(s) /\ Cardinality(s) \in Nat
  BY FS_Subset, FS_CardinalityType
<1>1. 0 \in T
  <2>1. \A s \in SUBSET S : Cardinality(s) = 0 => s = {}
    BY <1>0, FS_EmptySet
  <2>. QED
    BY <2>1
<1>2. ASSUME NEW n \in T PROVE n + 1 \in T
  <2>1. ASSUME NEW s \in SUBSET S, Cardinality(s) = n + 1, NEW x \in s
        PROVE  SumFunctionOnSet(f, s) = f[x] + SumFunctionOnSet(f, s \ {x})
    <3>. DEFINE c == Chosen(s)
    <3>1. IsFiniteSet(s) /\ s # {} /\ c \in s
      BY <1>0, ChosenIn
    <3>2. SumFunctionOnSet(f, s) = f[c] + SumFunctionOnSet(f, s \ {c})
      BY <3>1, SumStep
    <3>. HIDE DEF c
    <3>3. CASE x = c
      BY <3>2, <3>3
    <3>4. CASE x # c
      <4>1. /\ s \ {c} \in SUBSET S /\ Cardinality(s \ {c}) = n /\ x \in s \ {c}
            /\ s \ {x} \in SUBSET S /\ Cardinality(s \ {x}) = n /\ c \in s \ {x}
        BY <2>1, <3>1, <3>4, SmallerSet
      <4>2. Splits(s \ {c}) /\ Splits(s \ {x})
        BY <4>1
      <4>3. /\ SumFunctionOnSet(f, s \ {c}) = f[x] + SumFunctionOnSet(f, (s \ {c}) \ {x})
            /\ SumFunctionOnSet(f, s \ {x}) = f[c] + SumFunctionOnSet(f, (s \ {x}) \ {c})
        BY <4>1, <4>2
      <4>4. (s \ {c}) \ {x} = (s \ {x}) \ {c}
        OBVIOUS
      <4>5. /\ f[x] \in Int /\ f[c] \in Int
            /\ SumFunctionOnSet(f, (s \ {x}) \ {c}) \in Int
        <5>1. IsFiniteSet((s \ {x}) \ {c})
          BY <3>1, FS_RemoveElement
        <5>. QED
          BY <3>1, <5>1, SumType
      <4>6. SumFunctionOnSet(f, s \ {c}) = f[x] + SumFunctionOnSet(f, (s \ {x}) \ {c})
        BY <4>3, <4>4, Zenon
      <4>. QED
        BY <3>2, <4>3, <4>5, <4>6
    <3>. QED
      BY <3>3, <3>4
  <2>. QED
    BY <2>1
<1>. HIDE DEF T
<1>3. T = Nat
  <2>1. T \subseteq Nat
    BY DEF T
  <2>. QED
    BY <1>1, <1>2, <2>1, SetInduction
<1>. QED
  BY <1>0, <1>3 DEF T

\* A new element adds its value.
LEMMA SumAdd ==
  ASSUME NEW f, NEW S, IsFiniteSet(S), NEW e, e \notin S, \A x \in S \union {e} : f[x] \in Int
  PROVE  SumFunctionOnSet(f, S \union {e}) = f[e] + SumFunctionOnSet(f, S)
<1>1. IsFiniteSet(S \union {e})
  BY FS_AddElement
<1>2. (S \union {e}) \ {e} = S
  OBVIOUS
<1>. QED
  BY <1>1, <1>2, SumRemove

\* What holds of the empty set, and of s when it holds of s without any one of its
\* elements, holds of every subset of a finite set.
LEMMA SubsetInduction ==
  ASSUME NEW S, IsFiniteSet(S), NEW G \in SUBSET SUBSET S, {} \in G,
         \A s \in SUBSET S : (s # {} /\ \A x \in s : s \ {x} \in G) => s \in G
  PROVE  S \in G
<1>. DEFINE T == {n \in Nat : \A s \in SUBSET S : Cardinality(s) = n => s \in G}
<1>0. \A s \in SUBSET S : IsFiniteSet(s) /\ Cardinality(s) \in Nat
  BY FS_Subset, FS_CardinalityType
<1>1. 0 \in T
  <2>1. \A s \in SUBSET S : Cardinality(s) = 0 => s = {}
    BY <1>0, FS_EmptySet
  <2>. QED
    BY <2>1
<1>2. ASSUME NEW n \in T PROVE n + 1 \in T
  <2>1. ASSUME NEW s \in SUBSET S, Cardinality(s) = n + 1 PROVE s \in G
    <3>1. s # {}
      BY <2>1, FS_EmptySet
    <3>2. \A x \in s : s \ {x} \in SUBSET S /\ Cardinality(s \ {x}) = n
      BY <1>0, <2>1, SmallerSet
    <3>3. \A x \in s : s \ {x} \in G
      BY <3>2
    <3>. QED
      BY <3>1, <3>3
  <2>. QED
    BY <2>1
<1>. HIDE DEF T
<1>3. T = Nat
  <2>1. T \subseteq Nat
    BY DEF T
  <2>. QED
    BY <1>1, <1>2, <2>1, SetInduction
<1>. QED
  BY <1>0, <1>3 DEF T

\* Equal terms give equal sums; smaller terms a smaller sum.
LEMMA SumMonotone ==
  ASSUME NEW f, NEW g, NEW S, IsFiniteSet(S),
         \A x \in S : f[x] \in Int /\ g[x] \in Int /\ f[x] <= g[x]
  PROVE  SumFunctionOnSet(f, S) <= SumFunctionOnSet(g, S)
<1>. DEFINE G == {s \in SUBSET S : SumFunctionOnSet(f, s) <= SumFunctionOnSet(g, s)}
<1>0. \A s \in SUBSET S : /\ IsFiniteSet(s)
                           /\ SumFunctionOnSet(f, s) \in Int /\ SumFunctionOnSet(g, s) \in Int
  BY FS_Subset, SumType
<1>1. {} \in G
  BY SumEmpty
<1>2. ASSUME NEW s \in SUBSET S, s # {}, \A x \in s : s \ {x} \in G
      PROVE  s \in G
  <2>1. PICK x \in s : s \ {x} \in G
    BY <1>2
  <2>2. /\ SumFunctionOnSet(f, s) = f[x] + SumFunctionOnSet(f, s \ {x})
        /\ SumFunctionOnSet(g, s) = g[x] + SumFunctionOnSet(g, s \ {x})
    BY <1>0, SumRemove
  <2>3. SumFunctionOnSet(f, s \ {x}) <= SumFunctionOnSet(g, s \ {x})
    BY <2>1
  <2>4. SumFunctionOnSet(f, s) <= SumFunctionOnSet(g, s)
    <3>1. /\ SumFunctionOnSet(f, s \ {x}) \in Int /\ SumFunctionOnSet(g, s \ {x}) \in Int
          /\ f[x] \in Int /\ g[x] \in Int /\ f[x] <= g[x]
      BY <1>0
    <3>. QED
      BY <2>2, <2>3, <3>1
  <2>. QED
    BY <2>4
<1>. HIDE DEF G
<1>3. S \in G
  <2>1. G \in SUBSET SUBSET S
    BY DEF G
  <2>. QED
    BY <1>1, <1>2, <2>1, SubsetInduction
<1>. QED
  BY <1>3 DEF G

\* A sum depends on the values over its set only.
LEMMA SumEqual ==
  ASSUME NEW f, NEW g, NEW S, IsFiniteSet(S), \A x \in S : f[x] \in Int /\ g[x] = f[x]
  PROVE  SumFunctionOnSet(f, S) = SumFunctionOnSet(g, S)
<1>1. /\ SumFunctionOnSet(f, S) <= SumFunctionOnSet(g, S)
      /\ SumFunctionOnSet(g, S) <= SumFunctionOnSet(f, S)
  BY SumMonotone
<1>2. SumFunctionOnSet(f, S) \in Int /\ SumFunctionOnSet(g, S) \in Int
  BY SumType
<1>. QED
  BY <1>1, <1>2

\* A sum of natural numbers is one.
LEMMA SumNonNegative ==
  ASSUME NEW f, NEW S, IsFiniteSet(S), \A x \in S : f[x] \in Nat
  PROVE  SumFunctionOnSet(f, S) \in Nat
<1>. DEFINE G == {s \in SUBSET S : SumFunctionOnSet(f, s) \in Nat}
<1>1. {} \in G
  BY SumEmpty
<1>2. ASSUME NEW s \in SUBSET S, s # {}, \A x \in s : s \ {x} \in G
      PROVE  s \in G
  <2>1. PICK x \in s : s \ {x} \in G
    BY <1>2
  <2>2. SumFunctionOnSet(f, s) = f[x] + SumFunctionOnSet(f, s \ {x})
    BY FS_Subset, SumRemove
  <2>. QED
    BY <2>1, <2>2
<1>. HIDE DEF G
<1>3. S \in G
  <2>1. G \in SUBSET SUBSET S
    BY DEF G
  <2>. QED
    BY <1>1, <1>2, <2>1, SubsetInduction
<1>. QED
  BY <1>3 DEF G

\* The sum over two disjoint sets is the sum of their sums.
LEMMA SumUnion ==
  ASSUME NEW f, NEW S, NEW R, IsFiniteSet(S), IsFiniteSet(R), S \intersect R = {},
         \A x \in S \union R : f[x] \in Int
  PROVE  SumFunctionOnSet(f, S \union R) = SumFunctionOnSet(f, S) + SumFunctionOnSet(f, R)
<1>. DEFINE G == {s \in SUBSET S : SumFunctionOnSet(f, s \union R)
                                     = SumFunctionOnSet(f, s) + SumFunctionOnSet(f, R)}
<1>0. \A s \in SUBSET S : /\ IsFiniteSet(s) /\ IsFiniteSet(s \union R)
                           /\ SumFunctionOnSet(f, s) \in Int
                           /\ SumFunctionOnSet(f, s \union R) \in Int
  <2>. TAKE s \in SUBSET S
  <2>1. IsFiniteSet(s) /\ IsFiniteSet(s \union R)
    BY FS_Subset, FS_Union
  <2>2. /\ \A x \in s : f[x] \in Int
        /\ \A x \in s \union R : f[x] \in Int
    OBVIOUS
  <2>. QED
    BY <2>1, <2>2, SumType
<1>1. {} \in G
  <2>1. {} \union R = R /\ SumFunctionOnSet(f, R) \in Int
    BY SumType
  <2>. QED
    BY <2>1, SumEmpty
<1>2. ASSUME NEW s \in SUBSET S, s # {}, \A x \in s : s \ {x} \in G
      PROVE  s \in G
  <2>1. PICK x \in s : s \ {x} \in G
    BY <1>2
  <2>2. /\ SumFunctionOnSet(f, s) = f[x] + SumFunctionOnSet(f, s \ {x})
        /\ SumFunctionOnSet(f, s \union R) = f[x] + SumFunctionOnSet(f, (s \union R) \ {x})
    <3>1. /\ IsFiniteSet(s) /\ IsFiniteSet(s \union R)
          /\ \A y \in s : f[y] \in Int
          /\ \A y \in s \union R : f[y] \in Int
          /\ x \in s /\ x \in s \union R
      BY <1>0
    <3>2. SumFunctionOnSet(f, s) = f[x] + SumFunctionOnSet(f, s \ {x})
      BY <3>1, SumRemove
    <3>3. SumFunctionOnSet(f, s \union R) = f[x] + SumFunctionOnSet(f, (s \union R) \ {x})
      <4>. DEFINE Q == s \union R
      <4>1. IsFiniteSet(Q) /\ (\A y \in Q : f[y] \in Int) /\ x \in Q
        BY <3>1
      <4>. HIDE DEF Q
      <4>2. SumFunctionOnSet(f, Q) = f[x] + SumFunctionOnSet(f, Q \ {x})
        BY <4>1, SumRemove
      <4>. QED
        BY <4>2 DEF Q
    <3>. QED
      BY <3>2, <3>3
  <2>3. (s \union R) \ {x} = (s \ {x}) \union R
    OBVIOUS
  <2>4. SumFunctionOnSet(f, (s \union R) \ {x}) = SumFunctionOnSet(f, s \ {x}) + SumFunctionOnSet(f, R)
    BY <2>1, <2>3
  <2>5. /\ SumFunctionOnSet(f, s \ {x}) \in Int /\ SumFunctionOnSet(f, R) \in Int /\ f[x] \in Int
    BY <1>0, SumType
  <2>6. SumFunctionOnSet(f, s \union R) = SumFunctionOnSet(f, s) + SumFunctionOnSet(f, R)
    BY <2>2, <2>4, <2>5
  <2>. QED
    BY <2>6
<1>. HIDE DEF G
<1>3. S \in G
  <2>1. G \in SUBSET SUBSET S
    BY DEF G
  <2>. QED
    BY <1>1, <1>2, <2>1, SubsetInduction
<1>. QED
  BY <1>3 DEF G

\* Terms that are not negative only add to a sum.
LEMMA SumSubset ==
  ASSUME NEW f, NEW S, IsFiniteSet(S), NEW R \in SUBSET S,
         \A x \in S : f[x] \in Int, \A x \in S \ R : f[x] >= 0
  PROVE  SumFunctionOnSet(f, R) <= SumFunctionOnSet(f, S)
<1>1. IsFiniteSet(R) /\ IsFiniteSet(S \ R)
  BY FS_Subset
<1>2. S = R \union (S \ R)
  OBVIOUS
<1>3. SumFunctionOnSet(f, S) = SumFunctionOnSet(f, R) + SumFunctionOnSet(f, S \ R)
  BY <1>1, <1>2, SumUnion
<1>4. SumFunctionOnSet(f, R) \in Int
  BY <1>1, SumType
<1>5. SumFunctionOnSet(f, S \ R) \in Nat
  BY <1>1, SumNonNegative
<1>. QED
  BY <1>3, <1>4, <1>5
\* The sum of what two functions add up to is the sum of their sums.
LEMMA SumPlus ==
  ASSUME NEW f, NEW g, NEW h, NEW S, IsFiniteSet(S),
         \A x \in S : f[x] \in Int /\ g[x] \in Int /\ h[x] = f[x] + g[x]
  PROVE  SumFunctionOnSet(h, S) = SumFunctionOnSet(f, S) + SumFunctionOnSet(g, S)
<1>. DEFINE G == {s \in SUBSET S :
                    SumFunctionOnSet(h, s) = SumFunctionOnSet(f, s) + SumFunctionOnSet(g, s)}
<1>0. /\ \A x \in S : h[x] \in Int
      /\ \A s \in SUBSET S : /\ IsFiniteSet(s)
                             /\ SumFunctionOnSet(f, s) \in Int /\ SumFunctionOnSet(g, s) \in Int
  BY FS_Subset, SumType
<1>1. {} \in G
  BY SumEmpty
<1>2. ASSUME NEW s \in SUBSET S, s # {}, \A x \in s : s \ {x} \in G
      PROVE  s \in G
  <2>1. PICK x \in s : s \ {x} \in G
    BY <1>2
  <2>2. /\ SumFunctionOnSet(f, s) = f[x] + SumFunctionOnSet(f, s \ {x})
        /\ SumFunctionOnSet(g, s) = g[x] + SumFunctionOnSet(g, s \ {x})
        /\ SumFunctionOnSet(h, s) = h[x] + SumFunctionOnSet(h, s \ {x})
    BY <1>0, SumRemove
  <2>3. /\ SumFunctionOnSet(f, s \ {x}) \in Int /\ SumFunctionOnSet(g, s \ {x}) \in Int
        /\ f[x] \in Int /\ g[x] \in Int /\ h[x] = f[x] + g[x]
        /\ SumFunctionOnSet(h, s \ {x})
              = SumFunctionOnSet(f, s \ {x}) + SumFunctionOnSet(g, s \ {x})
    BY <1>0, <2>1
  <2>4. SumFunctionOnSet(h, s) = SumFunctionOnSet(f, s) + SumFunctionOnSet(g, s)
    BY <2>2, <2>3
  <2>. QED
    BY <2>4
<1>. HIDE DEF G
<1>3. S \in G
  <2>1. G \in SUBSET SUBSET S
    BY DEF G
  <2>. QED
    BY <1>1, <1>2, <2>1, SubsetInduction
<1>. QED
  BY <1>3 DEF G

\* A common factor can be taken out of a sum.
LEMMA SumScaled ==
  ASSUME NEW f, NEW h, NEW n \in Int, NEW S, IsFiniteSet(S),
         \A x \in S : f[x] \in Int /\ h[x] = f[x] * n
  PROVE  SumFunctionOnSet(h, S) = SumFunctionOnSet(f, S) * n
<1>. DEFINE G == {s \in SUBSET S : SumFunctionOnSet(h, s) = SumFunctionOnSet(f, s) * n}
<1>0. /\ \A x \in S : h[x] \in Int
      /\ \A s \in SUBSET S : IsFiniteSet(s) /\ SumFunctionOnSet(f, s) \in Int
  BY FS_Subset, SumType
<1>1. {} \in G
  BY SumEmpty
<1>2. ASSUME NEW s \in SUBSET S, s # {}, \A x \in s : s \ {x} \in G
      PROVE  s \in G
  <2>1. PICK x \in s : s \ {x} \in G
    BY <1>2
  <2>2. /\ SumFunctionOnSet(f, s) = f[x] + SumFunctionOnSet(f, s \ {x})
        /\ SumFunctionOnSet(h, s) = h[x] + SumFunctionOnSet(h, s \ {x})
    BY <1>0, SumRemove
  <2>3. PICK a \in Int, b \in Int : a = f[x] /\ b = SumFunctionOnSet(f, s \ {x})
    BY <1>0
  <2>4. h[x] = a * n /\ SumFunctionOnSet(h, s \ {x}) = b * n
    BY <2>1, <2>3
  <2>5. (a + b) * n = a * n + b * n
    BY <2>3
  <2>6. SumFunctionOnSet(h, s) = SumFunctionOnSet(f, s) * n
    BY <2>2, <2>3, <2>4, <2>5
  <2>. QED
    BY <2>6
<1>. HIDE DEF G
<1>3. S \in G
  <2>1. G \in SUBSET SUBSET S
    BY DEF G
  <2>. QED
    BY <1>1, <1>2, <2>1, SubsetInduction
<1>. QED
  BY <1>3 DEF G

\* What disjoint sets hold together is the sum of what each holds.
LEMMA SumOfCounts ==
  ASSUME NEW F, NEW h, NEW S, IsFiniteSet(S),
         \A x \in S : IsFiniteSet(F[x]) /\ h[x] = Cardinality(F[x]),
         \A x, y \in S : x # y => F[x] \intersect F[y] = {}
  PROVE  /\ IsFiniteSet(UNION {F[x] : x \in S})
         /\ Cardinality(UNION {F[x] : x \in S}) = SumFunctionOnSet(h, S)
<1>. DEFINE All(s) == UNION {F[x] : x \in s}
            G == {s \in SUBSET S : /\ IsFiniteSet(All(s))
                                   /\ Cardinality(All(s)) = SumFunctionOnSet(h, s)}
<1>0. /\ \A x \in S : h[x] \in Int
      /\ \A s \in SUBSET S : IsFiniteSet(s)
  BY FS_Subset, FS_CardinalityType
<1>1. {} \in G
  <2>1. All({}) = {}
    OBVIOUS
  <2>. QED
    BY <2>1, SumEmpty, FS_EmptySet
<1>2. ASSUME NEW s \in SUBSET S, s # {}, \A x \in s : s \ {x} \in G
      PROVE  s \in G
  <2>1. PICK x \in s : s \ {x} \in G
    BY <1>2
  <2>2. SumFunctionOnSet(h, s) = h[x] + SumFunctionOnSet(h, s \ {x})
    BY <1>0, SumRemove
  <2>3. All(s) = F[x] \union All(s \ {x})
    OBVIOUS
  <2>4. F[x] \intersect All(s \ {x}) = {}
    OBVIOUS
  <2>5. /\ IsFiniteSet(All(s \ {x}))
        /\ Cardinality(All(s \ {x})) = SumFunctionOnSet(h, s \ {x})
        /\ IsFiniteSet(F[x]) /\ h[x] = Cardinality(F[x])
    BY <2>1
  <2>. HIDE DEF All
  <2>6. /\ IsFiniteSet(All(s))
        /\ Cardinality(All(s)) = Cardinality(F[x]) + Cardinality(All(s \ {x}))
    <3>. DEFINE B == All(s \ {x})
    <3>1. /\ IsFiniteSet(F[x] \union B)
          /\ Cardinality(F[x] \union B)
                = Cardinality(F[x]) + Cardinality(B) - Cardinality(F[x] \intersect B)
      BY <2>5, FS_Union
    <3>2. Cardinality(F[x]) \in Nat /\ Cardinality(B) \in Nat
      BY <2>5, FS_CardinalityType
    <3>3. Cardinality(F[x] \intersect B) = 0
      BY <2>4, FS_EmptySet
    <3>. QED
      BY <2>3, <3>1, <3>2, <3>3
  <2>. QED
    BY <2>2, <2>5, <2>6
<1>. HIDE DEF G
<1>3. S \in G
  <2>1. G \in SUBSET SUBSET S
    BY DEF G
  <2>. QED
    BY <1>1, <1>2, <2>1, SubsetInduction
<1>. QED
  BY <1>3 DEF G

=============================================================================
