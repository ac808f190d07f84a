------------------------- MODULE BookListingProofs -------------------------
(***************************************************************************)
(* Proofs about BookListing, for any table, any page sizes the validator   *)
(* lets through and any width of an int: what a walk through the pages     *)
(* shows while others write, and that the pager offers a way back.         *)
(***************************************************************************)
EXTENDS BookListing, FiniteSetTheorems, TLAPS

LEMMA Bounds ==
  /\ Id \subseteq Nat /\ IsFiniteSet(Id) /\ Title \subseteq Nat
  /\ PageRequest \subseteq Nat /\ SizeRequest \subseteq Nat
  /\ MaxPageSize \in Nat \ {0} /\ IntBits \in Nat \ {0}
  /\ MaxPageSize <= 2^(IntBits - 1)
BY ListingAssumption DEF ListingAssumption

----------------------------------------------------------------------------
(* Int arithmetic.                                                         *)

\* One more bit doubles the numbers there are: a set with one more element has twice as
\* many subsets.
LEMMA Doubling ==
  ASSUME NEW n \in Nat
  PROVE  2^n \in Nat /\ 2^(n + 1) = 2 * 2^n
<1> DEFINE S == 1..n
           x == n + 1
           U == {T \cup {x} : T \in SUBSET S}
           f == [T \in SUBSET S |-> T \cup {x}]
<1>1. IsFiniteSet(S) /\ Cardinality(S) = n /\ x \notin S
  BY FS_Interval
<1>2. IsFiniteSet(S \cup {x}) /\ Cardinality(S \cup {x}) = n + 1
  BY <1>1, FS_AddElement
<1> HIDE DEF S, x
<1>3. IsFiniteSet(SUBSET S) /\ Cardinality(SUBSET S) = 2^n /\ Cardinality(SUBSET S) \in Nat
  BY <1>1, FS_SUBSET, FS_CardinalityType
<1>4. Cardinality(SUBSET (S \cup {x})) = 2^(n + 1)
  BY <1>2, FS_SUBSET
<1>5. f \in Bijection(SUBSET S, U)
  <2>1. f \in Injection(SUBSET S, U)
    <3>1. \A T, R \in SUBSET S : T \cup {x} = R \cup {x} => T = R
      BY <1>1
    <3>2. f \in [SUBSET S -> U]
      OBVIOUS
    <3>3. \A T, R \in SUBSET S : f[T] = f[R] => T = R
      BY <3>1
    <3> HIDE DEF f
    <3>4. QED
      BY <3>2, <3>3 DEF Injection, IsInjective
  <2>2. f \in Surjection(SUBSET S, U)
    BY DEF Surjection
  <2>3. QED
    BY <2>1, <2>2 DEF Bijection
<1>6. IsFiniteSet(U) /\ Cardinality(U) = Cardinality(SUBSET S)
  BY <1>3, <1>5, FS_Bijection DEF ExistsBijection
<1>7. SUBSET (S \cup {x}) = (SUBSET S) \cup U
  <2>1. ASSUME NEW T \in SUBSET (S \cup {x}) PROVE T \in (SUBSET S) \cup U
    <3>1. CASE x \notin T
      BY <3>1
    <3>2. CASE x \in T
      <4>1. T = (T \ {x}) \cup {x} /\ T \ {x} \in SUBSET S
        BY <3>2
      <4>2. QED
        BY <4>1
    <3>3. QED
      BY <3>1, <3>2
  <2>2. ASSUME NEW T \in (SUBSET S) \cup U PROVE T \in SUBSET (S \cup {x})
    OBVIOUS
  <2>3. QED
    BY <2>1, <2>2
<1>8. (SUBSET S) \cap U = {}
  BY <1>1
<1> HIDE DEF U
<1>9. Cardinality((SUBSET S) \cup U) = Cardinality(SUBSET S) + Cardinality(U)
  <2> DEFINE P == SUBSET S
  <2>1. IsFiniteSet(P) /\ IsFiniteSet(U) /\ P \cap U = {} /\ Cardinality(P) \in Nat /\ Cardinality(U) \in Nat
    BY <1>3, <1>6, <1>8
  <2> HIDE DEF P
  <2>2. Cardinality(P \cup U) = Cardinality(P) + Cardinality(U) - Cardinality(P \cap U)
    BY <2>1, FS_Union
  <2>3. Cardinality(P \cap U) = 0
    BY <2>1, FS_EmptySet
  <2>4. Cardinality(P \cup U) = Cardinality(P) + Cardinality(U)
    BY <2>1, <2>2, <2>3
  <2>5. QED
    BY <2>4 DEF P
<1> DEFINE c == Cardinality(SUBSET S)
<1>10. c \in Nat /\ 2^n = c /\ 2^(n + 1) = c + c
  <2>1. 2^(n + 1) = c + Cardinality(U)
    BY <1>4, <1>7, <1>9, Zenon
  <2>2. QED
    BY <1>3, <1>6, <2>1, Zenon
<1> HIDE DEF c
<1>11. c + c = 2 * c
  BY <1>10
<1>12. QED
  BY <1>10, <1>11, Zenon

\* The first number beyond an int.
Half == 2^(IntBits - 1)

LEMMA HalfIs == Half \in Nat /\ 2^IntBits = 2 * Half /\ MaxPageSize <= Half /\ 0 < Half
<1>1. IntBits - 1 \in Nat /\ (IntBits - 1) + 1 = IntBits
  BY Bounds
<1>2. 2^(IntBits - 1) \in Nat /\ 2^IntBits = 2 * 2^(IntBits - 1)
  BY <1>1, Doubling
<1>3. QED
  BY <1>2, Bounds DEF Half

\* A product that is less than a page beyond the range either fits or comes out negative.
LEMMA AsIntIs ==
  ASSUME NEW n \in Nat, n < 2 * Half
  PROVE  AsInt(n) = IF n < Half THEN n ELSE n - 2 * Half
<1>1. AsInt(n) = ((n + Half) % (2 * Half)) - Half
  BY HalfIs DEF AsInt, Half
<1> DEFINE m == 2 * Half
           y == n + Half
<1>2. m \in Nat \ {0} /\ y \in Nat
  BY HalfIs
<1>3. CASE n < Half
  <2>1. y < m
    BY <1>3, HalfIs
  <2> HIDE DEF m, y
  <2>2. y % m = y
    BY <1>2, <2>1
  <2>3. QED
    BY <1>1, <1>3, <2>2, HalfIs DEF m, y
<1>4. CASE ~(n < Half)
  <2>1. m <= y /\ y < 2 * m
    BY <1>4, HalfIs
  <2> HIDE DEF m, y
  <2>2. y % m = y - m
    BY <1>2, <2>1
  <2>3. QED
    BY <1>1, <1>4, <2>2, HalfIs DEF m, y
<1>5. QED
  BY <1>3, <1>4

\* The number of pages there are is enough for all the books.
LEMMA PagesSuffice ==
  ASSUME NEW t \in Nat, NEW s \in Nat \ {0}, NEW p \in Nat, ~(p < TotalPages(t, s))
  PROVE  t <= p * s
<1> DEFINE q == (t + s - 1) \div s
           r == (t + s - 1) % s
<1>1. t + s - 1 \in Nat
  OBVIOUS
<1>2. t + s - 1 = s * q + r /\ r \in 0..(s - 1) /\ q \in Int
  BY <1>1
<1>3. q <= p
  BY <1>2 DEF TotalPages
<1> HIDE DEF q, r
<1>4. s * q <= s * p /\ s * p = p * s /\ s * q \in Int /\ p * s \in Int
  BY <1>2, <1>3
<1>5. QED
  BY <1>2, <1>4

LEMMA PagesTyped ==
  ASSUME NEW t \in Nat, NEW s \in Nat \ {0}
  PROVE  TotalPages(t, s) \in Nat
<1>1. t + s - 1 \in Nat
  OBVIOUS
<1>2. (t + s - 1) \div s \in Nat
  BY <1>1
<1>3. QED
  BY <1>2 DEF TotalPages

----------------------------------------------------------------------------
(* The pager.                                                              *)

LEMMA MinMaxPair ==
  ASSUME NEW a \in Int, NEW b \in Int
  PROVE  /\ Min({a, b}) = IF a <= b THEN a ELSE b
         /\ Max({a, b}) = IF a <= b THEN b ELSE a
<1>1. \E x \in {a, b} : \A y \in {a, b} : x <= y
  OBVIOUS
<1>2. Min({a, b}) \in {a, b} /\ \A y \in {a, b} : Min({a, b}) <= y
  BY <1>1 DEF Min
<1>3. \E x \in {a, b} : \A y \in {a, b} : x >= y
  OBVIOUS
<1>4. Max({a, b}) \in {a, b} /\ \A y \in {a, b} : Max({a, b}) >= y
  BY <1>3 DEF Max
<1>5. QED
  BY <1>2, <1>4

\* The window holds pages that exist, at least one, and the current one if it exists.
LEMMA WindowIs ==
  ASSUME NEW current \in Nat \ {0}, NEW pages \in Nat, pages > 1
  PROVE  /\ pageWindow(current, pages) \subseteq 1..pages
         /\ pageWindow(current, pages) # {}
         /\ current <= pages => current \in pageWindow(current, pages)
<1> DEFINE least == Min({current - 1, pages - windowSize + 1})
           start == Max({1, least})
           wide  == Min({windowSize, pages})
<1>1. least = IF current - 1 <= pages - 2 THEN current - 1 ELSE pages - 2
  <2>1. windowSize = 3 /\ pages - windowSize + 1 = pages - 2
    BY DEF windowSize
  <2>2. QED
    BY <2>1, MinMaxPair
<1>2. least \in Int
  BY <1>1
<1>3. wide = IF 3 <= pages THEN 3 ELSE pages
  BY MinMaxPair DEF windowSize
<1>4. pageWindow(current, pages) = start..(start + wide - 1)
  BY DEF pageWindow
<1> HIDE DEF least, wide
<1>5. start = IF 1 <= least THEN least ELSE 1
  BY <1>2, MinMaxPair
<1> HIDE DEF start
<1>6. /\ start \in Int /\ wide \in Int /\ 1 <= start /\ start + wide - 1 <= pages
      /\ start <= start + wide - 1
      /\ current <= pages => start <= current /\ current <= start + wide - 1
  BY <1>1, <1>3, <1>5
<1> DEFINE last == start + wide - 1
<1>7. start \in Int /\ last \in Int
  BY <1>6
<1>8. start \in start..last
  BY <1>6
<1>9. start..last \subseteq 1..pages /\ (current <= pages => current \in start..last)
  BY <1>6
<1>10. QED
  BY <1>4, <1>8, <1>9, Zenon

\* With two pages or more there is a link to another page that exists.
LEMMA LinksLeadOn ==
  ASSUME NEW current \in Nat \ {0}, NEW pages \in Nat, pages > 1
  PROVE  \E p \in Links(current, pages) : p \in 1..pages /\ p # current
<1>1. CASE current = 1
  <2>1. 2 \in Links(current, pages)
    BY <1>1 DEF Links
  <2>2. QED
    BY <1>1, <2>1
<1>2. CASE current > 1 /\ current <= pages
  <2>1. current - 1 \in Links(current, pages)
    BY <1>2 DEF Links
  <2>2. QED
    BY <1>2, <2>1
<1>3. CASE current > pages
  <2>1. PICK p \in pageWindow(current, pages) : TRUE
    BY WindowIs
  <2>2. p \in 1..pages /\ p \in Links(current, pages)
    BY <2>1, WindowIs DEF Links
  <2>3. QED
    BY <1>3, <2>2
<1>4. QED
  BY <1>1, <1>2, <1>3

----------------------------------------------------------------------------
(* The order of the books.                                                 *)

LEMMA PositionIs ==
  ASSUME TypeOK, NEW i \in DOMAIN book
  PROVE  /\ IsFiniteSet(DOMAIN book)
         /\ Cardinality(DOMAIN book) \in Nat
         /\ Position(i) \in Nat /\ Position(i) < Cardinality(DOMAIN book)
<1> DEFINE S == {j \in DOMAIN book : Before(j, i)}
<1>1. IsFiniteSet(DOMAIN book)
  BY Bounds, FS_Subset DEF TypeOK
<1>2. S \subseteq DOMAIN book /\ i \notin S
  <2>1. book[i] \in Nat /\ i \in Nat
    BY Bounds DEF TypeOK
  <2>2. QED
    BY <2>1 DEF Before
<1>3. IsFiniteSet(S) /\ Cardinality(S) <= Cardinality(DOMAIN book) /\ Cardinality(S) # Cardinality(DOMAIN book)
  BY <1>1, <1>2, FS_Subset
<1>4. Cardinality(S) \in Nat /\ Cardinality(DOMAIN book) \in Nat
  BY <1>1, <1>3, FS_CardinalityType
<1>5. Position(i) = Cardinality(S)
  BY DEF Position
<1> HIDE DEF S
<1>6. QED
  BY <1>1, <1>3, <1>4, <1>5

\* Removing books moves the others forward.
LEMMA RemovalMovesForward ==
  ASSUME TypeOK, NEW i \in Id, Remove(i), NEW j \in DOMAIN book'
  PROVE  j \in DOMAIN book /\ Position(j)' <= Position(j)
<1>1. book' = [k \in DOMAIN book \ {i} |-> book[k]]
  BY DEF Remove
<1>2. j \in DOMAIN book
  BY <1>1
<1> DEFINE S == {k \in DOMAIN book : Before(k, j)}
           T == {k \in DOMAIN book' : Before(k, j)'}
<1>3. T \subseteq S
  BY <1>1 DEF Before
<1>4. IsFiniteSet(S)
  BY <1>2, PositionIs, FS_Subset
<1>5. Cardinality(T) <= Cardinality(S)
  BY <1>3, <1>4, FS_Subset
<1>6. QED
  BY <1>2, <1>5 DEF Position

\* Adding books moves the others back.
LEMMA AdditionMovesBack ==
  ASSUME TypeOK, TypeOK', NEW i \in Id, NEW t \in Title, Add(i, t), NEW j \in DOMAIN book
  PROVE  j \in DOMAIN book' /\ Position(j) <= Position(j)'
<1>1. book' = [k \in DOMAIN book \cup {i} |-> IF k = i THEN t ELSE book[k]] /\ i \notin DOMAIN book
  BY DEF Add, TypeOK
<1>2. j \in DOMAIN book'
  BY <1>1
<1> DEFINE S == {k \in DOMAIN book : Before(k, j)}
           T == {k \in DOMAIN book' : Before(k, j)'}
<1>3. S \subseteq T
  BY <1>1 DEF Before
<1>4. IsFiniteSet(T)
  <2>1. IsFiniteSet(DOMAIN book')
    BY Bounds, FS_Subset DEF TypeOK
  <2>2. QED
    BY <2>1, FS_Subset
<1>5. Cardinality(S) <= Cardinality(T)
  BY <1>3, <1>4, FS_Subset
<1>6. QED
  BY <1>2, <1>5 DEF Position

----------------------------------------------------------------------------
(* Types.                                                                  *)

LEMMA InitTypes == Init => TypeOK
<1>1. 0 \in 0..Cardinality(Id)
  BY Bounds, FS_CardinalityType
<1>2. Init => issued \subseteq Id /\ DOMAIN book = issued /\ book \in [DOMAIN book -> Title]
  BY DEF Init
<1>3. Init => walking \in BOOLEAN /\ late \in BOOLEAN
  BY Zenon DEF Init
<1>4. Init => /\ page \in Nat /\ size \in Nat /\ phase \in Phase /\ total \in 0..Cardinality(Id)
              /\ items \subseteq Id /\ present \subseteq Id /\ seen \subseteq Id
              /\ repeated \subseteq seen /\ written \subseteq Write
  BY <1>1 DEF Init, Phase
<1>5. QED
  BY <1>2, <1>3, <1>4, Zenon DEF TypeOK

LEMMA AskTypes ==
  ASSUME TypeOK, NEW p \in Nat, NEW s \in Nat, Ask(p, s)
  PROVE  page' \in Nat /\ size' \in Nat /\ phase' \in Phase /\ total' \in 0..Cardinality(Id)
         /\ items' \subseteq Id /\ late' \in BOOLEAN
<1>1. 0 \in 0..Cardinality(Id)
  BY Bounds, FS_CardinalityType
<1>2. QED
  BY <1>1 DEF Ask, Phase

LEMMA NextTypes == TypeOK /\ [Next]_vars => TypeOK'
<1> SUFFICES ASSUME TypeOK, [Next]_vars PROVE TypeOK'
  OBVIOUS
<1>1. ASSUME NEW p \in PageRequest, NEW s \in SizeRequest, Open(p, s) PROVE TypeOK'
  <2>1. p \in Nat /\ s \in Nat /\ Ask(p, s)
    BY <1>1, Bounds DEF Open
  <2>2. (p = 1) \in BOOLEAN /\ {i \in DOMAIN book : p = 1} \subseteq Id
    BY DEF TypeOK
  <2>3. QED
    BY <1>1, <2>1, <2>2, AskTypes DEF Open, TypeOK, Write
<1>2. CASE FollowNext
  <2>1. page + 1 \in Nat /\ size \in Nat /\ Ask(page + 1, size)
    BY <1>2 DEF FollowNext, TypeOK
  <2>2. QED
    BY <1>2, <2>1, AskTypes DEF FollowNext, TypeOK
<1>3. CASE Refuse \/ Fail
  BY <1>3 DEF Refuse, Fail, TypeOK, Phase, walk
<1>4. CASE Count
  <2>1. Cardinality(DOMAIN book) \in 0..Cardinality(Id)
    <3>1. DOMAIN book \subseteq Id /\ IsFiniteSet(Id)
      BY Bounds DEF TypeOK
    <3>2. /\ Cardinality(DOMAIN book) \in Nat /\ Cardinality(Id) \in Nat
          /\ Cardinality(DOMAIN book) <= Cardinality(Id)
      BY <3>1, FS_Subset, FS_CardinalityType
    <3>3. QED
      BY <3>2
  <2>2. QED
    BY <1>4, <2>1 DEF Count, TypeOK, Phase, walk
<1>5. CASE Fetch
  <2>1. items' \subseteq Id
    BY <1>5 DEF Fetch, PageAt, TypeOK
  <2>2. QED
    BY <1>5, <2>1 DEF Fetch, TypeOK, Phase
<1>6. ASSUME NEW i \in Id, NEW t \in Title, Add(i, t) PROVE TypeOK'
  <2>1. /\ book' = [j \in DOMAIN book \cup {i} |-> IF j = i THEN t ELSE book[j]]
        /\ issued' = issued \cup {i} /\ written' \subseteq written \cup {"add"}
        /\ late' = (late \/ (walking /\ phase = "counted"))
        /\ UNCHANGED <<request, walking, present, seen, repeated>>
    BY <1>6 DEF Add, Wrote
  <2>2. DOMAIN book' \subseteq issued' /\ book' \in [DOMAIN book' -> Title] /\ issued' \subseteq Id
    BY <2>1 DEF TypeOK
  <2>3. written' \subseteq Write
    BY <2>1 DEF TypeOK, Write
  <2>4. late' \in BOOLEAN
    BY <2>1, Zenon DEF TypeOK
  <2>5. QED
    BY <2>1, <2>2, <2>3, <2>4 DEF TypeOK, request
<1>7. ASSUME NEW i \in Id, Remove(i) PROVE TypeOK'
  <2>1. /\ book' = [j \in DOMAIN book \ {i} |-> book[j]]
        /\ written' \subseteq written \cup {"remove"}
        /\ UNCHANGED <<issued, request, walking, present, seen, repeated, late>>
    BY <1>7 DEF Remove, Wrote
  <2>2. QED
    BY <2>1 DEF TypeOK, request, Write
<1>8. ASSUME NEW i \in Id, NEW t \in Title, Retitle(i, t) PROVE TypeOK'
  <2>1. /\ book' = [book EXCEPT ![i] = t] /\ i \in DOMAIN book
        /\ written' \subseteq written \cup {"retitle"}
        /\ UNCHANGED <<issued, request, walking, present, seen, repeated, late>>
    BY <1>8 DEF Retitle, Wrote
  <2>2. QED
    BY <2>1 DEF TypeOK, request, Write
<1>9. CASE UNCHANGED vars
  BY <1>9 DEF vars, request, walk, TypeOK
<1>10. QED
  BY <1>1, <1>2, <1>3, <1>4, <1>5, <1>6, <1>7, <1>8, <1>9 DEF Next, Read, Change

\* The response keeps its types, whoever writes meanwhile and whatever fails.
THEOREM TypeCorrect == Spec => []TypeOK
BY InitTypes, NextTypes, PTL DEF Spec

----------------------------------------------------------------------------
(* The walk.                                                               *)

\* How many places of the list the pages shown so far have covered.
Covered == IF phase = "shown" THEN page * size ELSE (page - 1) * size

\* As long as books are only removed, those shown stay within what is covered.
ShownStaysBehind ==
  written \subseteq {"remove"} =>
    /\ repeated = {}
    /\ \A i \in seen \cap DOMAIN book : Position(i) < Covered

\* As long as books are only added, those not shown stay beyond it, and the last page
\* leaves none.
RestStaysAhead ==
  written \subseteq {"add"} =>
    /\ present \subseteq DOMAIN book
    /\ \A i \in present \ seen : Covered <= Position(i)
    /\ phase = "counted" /\ ~late => total = Cardinality(DOMAIN book)
    /\ phase = "shown" /\ ~HasNextPage /\ ~late => present \subseteq seen

\* A quiet walk looks at one table; an addition is on record.
Quiet == /\ written = {} => present = DOMAIN book /\ seen \subseteq present
         /\ late => "add" \in written

\* A walk cannot jump over the range of an int: its pages are at most a page apart.
NoWrap ==
  /\ page >= 1
  /\ phase = "shown" => (page - 1) * size < Half
  /\ phase \in {"asked", "counted"} /\ ValidQuery(page, size) => (page - 1) * size < Half + size

WalkInv ==
  /\ phase \in {"counted", "shown"} => ValidQuery(page, size)
  /\ walking => ShownStaysBehind /\ RestStaysAhead /\ Quiet /\ NoWrap

IInv == TypeOK /\ WalkInv

LEMMA OpenWalk ==
  ASSUME IInv, TypeOK', NEW p \in PageRequest, NEW s \in SizeRequest, Open(p, s)
  PROVE  WalkInv'
<1>1. /\ page' = p /\ size' = s /\ phase' = "asked" /\ total' = 0 /\ items' = {} /\ late' = FALSE
      /\ walking' = (p = 1) /\ present' = {i \in DOMAIN book : p = 1}
      /\ seen' = {} /\ repeated' = {} /\ written' = {} /\ book' = book
  BY DEF Open, Ask
<1>2. p \in Nat /\ s \in Nat
  BY Bounds
<1>3. SUFFICES ASSUME p = 1 PROVE ShownStaysBehind' /\ RestStaysAhead' /\ Quiet' /\ NoWrap'
  BY <1>1 DEF WalkInv
<1>4. Covered' = 0 /\ (page' - 1) * size' = 0
  BY <1>1, <1>2, <1>3 DEF Covered
<1>5. present' = DOMAIN book'
  BY <1>1, <1>3
<1>6. \A i \in present' : 0 <= Position(i)'
  <2>1. \A i \in DOMAIN book : Position(i) \in Nat
    BY PositionIs DEF IInv
  <2>2. \A i \in DOMAIN book : Position(i)' = Position(i)
    BY <1>1 DEF Position, Before
  <2>3. QED
    BY <1>1, <1>5, <2>1, <2>2
<1>7. ShownStaysBehind' /\ Quiet'
  BY <1>1, <1>5 DEF ShownStaysBehind, Quiet
<1>8. RestStaysAhead'
  BY <1>1, <1>4, <1>5, <1>6 DEF RestStaysAhead
<1>9. NoWrap'
  BY <1>1, <1>2, <1>3, <1>4, HalfIs DEF NoWrap
<1>10. QED
  BY <1>7, <1>8, <1>9

LEMMA FollowNextWalk ==
  ASSUME IInv, TypeOK', FollowNext
  PROVE  WalkInv'
<1>1. /\ phase = "shown" /\ page' = page + 1 /\ size' = size /\ phase' = "asked" /\ late' = FALSE
      /\ UNCHANGED <<book, walking, present, seen, repeated, written>>
  BY DEF FollowNext, Ask
<1>2. SUFFICES ASSUME walking PROVE ShownStaysBehind' /\ RestStaysAhead' /\ Quiet' /\ NoWrap'
  BY <1>1 DEF WalkInv
<1>3. ShownStaysBehind /\ RestStaysAhead /\ Quiet /\ NoWrap /\ ValidQuery(page, size)
  BY <1>1, <1>2 DEF IInv, WalkInv
<1>4. page \in Nat /\ size \in Nat
  BY DEF IInv, TypeOK
<1>5. Covered' = Covered /\ (page' - 1) * size' = page * size
  BY <1>1, <1>4 DEF Covered
<1>6. \A i \in DOMAIN book : Position(i)' = Position(i)
  BY <1>1 DEF Position, Before
<1>7. ShownStaysBehind' /\ Quiet'
  BY <1>1, <1>3, <1>5, <1>6 DEF ShownStaysBehind, Quiet
<1>8. RestStaysAhead'
  BY <1>1, <1>3, <1>5, <1>6 DEF RestStaysAhead
<1>9. NoWrap'
  <2>1. page * size = (page - 1) * size + size /\ (page - 1) * size \in Int
    BY <1>4
  <2>2. page * size < Half + size
    BY <1>1, <1>3, <1>4, <2>1, HalfIs DEF NoWrap
  <2>3. QED
    BY <1>1, <1>3, <1>4, <1>5, <2>2 DEF NoWrap
<1>10. QED
  BY <1>7, <1>8, <1>9

LEMMA CountWalk ==
  ASSUME IInv, TypeOK', Count
  PROVE  WalkInv'
<1>1. /\ phase = "asked" /\ ValidQuery(page, size) /\ phase' = "counted"
      /\ total' = Cardinality(DOMAIN book)
      /\ UNCHANGED <<book, page, size, walking, present, seen, repeated, written, late>>
  BY DEF Count, walk
<1>2. ValidQuery(page, size)'
  BY <1>1 DEF ValidQuery
<1>3. SUFFICES ASSUME walking PROVE ShownStaysBehind' /\ RestStaysAhead' /\ Quiet' /\ NoWrap'
  BY <1>1, <1>2 DEF WalkInv
<1>4. ShownStaysBehind /\ RestStaysAhead /\ Quiet /\ NoWrap
  BY <1>3 DEF IInv, WalkInv
<1>5. Covered' = Covered
  BY <1>1 DEF Covered
<1>6. \A i \in DOMAIN book : Position(i)' = Position(i)
  BY <1>1 DEF Position, Before
<1>7. ShownStaysBehind' /\ Quiet' /\ NoWrap'
  BY <1>1, <1>4, <1>5, <1>6 DEF ShownStaysBehind, Quiet, NoWrap
<1>8. RestStaysAhead'
  BY <1>1, <1>4, <1>5, <1>6 DEF RestStaysAhead
<1>9. QED
  BY <1>7, <1>8

\* Where the rows of a page of a walk begin.
LEMMA OffsetIs ==
  ASSUME IInv, walking, phase = "counted", Offset(page, size) >= 0
  PROVE  /\ Offset(page, size) = (page - 1) * size
         /\ (page - 1) * size \in Nat /\ (page - 1) * size < Half
<1> DEFINE start == (page - 1) * size
<1>1. ValidQuery(page, size) /\ NoWrap /\ page \in Nat /\ size \in Nat
  BY DEF IInv, WalkInv, TypeOK
<1>2. size <= Half /\ page - 1 \in Nat
  BY <1>1, HalfIs, Bounds DEF ValidQuery
<1>3. start \in Nat
  BY <1>1, <1>2
<1>4. start < Half + size
  BY <1>1 DEF NoWrap
<1>5. Offset(page, size) = AsInt(start)
  BY DEF Offset
<1> HIDE DEF start
<1>6. AsInt(start) = IF start < Half THEN start ELSE start - 2 * Half
  <2>1. start < 2 * Half
    BY <1>1, <1>2, <1>3, <1>4, HalfIs
  <2>2. QED
    BY <1>3, <2>1, AsIntIs
<1>7. start < Half
  BY <1>1, <1>2, <1>3, <1>4, <1>5, <1>6, HalfIs
<1>8. QED
  BY <1>3, <1>5, <1>6, <1>7 DEF start

LEMMA FetchWalk ==
  ASSUME IInv, TypeOK', Fetch
  PROVE  WalkInv'
<1>1. /\ phase = "counted" /\ Offset(page, size) >= 0 /\ phase' = "shown"
      /\ items' = PageAt(Offset(page, size), size)
      /\ seen' = seen \cup {i \in items' : walking} /\ repeated' = repeated \cup (seen \cap items')
      /\ UNCHANGED <<book, page, size, total, walking, present, written, late>>
  BY DEF Fetch
<1>2. ValidQuery(page, size) /\ ValidQuery(page, size)'
  BY <1>1 DEF IInv, WalkInv, ValidQuery
<1>3. SUFFICES ASSUME walking PROVE ShownStaysBehind' /\ RestStaysAhead' /\ Quiet' /\ NoWrap'
  BY <1>1, <1>2 DEF WalkInv
<1>4. ShownStaysBehind /\ RestStaysAhead /\ Quiet /\ NoWrap
  BY <1>3 DEF IInv, WalkInv
<1> DEFINE start == (page - 1) * size
           next  == page * size
<1>5. Offset(page, size) = start /\ start \in Nat /\ start < Half
  BY <1>1, <1>3, OffsetIs
<1>6. page \in Nat /\ size \in Nat \ {0} /\ page >= 1
  BY <1>2 DEF IInv, TypeOK, ValidQuery
<1>7. next = start + size /\ next \in Nat
  BY <1>6
<1>8. Covered = start /\ Covered' = next
  BY <1>1 DEF Covered
<1>9. \A i \in DOMAIN book : Position(i)' = Position(i) /\ Position(i) \in Nat
  <2>1. \A i \in DOMAIN book : Position(i) \in Nat
    BY PositionIs DEF IInv
  <2>2. QED
    BY <1>1, <2>1 DEF Position, Before
<1>10. seen' = seen \cup items'
  BY <1>1, <1>3
<1>11. /\ NoWrap'
       /\ start = (page - 1) * size
  BY <1>1, <1>4, <1>5 DEF NoWrap
<1> HIDE DEF start, next
<1>12. items' = {i \in DOMAIN book : start <= Position(i) /\ Position(i) < next}
  <2>1. \A i \in DOMAIN book : Position(i) \in start..(start + size - 1)
                               <=> start <= Position(i) /\ Position(i) < next
    BY <1>5, <1>6, <1>7, <1>9
  <2>2. QED
    BY <1>1, <1>5, <2>1 DEF PageAt
<1>13. ShownStaysBehind'
  <2>1. SUFFICES ASSUME written \subseteq {"remove"}
                 PROVE  repeated' = {} /\ \A i \in seen' \cap DOMAIN book : Position(i) < next
    BY <1>1, <1>8, <1>9 DEF ShownStaysBehind
  <2>2. repeated = {} /\ \A i \in seen \cap DOMAIN book : Position(i) < start
    BY <1>4, <1>8, <2>1 DEF ShownStaysBehind
  <2>3. seen \cap items' = {}
    BY <1>5, <1>9, <1>12, <2>2
  <2>4. ASSUME NEW i \in seen' \cap DOMAIN book PROVE Position(i) < next
    BY <1>5, <1>6, <1>7, <1>9, <1>10, <1>12, <2>2, <2>4
  <2>5. QED
    BY <1>1, <2>2, <2>3, <2>4
<1>14. RestStaysAhead'
  <2>1. SUFFICES ASSUME written \subseteq {"add"}
                 PROVE  /\ present \subseteq DOMAIN book
                        /\ \A i \in present \ seen' : next <= Position(i)
                        /\ ~HasNextPage /\ ~late => present \subseteq seen'
    <3>1. HasNextPage' <=> HasNextPage
      BY <1>1 DEF HasNextPage
    <3>2. QED
      BY <1>1, <1>8, <1>9, <3>1 DEF RestStaysAhead
  <2>2. /\ present \subseteq DOMAIN book /\ \A i \in present \ seen : start <= Position(i)
        /\ ~late => total = Cardinality(DOMAIN book)
    BY <1>1, <1>4, <1>8, <2>1 DEF RestStaysAhead
  <2>3. ASSUME NEW i \in present \ seen' PROVE next <= Position(i)
    <3>1. i \in DOMAIN book /\ start <= Position(i) /\ i \notin items'
      BY <1>10, <2>2, <2>3
    <3>2. QED
      BY <1>7, <1>9, <1>12, <3>1
  <2>4. ASSUME ~HasNextPage, ~late, NEW i \in present \ seen' PROVE FALSE
    <3>1. i \in DOMAIN book /\ next <= Position(i)
      BY <2>2, <2>3, <2>4
    <3>2. Position(i) < total /\ total \in Nat
      BY <2>2, <2>4, <3>1, PositionIs DEF IInv
    <3>3. total <= next
      BY <1>6, <2>4, <3>2, PagesSuffice DEF HasNextPage, next
    <3>4. QED
      BY <1>7, <1>9, <3>1, <3>2, <3>3
  <2>5. QED
    BY <2>2, <2>3, <2>4
<1>15. Quiet'
  BY <1>1, <1>4, <1>10, <1>12 DEF Quiet
<1>16. QED
  BY <1>11, <1>13, <1>14, <1>15

LEMMA EndWalk ==
  ASSUME IInv, TypeOK', Refuse \/ Fail
  PROVE  WalkInv'
<1>1. /\ phase \in {"asked", "counted"} /\ phase' \in {"refused", "failed"}
      /\ UNCHANGED <<book, page, size, total, walking, present, seen, repeated, written, late>>
  BY DEF Refuse, Fail, walk
<1>2. SUFFICES ASSUME walking PROVE ShownStaysBehind' /\ RestStaysAhead' /\ Quiet' /\ NoWrap'
  BY <1>1 DEF WalkInv
<1>3. ShownStaysBehind /\ RestStaysAhead /\ Quiet /\ NoWrap
  BY <1>2 DEF IInv, WalkInv
<1>4. Covered' = Covered
  BY <1>1 DEF Covered
<1>5. \A i \in DOMAIN book : Position(i)' = Position(i)
  BY <1>1 DEF Position, Before
<1>6. ShownStaysBehind' /\ Quiet' /\ NoWrap'
  BY <1>1, <1>3, <1>4, <1>5 DEF ShownStaysBehind, Quiet, NoWrap
<1>7. RestStaysAhead'
  BY <1>1, <1>3, <1>4, <1>5 DEF RestStaysAhead
<1>8. QED
  BY <1>6, <1>7

\* Positions after a write.
LEMMA PositionTyped ==
  ASSUME TypeOK', NEW i \in DOMAIN book'
  PROVE  Position(i)' \in Nat
<1> DEFINE S == {j \in DOMAIN book' : Before(j, i)'}
<1>1. IsFiniteSet(DOMAIN book')
  BY Bounds, FS_Subset DEF TypeOK
<1>2. Cardinality(S) \in Nat
  BY <1>1, FS_Subset, FS_CardinalityType
<1>3. QED
  BY <1>2 DEF Position

LEMMA RemoveWalk ==
  ASSUME IInv, TypeOK', NEW i \in Id, Remove(i)
  PROVE  WalkInv'
<1>1. /\ UNCHANGED <<page, size, phase, total, walking, present, seen, repeated, late>>
      /\ written' = written \cup {k \in {"remove"} : walking}
  BY DEF Remove, Wrote, request
<1>2. ValidQuery(page, size)' <=> ValidQuery(page, size)
  BY <1>1 DEF ValidQuery
<1>3. SUFFICES ASSUME walking PROVE ShownStaysBehind' /\ RestStaysAhead' /\ Quiet' /\ NoWrap'
  BY <1>1, <1>2 DEF IInv, WalkInv
<1>4. ShownStaysBehind /\ Quiet /\ NoWrap /\ written' = written \cup {"remove"}
  BY <1>1, <1>3 DEF IInv, WalkInv
<1>5. RestStaysAhead' /\ Quiet' /\ NoWrap'
  BY <1>1, <1>2, <1>4 DEF RestStaysAhead, Quiet, NoWrap
<1>6. ASSUME written \subseteq {"remove"}, NEW j \in seen \cap DOMAIN book' PROVE Position(j)' < Covered
  <2>1. j \in DOMAIN book /\ Position(j)' <= Position(j) /\ Position(j) < Covered
    BY <1>4, <1>6, RemovalMovesForward DEF IInv, ShownStaysBehind
  <2>2. Position(j) \in Nat /\ Position(j)' \in Nat
    <3>1. Position(j) \in Nat
      BY <2>1, PositionIs DEF IInv
    <3>2. Position(j)' \in Nat
      BY <1>6, PositionTyped
    <3>3. QED
      BY <3>1, <3>2
  <2>3. Covered \in Int
    BY DEF Covered, IInv, TypeOK
  <2>4. QED
    BY <2>1, <2>2, <2>3
<1>7. ShownStaysBehind'
  <2>1. Covered' = Covered
    BY <1>1 DEF Covered
  <2>2. QED
    BY <1>1, <1>4, <1>6, <2>1 DEF ShownStaysBehind
<1>8. QED
  BY <1>5, <1>7

LEMMA AddWalk ==
  ASSUME IInv, TypeOK', NEW i \in Id, NEW t \in Title, Add(i, t)
  PROVE  WalkInv'
<1>1. /\ UNCHANGED <<page, size, phase, total, walking, present, seen, repeated>>
      /\ written' = written \cup {k \in {"add"} : walking}
      /\ late' = (late \/ (walking /\ phase = "counted"))
  BY DEF Add, Wrote, request
<1>2. ValidQuery(page, size)' <=> ValidQuery(page, size)
  BY <1>1 DEF ValidQuery
<1>3. SUFFICES ASSUME walking PROVE ShownStaysBehind' /\ RestStaysAhead' /\ Quiet' /\ NoWrap'
  BY <1>1, <1>2 DEF IInv, WalkInv
<1>4. RestStaysAhead /\ Quiet /\ NoWrap /\ written' = written \cup {"add"}
  BY <1>1, <1>3 DEF IInv, WalkInv
<1>5. ShownStaysBehind' /\ Quiet' /\ NoWrap'
  BY <1>1, <1>2, <1>4 DEF ShownStaysBehind, Quiet, NoWrap
<1>6. DOMAIN book \subseteq DOMAIN book'
  BY DEF Add
<1>7. ASSUME written \subseteq {"add"}, NEW j \in present \ seen PROVE Covered <= Position(j)'
  <2>1. j \in DOMAIN book /\ Covered <= Position(j)
    BY <1>4, <1>7 DEF RestStaysAhead
  <2>2. Position(j) <= Position(j)'
    BY <2>1, AdditionMovesBack DEF IInv
  <2>3. Position(j) \in Nat /\ Position(j)' \in Nat
    <3>1. Position(j) \in Nat
      BY <2>1, PositionIs DEF IInv
    <3>2. Position(j)' \in Nat
      BY <2>1, <1>6, PositionTyped
    <3>3. QED
      BY <3>1, <3>2
  <2>4. Covered \in Int
    BY DEF Covered, IInv, TypeOK
  <2>5. QED
    BY <2>1, <2>2, <2>3, <2>4
<1>8. RestStaysAhead'
  <2>1. Covered' = Covered /\ (HasNextPage' <=> HasNextPage)
    BY <1>1 DEF Covered, HasNextPage
  <2>2. QED
    BY <1>1, <1>3, <1>4, <1>6, <1>7, <2>1 DEF RestStaysAhead
<1>9. QED
  BY <1>5, <1>8

LEMMA RetitleWalk ==
  ASSUME IInv, TypeOK', NEW i \in Id, NEW t \in Title, Retitle(i, t)
  PROVE  WalkInv'
<1>1. /\ UNCHANGED <<page, size, phase, walking, late>>
      /\ written' = written \cup {k \in {"retitle"} : walking}
  BY DEF Retitle, Wrote, request
<1>2. ValidQuery(page, size)' <=> ValidQuery(page, size)
  BY <1>1 DEF ValidQuery
<1>3. SUFFICES ASSUME walking PROVE ShownStaysBehind' /\ RestStaysAhead' /\ Quiet' /\ NoWrap'
  BY <1>1, <1>2 DEF IInv, WalkInv
<1>4. Quiet /\ NoWrap /\ written' = written \cup {"retitle"}
  BY <1>1, <1>3 DEF IInv, WalkInv
<1>5. QED
  BY <1>1, <1>2, <1>4 DEF ShownStaysBehind, RestStaysAhead, Quiet, NoWrap

LEMMA Invariance == Spec => []IInv
<1>1. Init => IInv
  BY InitTypes DEF Init, IInv, WalkInv
<1>2. IInv /\ [Next]_vars => IInv'
  <2> SUFFICES ASSUME IInv, [Next]_vars PROVE IInv'
    OBVIOUS
  <2>1. TypeOK'
    BY NextTypes DEF IInv
  <2>2. CASE Read
    BY <2>1, <2>2, OpenWalk, FollowNextWalk, EndWalk, CountWalk, FetchWalk DEF Read, IInv
  <2>3. CASE Change
    BY <2>1, <2>3, AddWalk, RemoveWalk, RetitleWalk DEF Change, IInv
  <2>4. CASE UNCHANGED vars
    <3>1. UNCHANGED <<book, page, size, phase, total, walking, present, seen, repeated, written, late>>
      BY <2>4 DEF vars, request, walk
    <3>2. WalkInv'
      BY <3>1 DEF IInv, WalkInv, ShownStaysBehind, RestStaysAhead, Quiet, NoWrap, Covered,
                  Position, Before, HasNextPage, ValidQuery
    <3>3. QED
      BY <2>1, <3>2 DEF IInv
  <2>5. QED
    BY <2>2, <2>3, <2>4 DEF Next
<1>3. QED
  BY <1>1, <1>2, PTL DEF Spec

----------------------------------------------------------------------------
(* One page.                                                               *)

\* The rank of a book and the page it is on.
LEMMA PageOfRank ==
  ASSUME NEW n \in Nat, NEW s \in Nat \ {0}, NEW p \in Nat \ {0}
  PROVE  n \div s + 1 = p <=> (p - 1) * s <= n /\ n <= (p - 1) * s + s - 1
<1> DEFINE q == n \div s
           r == n % s
           o == p - 1
<1>1. n = s * q + r /\ r \in 0..(s - 1) /\ q \in Int /\ o \in Int /\ (q + 1 = p <=> q = o)
  OBVIOUS
<1> HIDE DEF q, r, o
<1>2. s * q \in Int /\ s * o \in Int /\ o * s = s * o
  BY <1>1
<1>3. CASE q = o
  BY <1>1, <1>2, <1>3
<1>4. CASE q < o
  <2>1. s * (q + 1) <= s * o /\ s * (q + 1) = s * q + s
    BY <1>1, <1>4
  <2>2. n < s * o
    BY <1>1, <1>2, <2>1
  <2>3. QED
    BY <1>1, <1>2, <1>4, <2>2
<1>5. CASE o < q
  <2>1. s * (o + 1) <= s * q /\ s * (o + 1) = s * o + s
    BY <1>1, <1>5
  <2>2. s * o + s <= n
    BY <1>1, <1>2, <2>1
  <2>3. QED
    BY <1>1, <1>2, <1>5, <2>2
<1>6. (q + 1 = p <=> o * s <= n /\ n <= o * s + s - 1)
  BY <1>1, <1>3, <1>4, <1>5
<1>7. QED
  BY <1>6 DEF q, o

\* The page after one that is not the last begins within the table.
LEMMA NextPageBegins ==
  ASSUME NEW t \in Nat, NEW s \in Nat \ {0}, NEW p \in Nat, p < TotalPages(t, s)
  PROVE  p * s < t
<1> DEFINE q == (t + s - 1) \div s
           r == (t + s - 1) % s
<1>1. t + s - 1 \in Nat
  OBVIOUS
<1>2. t + s - 1 = s * q + r /\ r \in 0..(s - 1) /\ q \in Int
  BY <1>1
<1>3. p + 1 <= q
  BY <1>2 DEF TotalPages
<1> HIDE DEF q, r
<1>4. s * (p + 1) <= s * q /\ s * (p + 1) = p * s + s /\ s * q \in Int /\ p * s \in Int
  BY <1>2, <1>3
<1>5. QED
  BY <1>2, <1>4

\* Where the page asked for begins is a number an int holds.
Fits == (page - 1) * size < Half

\* A page that begins within an int holds the books of its ranks, whoever writes meanwhile.
LEMMA FittingPage ==
  ASSUME IInv, Fits, Fetch
  PROVE  items' = {i \in DOMAIN book : Position(i) \div size + 1 = page}
<1> DEFINE start == (page - 1) * size
<1>1. /\ page \in Nat \ {0} /\ size \in Nat \ {0}
      /\ items' = PageAt(Offset(page, size), size)
  BY DEF Fetch, IInv, TypeOK, WalkInv, ValidQuery
<1>2. start \in Nat
  BY <1>1
<1>3. Offset(page, size) = start
  <2>1. start < Half /\ Offset(page, size) = AsInt(start)
    BY DEF Fits, Offset
  <2> HIDE DEF start
  <2>2. QED
    BY <1>2, <2>1, AsIntIs, HalfIs
<1>4. ASSUME NEW i \in DOMAIN book
      PROVE  Position(i) \in start..(start + size - 1) <=> Position(i) \div size + 1 = page
  <2>1. Position(i) \in Nat
    BY PositionIs DEF IInv
  <2>2. Position(i) \div size + 1 = page <=> start <= Position(i) /\ Position(i) <= start + size - 1
    BY <1>1, <2>1, PageOfRank
  <2> HIDE DEF start
  <2>3. QED
    BY <1>1, <1>2, <2>1, <2>2
<1>5. QED
  BY <1>1, <1>3, <1>4 DEF PageAt

LEMMA FetchOnly == Next /\ phase = "counted" /\ phase' = "shown" => Fetch
BY DEF Next, Read, Change, Open, Ask, FollowNext, Refuse, Count, Fail, Add, Remove, Retitle, request

----------------------------------------------------------------------------
(* The theorems.                                                           *)

\* However books are removed during a walk, none is shown twice.
THEOREM RemovalsNeverRepeat == Spec => []RemovalsRepeatNothing
<1>1. IInv => RemovalsRepeatNothing
  BY DEF IInv, WalkInv, ShownStaysBehind, RemovalsRepeatNothing
<1>2. QED
  BY <1>1, Invariance, PTL

\* However books are added during a walk, it shows every book that was there when it began,
\* unless one was added between the count and the rows of the last page.
THEOREM AdditionsNeverSkip == Spec => []AdditionsSkipNothing
<1>1. IInv => AdditionsSkipNothing
  BY DEF IInv, WalkInv, RestStaysAhead, AdditionsSkipNothing, WalkEnded
<1>2. QED
  BY <1>1, Invariance, PTL

\* When nobody writes, a walk shows every book exactly once.
THEOREM QuietWalksAreExact == Spec => []QuietWalkIsExact
<1>1. IInv => QuietWalkIsExact
  BY DEF IInv, WalkInv, ShownStaysBehind, RestStaysAhead, Quiet, QuietWalkIsExact, WalkEnded
<1>2. QED
  BY <1>1, Invariance, PTL

\* While there is more than one page, the pager stays within the pages there are, shows
\* the current one, and has a link to another page that exists.
THEOREM PagerAlwaysLeadsBack == Spec => []PagerLeadsBack
<1>1. IInv => PagerLeadsBack
  <2> DEFINE pages == pagination.totalPages
  <2>1. pagination.page = page /\ pages = IF phase = "shown" THEN TotalPages(total, size) ELSE 1
    BY DEF pagination, toNumber, payload, getApiV1BooksResponse
  <2>2. phase # "shown" => PagerLeadsBack
    BY <2>1 DEF PagerLeadsBack
  <2>3. SUFFICES ASSUME IInv, phase = "shown", TotalPages(total, size) > 1
                 PROVE  /\ pageWindow(page, TotalPages(total, size)) \subseteq 1..TotalPages(total, size)
                        /\ page <= TotalPages(total, size) => page \in pageWindow(page, TotalPages(total, size))
                        /\ \E p \in Links(page, TotalPages(total, size)) :
                             p \in 1..TotalPages(total, size) /\ p # page
    BY <2>1, <2>2 DEF PagerLeadsBack
  <2>4. page \in Nat \ {0} /\ size \in Nat \ {0}
    BY <2>3 DEF IInv, TypeOK, WalkInv, ValidQuery
  <2>5. total \in Nat
    BY <2>3, Bounds, FS_CardinalityType DEF IInv, TypeOK
  <2>6. TotalPages(total, size) \in Nat
    BY <2>4, <2>5, PagesTyped
  <2>7. QED
    BY <2>3, <2>4, <2>6, WindowIs, LinksLeadOn
<1>2. QED
  BY <1>1, Invariance, PTL

\* Whoever writes between the count and the rows, and whatever page is asked for, a page
\* whose first row an int can count to holds exactly the books whose rank falls into its
\* run of the order (Skip and Take over OrderBy and ThenBy).
THEOREM FittingPagesAreExact ==
  Spec => [][Fits /\ phase = "counted" /\ phase' = "shown" =>
               items' = {i \in DOMAIN book : Position(i) \div size + 1 = page}]_vars
<1>1. IInv /\ [Next]_vars =>
        [Fits /\ phase = "counted" /\ phase' = "shown" =>
           items' = {i \in DOMAIN book : Position(i) \div size + 1 = page}]_vars
  BY FetchOnly, FittingPage
<1>2. QED
  BY <1>1, Invariance, PTL DEF Spec

\* Every page holds exactly its books where no request the validator lets through goes
\* beyond an int and an int can count the table; without the first, the argument of Skip
\* wraps around.
THEOREM PagesHoldTheirBooks ==
  ASSUME \A p \in PageRequest : \A s \in SizeRequest : ValidQuery(p, s) => (p - 1) * s < Half,
         Cardinality(Id) <= Half
  PROVE  Spec => PageHoldsItsBooks
<1> DEFINE Inv == ValidQuery(page, size) => Fits
<1>1. Init => Inv
  BY HalfIs DEF Init, Fits
<1>2. IInv /\ Inv /\ [Next]_vars => Inv'
  <2> SUFFICES ASSUME IInv, Inv, [Next]_vars PROVE Inv'
    OBVIOUS
  <2>1. ASSUME NEW p \in PageRequest, NEW s \in SizeRequest, Open(p, s) PROVE Inv'
    BY <2>1 DEF Open, Ask, Fits, ValidQuery
  <2>2. CASE FollowNext
    <3>1. /\ page' = page + 1 /\ size' = size /\ page < TotalPages(total, size)
          /\ page \in Nat /\ size \in Nat \ {0} /\ total \in 0..Cardinality(Id)
      BY <2>2 DEF FollowNext, Ask, HasNextPage, IInv, TypeOK, WalkInv, ValidQuery
    <3>2. total \in Nat /\ Cardinality(Id) \in Nat /\ total <= Half
      BY <3>1, HalfIs, Bounds, FS_CardinalityType
    <3>3. page * size < total /\ page * size \in Int
      BY <3>1, <3>2, NextPageBegins
    <3>4. (page' - 1) * size' = page * size
      BY <3>1
    <3>5. QED
      BY <3>2, <3>3, <3>4, HalfIs DEF Fits
  <2>3. CASE UNCHANGED <<page, size>>
    BY <2>3 DEF Fits, ValidQuery
  <2>4. QED
    BY <2>1, <2>2, <2>3 DEF Next, Read, Change, Refuse, Count, Fetch, Fail, Add, Remove, Retitle,
                            request, vars
<1>3. IInv /\ Inv /\ [Next]_vars =>
        [phase = "counted" /\ phase' = "shown" =>
           items' = {i \in DOMAIN book : Position(i) \div size + 1 = page}]_vars
  <2>1. IInv /\ Inv /\ phase = "counted" => Fits
    BY DEF IInv, WalkInv
  <2>2. QED
    BY <2>1, FetchOnly, FittingPage
<1>4. QED
  BY <1>1, <1>2, <1>3, Invariance, PTL DEF Spec, PageHoldsItsBooks

=============================================================================
