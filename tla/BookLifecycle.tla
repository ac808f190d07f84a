--------------------------- MODULE BookLifecycle ---------------------------
(***************************************************************************)
(* What the book service promises about its table, whatever the requests   *)
(* in flight: a book appears once, is revised in place without its         *)
(* creation date ever moving, holds only content the domain accepts, and   *)
(* once removed its identity is never used again.                          *)
(***************************************************************************)
EXTENDS BookRules

CONSTANT Id   \* book identities

VARIABLES
  book,       \* the table: a function from the identities present to rows
  gone        \* the identities removed so far

vars == <<book, gone>>

\* A row as the domain and the auditing accept it.
Sound(row) ==
  /\ row \in Row
  /\ ValidContent(row)
  /\ row.createdDate <= row.updatedDate

Init ==
  /\ DOMAIN book \subseteq Id
  /\ \A i \in DOMAIN book : Sound(book[i])
  /\ gone = {}

Add(i) ==
  /\ i \notin DOMAIN book \cup gone
  /\ DOMAIN book' = DOMAIN book \cup {i}
  /\ Sound(book'[i])
  /\ \A j \in DOMAIN book : book'[j] = book[j]
  /\ UNCHANGED gone

Revise(i) ==
  /\ i \in DOMAIN book
  /\ DOMAIN book' = DOMAIN book
  /\ Sound(book'[i])
  /\ book'[i].createdDate = book[i].createdDate
  /\ \A j \in DOMAIN book \ {i} : book'[j] = book[j]
  /\ UNCHANGED gone

Remove(i) ==
  /\ i \in DOMAIN book
  /\ DOMAIN book' = DOMAIN book \ {i}
  /\ \A j \in DOMAIN book' : book'[j] = book[j]
  /\ gone' = gone \cup {i}

Next == \E i \in Id : Add(i) \/ Revise(i) \/ Remove(i)

Spec == Init /\ [][Next]_vars

============================================================================
