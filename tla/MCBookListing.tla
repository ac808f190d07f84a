--------------------------- MODULE MCBookListing ---------------------------
(***************************************************************************)
(* Instances of BookListing for TLC. Numbers are scaled down: ints of a    *)
(* few bits and pages of at most three rows behave as ints of 32 bits and  *)
(* pages of a hundred, since only the wrap-around matters.                 *)
(***************************************************************************)
EXTENDS BookListing

\* Two titles for three books, so that some books share one.
MCId == 1..3
MCTitle == 1..2

\* Sizes on both sides of both limits, pages from below the first to beyond the last.
MCSize == {1, 2, 3}
MCPage == {0, 1, 6}

\* Every page an int can name.
AllPages == 1..(2^(IntBits - 1) - 1)
=============================================================================
