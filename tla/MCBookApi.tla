----------------------------- MODULE MCBookApi -----------------------------
(***************************************************************************)
(* Instances of BookApi for TLC. The texts, users and tables below are the *)
(* smallest that still tell every validation rule, every policy and every  *)
(* column apart; the call sets focus a run on one question each.           *)
(***************************************************************************)
EXTENDS BookForms, TLC

\* One title on each side of both limits, and a long enough blank one.
MCTitleLength == ("short" :> 2) @@ ("dune" :> 3) @@ ("emma" :> 200)
                 @@ ("huge" :> 201) @@ ("blank" :> 5)
MCBlankTitle == {"blank"}
MCTitle == DOMAIN MCTitleLength

\* " F" is short enough for the validator and trims to "F"; " NF" trims to "NF" but
\* is too long before trimming; "X" passes the validator and no genre has it; "  "
\* is empty once trimmed.
MCTrim == ("F" :> "F") @@ ("NF" :> "NF") @@ ("M" :> "M") @@ (" F" :> "F")
          @@ (" NF" :> "NF") @@ ("X" :> "X") @@ ("  " :> "") @@ ("" :> "")
MCGenreLength == ("F" :> 1) @@ ("NF" :> 2) @@ ("M" :> 1) @@ (" F" :> 2)
                 @@ (" NF" :> 3) @@ ("X" :> 1) @@ ("  " :> 2) @@ ("" :> 0)
MCGenreCode == DOMAIN MCTrim

\* Two administrators, an editor who may not delete, a reader and a stranger.
MCRolesOf == ("ann" :> Role) @@ ("bob" :> Role) @@ ("eve" :> {"view", "create", "edit"})
             @@ ("rea" :> {"view"}) @@ ("nil" :> {})
MCUser == DOMAIN MCRolesOf

SeedRow == [title |-> "dune", genre |-> "F", createdDate |-> 0,
            updatedDate |-> 0, updatedBy |-> "ann"]

MCEmptyOrOne == {<<>>, [i \in {"b1"} |-> SeedRow]}
MCOne == {[i \in {"b1"} |-> SeedRow]}

Calls(ops, users, ids, titles, genres) ==
  [op : ops, user : users, id : ids, title : titles, genre : genres]

\* Every call there is, on the book that may exist and on the empty GUID.
AllCalls == Calls(Operation, MCUser, {"b1", NoId}, MCTitle, MCGenreCode)

\* Updates by two users that change different columns of the seeded row, deletes of
\* it and of the book a create adds, and a read.
RaceCalls ==
  Calls({"Update"}, {"ann", "bob"}, {"b1"}, {"emma"}, {"F"})
  \cup Calls({"Update"}, {"ann", "bob"}, {"b1"}, {"dune"}, {"M"})
  \cup Calls({"Delete"}, {"ann"}, {"b1", "b2"}, {"dune"}, {"F"})
  \cup Calls({"Get"}, {"ann"}, {"b1"}, {"dune"}, {"F"})
  \cup Calls({"Create"}, {"bob"}, {"b1"}, {"emma"}, {" F"})

\* Writers only, for the runs that follow a save through its retries.
WriteCalls ==
  Calls({"Update"}, {"ann", "bob"}, {"b1"}, {"emma"}, {"F", "X"})
  \cup Calls({"Delete"}, {"ann"}, {"b1", "b2"}, {"dune"}, {"F"})
  \cup Calls({"Create"}, {"bob"}, {"b1"}, {"emma"}, {"F"})

Symmetry == Permutations(Request)
============================================================================
