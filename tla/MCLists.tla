------------------------------- MODULE MCLists -------------------------------
(***************************************************************************)
(* Small instances of PagedLists.                                          *)
(***************************************************************************)
EXTENDS PagedLists

(* A duplicate, an unknown reference, and the empty list.                  *)
SomeReferences == {<<2, 1, 2>>, <<1, 0>>, <<>>}

WritesByArea == [catalog |-> 2, transactions |-> 3, cashback |-> 3]
=============================================================================
