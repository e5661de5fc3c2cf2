---------------------------- MODULE MCMigrations ----------------------------
EXTENDS SchemaMigrations, TLC

(* The next release edits the second file of the first and adds a third.   *)
Builds ==
  [r \in Release |->
     IF r = "first" THEN <<"a", "b">> ELSE <<"a", "edited b", "c">>]

=============================================================================
