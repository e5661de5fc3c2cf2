------------------------------ MODULE MCEvents ------------------------------
(* Instance of CashbackEvents for TLC: events and editors are              *)
(* interchangeable.                                                        *)
EXTENDS CashbackEvents, TLC

(* Windows that overlap or follow each other; stopping an event makes      *)
(* shorter ones.                                                           *)
Windows == {[starts |-> 0, ends |-> 2], [starts |-> 1, ends |-> 3],
            [starts |-> 2, ends |-> 3]}

Symmetric == Permutations(Event) \cup Permutations(Editor)
=============================================================================
