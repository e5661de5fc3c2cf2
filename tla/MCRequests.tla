----------------------------- MODULE MCRequests -----------------------------
EXTENDS GameRequests, TLC

(* Calls of different clients share neither a window nor a key, purchases  *)
(* and outfits no rows: one client makes all calls, of one of the two.  That *)
(* all calls are batches is like none being one.                           *)
Resource(asked) == IF asked.route = "transactions" THEN "transactions" ELSE "outfits"

MCInit ==
  /\ Init
  /\ \A c, d \in Call : /\ calls[c].asked.client = calls[d].asked.client
                        /\ Resource(calls[c].asked) = Resource(calls[d].asked)
  /\ \E c \in Call : calls[c].asked.route # "outfits.createBatch"

MCSpec == MCInit /\ [][Next]_vars

Symmetric == Permutations(Call)
=============================================================================
