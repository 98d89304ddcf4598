---- MODULE MCIdempotency ----
(* Idempotency with two paths that add items, to different bills, and one   *)
(* that closes a bill.                                                      *)
EXTENDS Idempotency, TLC

CONSTANTS items1, items2, close1

OneTable == [p \in {items1, items2} |-> "line_items"]

Alike == Permutations(Requests) \cup Permutations(Keys) \cup Permutations(Bodies)
=============================================================================
