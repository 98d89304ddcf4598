----------------------------- MODULE MCBillReads -----------------------------
(* BillReads, and with it BillLifecycle, on a few bills, items and pages.     *)
EXTENDS BillReads, TLC

Alike == Permutations(Bills) \cup Permutations(Keys) \cup Permutations(Reasons)
=============================================================================
