--------------------------- MODULE MCBillingPeriod ---------------------------
(* BillingPeriod with short periods: one that starts at once, one that has  *)
(* to be waited for, one of length zero, which Validate lets through, and   *)
(* one whose start is omitted.                                              *)
EXTENDS BillingPeriod, TLC

ShortPeriods == {[start |-> 0, end |-> 1], [start |-> 1, end |-> 3],
                 [start |-> 1, end |-> 1], [start |-> Omitted, end |-> 1]}

\* Any two line items fit a total, all of them do not.
AllTogether == {Keys}

OnePeriod == {[start |-> 1, end |-> 2]}

ThreeTries == [kind \in Kinds |-> 3]
=============================================================================
