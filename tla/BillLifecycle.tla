---------------------------- MODULE BillLifecycle ----------------------------
(***************************************************************************)
(* What the billing service promises about the rows it commits: the life   *)
(* of a bill and of its line items as a reader of the database sees them.  *)
(* Every action is one committed transaction.  How a transaction comes     *)
(* about (locks, statements, failures) is the subject of BillStateMachine, *)
(* which implements this module.                                           *)
(*                                                                         *)
(* A bill's total is kept as the set of line items it sums, so that two    *)
(* totals are compared item by item and no amount has to be invented.      *)
(***************************************************************************)
EXTENDS FiniteSets

CONSTANTS
  Bills,      \* bill identifiers
  Keys,       \* idempotency keys of line items: the identity of an item
  Reasons,    \* the closing calls, each with the reason it stores
  NoReason,   \* close_reason IS NULL
  NoTotal     \* total_amount_cents IS NULL

ASSUME ReasonAssumption == NoReason \notin Reasons
ASSUME TotalAssumption  == \A S \in SUBSET Keys : S # NoTotal

VARIABLES
  row,        \* row[b]: the committed row of bill b
  items       \* the committed line items

vars == <<row, items>>

Statuses == {"none", "pending", "active", "closing", "closed",
             "attention_required"}

Row  == [status: Statuses, total: {NoTotal} \cup SUBSET Keys,
         reason: Reasons \cup {NoReason}]
Item == [key: Keys, bill: Bills]

NewRow(status) == [status |-> status, total |-> NoTotal, reason |-> NoReason]

\* COALESCE(SUM(amount_cents), 0) over the items of b that S holds.
SumOf(S, b) == {i.key : i \in {j \in S : j.bill = b}}

\* What a reader is shown: a NULL total is rendered as 0.
Shown(total) == IF total = NoTotal THEN {} ELSE total

TypeOK ==
  /\ row \in [Bills -> Row]
  /\ items \subseteq Item

-----------------------------------------------------------------------------
(* A database that holds bills in any of the states an idle service leaves  *)
(* behind: not created yet, created, or started and still without items.    *)
Init ==
  /\ row \in [Bills -> {NewRow(s) : s \in {"none", "pending", "active"}}]
  /\ items = {}

Create(b) ==
  /\ row[b].status = "none"
  /\ row' = [row EXCEPT ![b] = NewRow("pending")]
  /\ UNCHANGED items

\* Mutant: any bill can be activated.
Activate_Unchecked(b) ==
  /\ row[b].status # "none"
  /\ row' = [row EXCEPT ![b].status = "active"]
  /\ UNCHANGED items

Activate(b) ==
  /\ row[b].status = "pending"
  /\ row' = [row EXCEPT ![b].status = "active"]
  /\ UNCHANGED items

\* Mutant: the status of the bill is not looked at once the bill exists.
AddItem_AnyStatus(b, k) ==
  /\ row[b].status # "none"
  /\ \A i \in items : i.key # k
  /\ items' = items \cup {[key |-> k, bill |-> b]}
  /\ UNCHANGED row

AddItem(b, k) ==
  /\ row[b].status = "active"
  /\ \A i \in items : i.key # k
  /\ items' = items \cup {[key |-> k, bill |-> b]}
  /\ UNCHANGED row

\* The recalculation does not look at the status of the bill.
Recalculate(b) ==
  /\ row[b].status # "none"
  /\ row' = [row EXCEPT ![b].total = SumOf(items, b)]
  /\ UNCHANGED items

\* Mutant: status and reason swapped among the arguments of the UPDATE.
CloseUnstarted_Swapped(b, r) ==
  /\ row[b].status = "pending"
  /\ row' = [row EXCEPT ![b].status = r, ![b].reason = "closed"]
  /\ UNCHANGED items

\* A bill closed before its period starts keeps a NULL total.
CloseUnstarted(b, r) ==
  /\ row[b].status = "pending"
  /\ row' = [row EXCEPT ![b].status = "closed", ![b].reason = r]
  /\ UNCHANGED items

\* Mutant: the total is not recalculated on closing.
CloseStarted_OldTotal(b, r) ==
  /\ row[b].status = "active"
  /\ row' = [row EXCEPT ![b].status = "closed", ![b].reason = r]
  /\ UNCHANGED items

\* Mutant: the closure UPDATE writes the total as well, and clears it.
CloseStarted_NoTotal(b, r) ==
  /\ row[b].status = "active"
  /\ row' = [row EXCEPT ![b] = [status |-> "closed", total |-> NoTotal,
                                reason |-> r]]
  /\ UNCHANGED items

CloseStarted(b, r) ==
  /\ row[b].status = "active"
  /\ row' = [row EXCEPT ![b] = [status |-> "closed",
                                total  |-> SumOf(items, b), reason |-> r]]
  /\ UNCHANGED items

Next ==
  \E b \in Bills :
    \/ Create(b)
    \/ Activate(b)
    \/ Recalculate(b)
    \/ \E k \in Keys : AddItem(b, k)
    \/ \E r \in Reasons : CloseUnstarted(b, r) \/ CloseStarted(b, r)

Spec == Init /\ [][Next]_vars

-----------------------------------------------------------------------------
(* The total of a closed bill is the sum of every line item it has: no item *)
(* is left out of a bill that is final, none is counted that is not there.  *)
ClosedTotalIsFinal ==
  \A b \in Bills :
    row[b].status = "closed" => Shown(row[b].total) = SumOf(items, b)

(* The three-statement close is atomic: a reader never meets a bill in      *)
(* "closing", from which CloseBill has no way on, nor in                    *)
(* "attention_required".                                                    *)
NoHalfClosedBill ==
  \A b \in Bills : row[b].status \in {"none", "pending", "active", "closed"}

(* A line item belongs to a bill that has been activated: a bill that waits *)
(* for its start, or was closed before it, has none.  (A bill closed before *)
(* its start is the closed one without a total, until a late recalculation  *)
(* stores 0.)                                                               *)
ItemsNeedStart ==
  \A i \in items : /\ row[i.bill].status \in {"active", "closed"}
                    /\ row[i.bill].status = "closed" =>
                         row[i.bill].total # NoTotal

(* Closing is final: whatever runs against a closed bill, late              *)
(* recalculations and second closes included, its status, the reason of the *)
(* first close and the total shown stay as they are, and it gets no item.   *)
ClosedIsTerminal ==
  [][\A b \in Bills : row[b].status = "closed" =>
        /\ row'[b].status = "closed"
        /\ row'[b].reason = row[b].reason
        /\ Shown(row'[b].total) = Shown(row[b].total)
        /\ SumOf(items', b) = SumOf(items, b)]_vars

(* A total never loses an item it has counted, whichever of activation,     *)
(* recalculation and closing writes the row next.                           *)
TotalsGrow ==
  [][\A b \in Bills : Shown(row[b].total) \subseteq Shown(row'[b].total)]_vars
=============================================================================
