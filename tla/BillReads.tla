----------------------------- MODULE BillReads -----------------------------
(***************************************************************************)
(* The calls that only read: GetBill, which reads a bill and then its line  *)
(* items, and ListBills, which reads a page of bills and then their number. *)
(* Each SELECT is a transaction of its own, so that bills are created,      *)
(* given items, recalculated and closed (BillLifecycle) between the two.    *)
(*                                                                          *)
(* There is one reader: reading neither writes nor locks, so a second one   *)
(* would see and change nothing the first does not.  A client that lists    *)
(* all bills asks for page after page until total_count is reached.         *)
(***************************************************************************)
EXTENDS BillLifecycle, Integers, Functions

CONSTANTS
  Stamps,       \* values of created_at
  Limits,       \* page sizes a client may ask for
  DefaultLimit, \* the page size for a client that names none
  MaxLimit      \* the largest page size

ASSUME BillsAssumption == IsFiniteSet(Bills)
ASSUME StampAssumption == Stamps \subseteq Nat
ASSUME LimitAssumption == /\ MaxLimit \in Nat
                          /\ DefaultLimit \in 1..MaxLimit
                          /\ Limits \subseteq Int

VARIABLES
  created,      \* created[b]: the created_at of b, fixed before b is stored
  reader        \* the read call in progress and what it has shown so far

readVars == <<row, items, created, reader>>

Stored == {b \in Bills : row[b].status # "none"}

Idle    == [at |-> "idle"]
Missing == [at |-> "missing"]
Detail  == [at: {"items", "shown"}, bill: Bills, status: Statuses,
            total: SUBSET Keys, items: SUBSET Keys]
Listing == [at: {"page", "count", "listed", "complete"}, limit: 1..MaxLimit,
            offset: Nat, total: Nat, page: SUBSET Bills,
            missed: SUBSET Bills]

ReadTypeOK ==
  /\ TypeOK
  /\ created \in [Bills -> Stamps]
  /\ reader \in {Idle, Missing} \cup Detail \cup Listing

ReadInit ==
  /\ Init
  /\ created \in [Bills -> Stamps]
  /\ reader = Idle

-----------------------------------------------------------------------------
Read(b) == [at |-> "items", bill |-> b, status |-> row[b].status,
            total |-> Shown(row[b].total), items |-> {}]

GetLineItemsByBill(b) == SumOf(items, b)

\* Mutant: the line items are read before the bill.
GetBill_ItemsFirst(b) ==
  /\ \/ /\ reader = Idle
        /\ reader' = IF b \in Stored
                       THEN [Read(b) EXCEPT !.items = GetLineItemsByBill(b)]
                       ELSE Missing
     \/ /\ reader.at = "items" /\ reader.bill = b
        /\ reader' = [Read(b) EXCEPT !.at = "shown", !.items = reader.items]
  /\ UNCHANGED <<vars, created>>

\* The bill, or "bill not found"; then its line items.
GetBill(b) ==
  /\ \/ /\ reader = Idle
        /\ reader' = IF b \in Stored THEN Read(b) ELSE Missing
     \/ /\ reader.at = "items" /\ reader.bill = b
        /\ reader' = [reader EXCEPT !.at = "shown", !.items = GetLineItemsByBill(b)]
  /\ UNCHANGED <<vars, created>>

\* A page size that is missing or too large is replaced, and the answer says so.
PageSize(asked) ==
  IF asked <= 0 THEN DefaultLimit ELSE IF asked > MaxLimit THEN MaxLimit ELSE asked

\* ORDER BY created_at DESC: equal stamps come in any order, in each query anew.
Listings ==
  {s \in Bijection(1..Cardinality(Stored), Stored) :
     \A i, j \in DOMAIN s : i < j => created[s[i]] >= created[s[j]]}

\* LIMIT and OFFSET.
Page(s, limit, offset) ==
  {s[i] : i \in {j \in DOMAIN s : offset < j /\ j <= offset + limit}}

BeginListing ==
  /\ reader = Idle
  /\ \E asked \in Limits :
       reader' = [at |-> "page", limit |-> PageSize(asked), offset |-> 0,
                  total |-> 0, page |-> {}, missed |-> Stored]
  /\ UNCHANGED <<vars, created>>

\* Mutant: the bills are counted before the page is read.
ListBills_CountFirst ==
  /\ \/ /\ reader.at = "page"
        /\ reader' = [reader EXCEPT !.at = "count", !.total = Cardinality(Stored)]
     \/ /\ reader.at = "count"
        /\ \E s \in Listings :
             reader' = [reader EXCEPT
                          !.at = "listed",
                          !.page = Page(s, reader.limit, reader.offset)]
  /\ UNCHANGED <<vars, created>>

\* The page, then COUNT(*) over all bills.
ListBills ==
  /\ \/ /\ reader.at = "page"
        /\ \E s \in Listings :
             reader' = [reader EXCEPT
                          !.at = "count",
                          !.page = Page(s, reader.limit, reader.offset)]
     \/ /\ reader.at = "count"
        /\ reader' = [reader EXCEPT !.at = "listed", !.total = Cardinality(Stored)]
  /\ UNCHANGED <<vars, created>>

\* The client goes on by the limit of the answer until it reaches the total.
NextPage ==
  /\ reader.at = "listed"
  /\ LET next == reader.offset + reader.limit IN
       reader' = [reader EXCEPT
                    !.at = IF next >= reader.total THEN "complete" ELSE "page",
                    !.offset = next, !.total = 0, !.page = {},
                    !.missed = @ \ reader.page]
  /\ UNCHANGED <<vars, created>>

\* The reader is done, or a SELECT failed and it gives up.
Leave ==
  /\ reader # Idle
  /\ reader' = Idle
  /\ UNCHANGED <<vars, created>>

ReadNext ==
  \/ Next /\ UNCHANGED <<created, reader>>
  \/ \E b \in Bills : GetBill(b)
  \/ BeginListing
  \/ ListBills
  \/ NextPage
  \/ Leave

ReadSpec == ReadInit /\ [][ReadNext]_readVars

-----------------------------------------------------------------------------
(* Whatever is committed between the two SELECTs of GetBill, the total it   *)
(* shows counts no line item that it does not show as well; it may lag      *)
(* behind them, on a bill that is still open.                               *)
ReadTotalCovered ==
  reader.at = "shown" => reader.total \subseteq reader.items

(* A bill that is shown closed is shown with exactly the items its total    *)
(* sums, although the items were read later than the total.  It is what     *)
(* CloseBill answers with, after the transaction of the close.              *)
ReadClosedIsExact ==
  reader.at = "shown" /\ reader.status = "closed" => reader.total = reader.items

(* A client that goes through the pages meets every bill there was when it  *)
(* began, however many are created meanwhile: new bills only push the old   *)
(* ones to later pages, and the count, taken after the page, includes what  *)
(* was pushed.  Bills that share their created_at are not promised: the     *)
(* ORDER BY does not say which of them comes first.                         *)
PagesMissNothing ==
  reader.at = "complete" =>
    \A b \in reader.missed : \E c \in Stored \ {b} : created[c] = created[b]
=============================================================================
