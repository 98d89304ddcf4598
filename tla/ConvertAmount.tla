---------------------------- MODULE ConvertAmount ----------------------------
(***************************************************************************)
(* The amounts of a bill.  A line item in another currency is converted by  *)
(* a rounded exchange rate, the product is rounded again, and what comes    *)
(* out is stored as a 64-bit integer; the total is the database's sum of    *)
(* what is stored, and has to fit a bigint itself.                          *)
(*                                                                          *)
(* Rates and amounts are integers: a rate counts units of 10^-8, and the    *)
(* exchange rate, a decimal of 16 digits, is an integer in units of         *)
(* 1 / Precision.  A rate comes from the database through a float64, which  *)
(* returns it unchanged as long as it has at most 15 digits.                *)
(***************************************************************************)
EXTENDS Integers, Sequences, Functions

CONSTANTS
  Currencies,  \* currency codes, of clients and of the table
  Enabled,     \* those the table has, enabled
  Rate,        \* Rate[code], relative to the base currency
  Precision,   \* 10^16: decimal.DivisionPrecision
  Unit,        \* a common multiple of the rates, to compare worths with
  MaxInt,      \* the largest int64
  Amounts,     \* the amounts clients ask for
  MaxItems     \* bound: line items of the bill

ASSUME RateAssumption ==
  Enabled \subseteq Currencies /\ Rate \in [Currencies -> Nat]
ASSUME WidthAssumption ==
  /\ Precision \in Nat \ {0}
  /\ MaxInt \in Nat \ {0}
  /\ Amounts \subseteq 1..MaxInt
ASSUME UnitAssumption ==
  /\ Unit \in Nat \ {0}
  /\ \A c \in Currencies : Rate[c] # 0 => Unit % Rate[c] = 0

VARIABLES
  currency,    \* the currency of the bill
  items,       \* its line items: what was asked for, and the cents stored
  total,       \* its total_amount_cents
  status

vars == <<currency, items, total, status>>

Int64 == (-(MaxInt + 1))..MaxInt
Item  == [amount: 1..MaxInt, from: Currencies, cents: Int64]

TypeOK ==
  /\ currency \in Currencies
  /\ items \in Seq(Item)
  /\ total \in Int64
  /\ status \in {"active", "closed"}

\* CreateBill refuses a currency that the table has not, or not enabled.
Init ==
  /\ currency \in Enabled
  /\ items = <<>>
  /\ total = 0
  /\ status = "active"

-----------------------------------------------------------------------------
\* a / b rounded half up, for a natural a and a positive b.
RoundDiv(a, b) == (2 * a + b) \div (2 * b)

\* toRate.Div(fromRate).
ExchangeRate(from, to) == RoundDiv(Rate[to] * Precision, Rate[from])

\* decimal's IntPart keeps the low bits of an integer that is too large.
IntPart(n) == ((n + MaxInt + 1) % (2 * (MaxInt + 1))) - (MaxInt + 1)

\* Both currencies have to be in the table, and a rate of zero cannot be
\* divided by, unless there is nothing to convert.
Convertible(from, to) ==
  from = to \/ ({from, to} \subseteq Enabled /\ Rate[from] # 0)

\* Mutant: the product is not rounded, only cut off.
Convert_NoRound(amount, from, to) ==
  IF from = to
    THEN amount
    ELSE IntPart((amount * ExchangeRate(from, to)) \div Precision)

Convert(amount, from, to) ==
  IF from = to
    THEN amount
    ELSE IntPart(RoundDiv(amount * ExchangeRate(from, to), Precision))

\* Mutant: the amount is stored as it was asked for.
AddLineItem_Unconverted(amount, from) ==
  /\ status = "active"
  /\ Len(items) < MaxItems
  /\ Convertible(from, currency)
  /\ items' = Append(items, [amount |-> amount, from |-> from,
                             cents |-> amount])
  /\ UNCHANGED <<currency, total, status>>

AddLineItem(amount, from) ==
  /\ status = "active"
  /\ Len(items) < MaxItems
  /\ Convertible(from, currency)
  /\ items' = Append(items, [amount |-> amount, from |-> from,
                             cents |-> Convert(amount, from, currency)])
  /\ UNCHANGED <<currency, total, status>>

Sum == SumFunction([i \in DOMAIN items |-> items[i].cents])

\* Mutant: a sum that is too large is stored all the same.
UpdateBillTotal_Wrapped ==
  /\ total' = IntPart(Sum)
  /\ UNCHANGED <<currency, items>>

\* Mutant: the sum is not cast to bigint.
UpdateBillTotal_NoCast ==
  /\ total' = Sum
  /\ UNCHANGED <<currency, items>>

\* COALESCE(SUM(amount_cents), 0), an error when it is out of range.
UpdateBillTotal ==
  /\ Sum \in Int64
  /\ total' = Sum
  /\ UNCHANGED <<currency, items>>

Recalculate == UpdateBillTotal /\ UNCHANGED status

CloseBill ==
  /\ status = "active"
  /\ UpdateBillTotal
  /\ status' = "closed"

Next ==
  \/ \E amount \in Amounts, from \in Currencies : AddLineItem(amount, from)
  \/ Recalculate
  \/ CloseBill

Spec == Init /\ [][Next]_vars

-----------------------------------------------------------------------------
Dist(a, b) == IF a >= b THEN a - b ELSE b - a

\* The rounding error of an item is at most half a cent, and as much again as
\* the amount has cents in units of the precision: in units of
\* 1 / (2 * Precision * fromRate), it is at most Error.
Error(item) == Rate[item.from] * (Precision + item.amount)

\* What the item is worth is below the largest int64.
Fits(item) ==
  2 * Precision * item.amount * Rate[currency] + Error(item)
    <= 2 * Precision * Rate[item.from] * MaxInt

(* What is stored for a line item is what it is worth, up to half a cent of *)
(* rounding and the digits of the exchange rate, unless it does not fit     *)
(* int64: that is less than a cent for every amount below 10^16 cents.      *)
NearExact ==
  \A i \in DOMAIN items :
    LET item == items[i] IN
      Fits(item) =>
        2 * Precision * Dist(item.cents * Rate[item.from],
                             item.amount * Rate[currency]) <= Error(item)

(* An amount below 10^16 cents that is worth a whole number of cents is     *)
(* converted to exactly that number, although the exchange rate is rounded  *)
(* (convert_amount_test.go: 27000 GEL at 2.7 are 10000 USD).                *)
WholeIsExact ==
  \A i \in DOMAIN items :
    LET item == items[i] IN
      /\ Fits(item) /\ item.amount < Precision /\ Rate[item.from] # 0
      /\ (item.amount * Rate[currency]) % Rate[item.from] = 0
      => item.cents * Rate[item.from] = item.amount * Rate[currency]

\* What an item is worth in the currency of the bill, in units of 1 / Unit cents.
Worth(item) ==
  IF item.from = currency
    THEN item.amount * Unit
    ELSE item.amount * Rate[currency] * (Unit \div Rate[item.from])

(* The total of a closed bill is off by less than a cent per line item,     *)
(* whichever currencies the items came in: no matter how a charge is split, *)
(* the client pays what it is worth up to these cents.  It holds also when  *)
(* each item fits and their sum does not, because such a bill cannot be     *)
(* closed.                                                                  *)
TotalNearExact ==
  /\ status = "closed" /\ items # <<>>
  /\ \A i \in DOMAIN items : Fits(items[i]) /\ items[i].amount < Precision
  => Dist(total * Unit,
          SumFunction([i \in DOMAIN items |-> Worth(items[i])]))
       < Len(items) * Unit
=============================================================================
