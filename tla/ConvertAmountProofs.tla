------------------------ MODULE ConvertAmountProofs ------------------------
(* The error of a conversion, for every precision, width, table of rates    *)
(* and amount.                                                              *)
EXTENDS ConvertAmount, FiniteSetTheorems, TLAPS

(* Arithmetic the provers have to be led through.                           *)
LEMMA DivBounds ==
  ASSUME NEW a \in Nat, NEW b \in Nat \ {0}
  PROVE  /\ a \div b \in Nat
         /\ b * (a \div b) <= a
         /\ a < b * (a \div b) + b
OBVIOUS

LEMMA DivExact ==
  ASSUME NEW a \in Nat, NEW b \in Nat \ {0}, a % b = 0
  PROVE  a \div b \in Nat /\ a = (a \div b) * b
OBVIOUS

LEMMA ScaleLess ==
  ASSUME NEW k \in Nat, NEW a \in Nat, NEW b \in Nat, a <= b
  PROVE  k * a <= k * b
<1>1. PICK d \in Nat : b = a + d
  <2>1. b - a \in Nat /\ b = a + (b - a)
    OBVIOUS
  <2>2. QED
    BY <2>1
<1>2. k * b = k * a + k * d /\ k * d \in Nat /\ k * a \in Nat
  BY <1>1
<1>3. QED
  BY <1>2

LEMMA ScaleDist ==
  ASSUME NEW k \in Nat, NEW a \in Nat, NEW b \in Nat
  PROVE  Dist(k * a, k * b) = k * Dist(a, b)
<1>1. CASE a >= b
  <2>1. k * a >= k * b
    BY <1>1, ScaleLess
  <2>2. k * (a - b) = k * a - k * b
    OBVIOUS
  <2>3. QED
    BY <1>1, <2>1, <2>2 DEF Dist
<1>2. CASE a < b
  <2>1. k * a <= k * b
    BY <1>2, ScaleLess
  <2>2. k * (b - a) = k * b - k * a
    OBVIOUS
  <2>3. k * a \in Int /\ k * b \in Int
    OBVIOUS
  <2> DEFINE x == k * a
             y == k * b
  <2>4. x \in Int /\ y \in Int /\ x <= y
    BY <2>1, <2>3
  <2> HIDE DEF x, y
  <2>5. Dist(x, y) = y - x
    BY <2>4 DEF Dist
  <2>6. Dist(a, b) = b - a
    BY <1>2 DEF Dist
  <2>7. QED
    BY <2>2, <2>5, <2>6 DEF x, y
<1>3. QED
  BY <1>1, <1>2

(* RoundDiv is off by at most a half.                                       *)
LEMMA RoundDivError ==
  ASSUME NEW a \in Nat, NEW b \in Nat \ {0}
  PROVE  /\ RoundDiv(a, b) \in Nat
         /\ 2 * Dist(RoundDiv(a, b) * b, a) <= b
<1>1. 2 * a + b \in Nat /\ 2 * b \in Nat \ {0}
  OBVIOUS
<1>2. PICK q \in Nat : /\ q = RoundDiv(a, b)
                       /\ (2 * b) * q <= 2 * a + b
                       /\ 2 * a + b < (2 * b) * q + 2 * b
  BY <1>1, DivBounds DEF RoundDiv
<1>3. PICK p \in Nat : p = b * q
  BY <1>2
<1>4. q * b = p /\ (2 * b) * q = 2 * p
  BY <1>2, <1>3
<1>5. 2 * Dist(p, a) <= b
  BY <1>2, <1>4 DEF Dist
<1>6. QED
  BY <1>2, <1>4, <1>5

(* The two roundings together: half a cent, and half a unit of the exchange *)
(* rate for each cent of the amount.                                        *)
LEMMA ConversionError ==
  ASSUME NEW P \in Nat \ {0}, NEW A \in Nat, NEW T \in Nat, NEW F \in Nat \ {0}
  PROVE  LET C == RoundDiv(A * RoundDiv(T * P, F), P)
         IN  C \in Nat /\ 2 * P * Dist(C * F, A * T) <= F * (P + A)
<1>1. T * P \in Nat
  OBVIOUS
<1>2. PICK X \in Nat : X = RoundDiv(T * P, F) /\ 2 * Dist(X * F, T * P) <= F
  BY <1>1, RoundDivError
<1>3. A * X \in Nat
  BY <1>2
<1>4. PICK C \in Nat : C = RoundDiv(A * X, P) /\ 2 * Dist(C * P, A * X) <= P
  BY <1>3, RoundDivError
<1> DEFINE u == F * (C * P)
           v == F * (A * X)
           w == A * (T * P)
<1>5. u \in Nat /\ v \in Nat /\ w \in Nat
  BY <1>2, <1>4
<1>6. 2 * Dist(u, v) <= F * P
  <2>1. C * P \in Nat
    BY <1>4
  <2>2. Dist(u, v) = F * Dist(C * P, A * X)
    BY <1>3, <2>1, ScaleDist
  <2>3. Dist(C * P, A * X) \in Nat
    BY <1>3, <2>1 DEF Dist
  <2>4. F * (2 * Dist(C * P, A * X)) <= F * P
    BY <1>4, <2>3, ScaleLess
  <2> DEFINE d == Dist(C * P, A * X)
  <2> HIDE DEF d
  <2>5. F * (2 * d) = 2 * (F * d)
    BY <2>3 DEF d
  <2>6. QED
    BY <2>2, <2>4, <2>5 DEF d
<1>7. 2 * Dist(v, w) <= A * F
  <2>1. X * F \in Nat /\ A * (X * F) = v
    BY <1>2
  <2>2. Dist(v, w) = A * Dist(X * F, T * P)
    BY <1>1, <2>1, ScaleDist
  <2>3. Dist(X * F, T * P) \in Nat
    BY <1>1, <2>1 DEF Dist
  <2>4. A * (2 * Dist(X * F, T * P)) <= A * F
    BY <1>2, <2>3, ScaleLess
  <2> DEFINE d == Dist(X * F, T * P)
  <2> HIDE DEF d
  <2>5. A * (2 * d) = 2 * (A * d)
    BY <2>3 DEF d
  <2>6. QED
    BY <2>2, <2>4, <2>5 DEF d
<1>8. u = P * (C * F) /\ w = P * (A * T)
  BY <1>2, <1>4
<1>9. F * P \in Nat /\ A * F \in Nat /\ F * (P + A) = F * P + A * F
  OBVIOUS
<1> HIDE DEF u, v, w
<1>10. 2 * Dist(u, w) <= F * (P + A)
  <2> DEFINE fp == F * P
             af == A * F
  <2>1. fp \in Nat /\ af \in Nat /\ 2 * Dist(u, v) <= fp /\ 2 * Dist(v, w) <= af
    BY <1>6, <1>7, <1>9
  <2> HIDE DEF fp, af
  <2>2. 2 * Dist(u, w) <= fp + af
    BY <1>5, <2>1 DEF Dist
  <2>3. QED
    BY <1>9, <2>2 DEF fp, af
<1>11. C * F \in Nat /\ A * T \in Nat
  BY <1>4
<1>12. Dist(u, w) = P * Dist(C * F, A * T)
  BY <1>8, <1>11, ScaleDist
<1>13. 2 * P * Dist(C * F, A * T) = 2 * (P * Dist(C * F, A * T))
  <2>1. Dist(C * F, A * T) \in Nat
    BY <1>11 DEF Dist
  <2> DEFINE d == Dist(C * F, A * T)
  <2> HIDE DEF d
  <2>2. 2 * P * d = 2 * (P * d)
    BY <2>1 DEF d
  <2>3. QED
    BY <2>2 DEF d
<1>14. QED
  BY <1>2, <1>4, <1>10, <1>12, <1>13

(* What fits int64 is not changed by IntPart; anything else becomes some    *)
(* int64.                                                                   *)
LEMMA IntPartFits ==
  ASSUME NEW n \in 0..MaxInt
  PROVE  IntPart(n) = n
BY WidthAssumption DEF IntPart

LEMMA IntPartType ==
  ASSUME NEW n \in Nat
  PROVE  IntPart(n) \in Int64
BY WidthAssumption DEF IntPart, Int64

(* A conversion that fits int64 is returned as it was rounded.              *)
LEMMA FitsInt ==
  ASSUME NEW P \in Nat \ {0}, NEW A \in Nat, NEW T \in Nat,
         NEW F \in Nat \ {0}, NEW C \in Nat, NEW M \in Nat,
         2 * P * Dist(C * F, A * T) <= F * (P + A),
         2 * P * A * T + F * (P + A) <= 2 * P * F * M
  PROVE  C <= M
<1> DEFINE cf == C * F
           at == A * T
           e  == F * (P + A)
           d  == Dist(cf, at)
<1>1. cf \in Nat /\ at \in Nat /\ e \in Nat
  OBVIOUS
<1>2. d \in Nat /\ cf <= at + d
  <2> HIDE DEF cf, at
  <2>1. QED
    BY <1>1 DEF Dist
<1>3. 2 * P \in Nat \ {0}
  OBVIOUS
<1>4. 2 * P * A * T = (2 * P) * at /\ 2 * P * F * M = (2 * P) * (M * F)
  OBVIOUS
<1>5. (2 * P) * d <= e /\ (2 * P) * at + e <= (2 * P) * (M * F)
  BY <1>4
<1> HIDE DEF cf, at, e, d
<1>6. (2 * P) * cf <= (2 * P) * (at + d)
  BY <1>1, <1>2, <1>3, ScaleLess
<1>7. (2 * P) * (at + d) = (2 * P) * at + (2 * P) * d
  BY <1>1, <1>2
<1>8. (2 * P) * cf <= (2 * P) * (M * F)
  <2> DEFINE a == (2 * P) * at
             b == (2 * P) * d
             c == (2 * P) * cf
             m == (2 * P) * (M * F)
  <2>1. a \in Nat /\ b \in Nat /\ c \in Nat /\ m \in Nat
    BY <1>1, <1>2
  <2>2. c <= a + b /\ b <= e /\ a + e <= m
    BY <1>5, <1>6, <1>7
  <2> HIDE DEF a, b, c, m
  <2>3. c <= m
    BY <1>1, <2>1, <2>2
  <2>4. QED
    BY <2>3 DEF c, m
<1>9. SUFFICES ASSUME C > M
               PROVE  FALSE
  OBVIOUS
<1>10. F * (M + 1) <= F * C
  BY <1>9, ScaleLess
<1>11. M * F + F <= cf
  BY <1>10 DEF cf
<1>12. (2 * P) * (M * F + F) <= (2 * P) * cf
  BY <1>1, <1>11, ScaleLess
<1>13. (2 * P) * (M * F + F) = (2 * P) * (M * F) + (2 * P) * F
  OBVIOUS
<1>14. (2 * P) * F > 0
  OBVIOUS
<1>15. QED
  <2> DEFINE c == (2 * P) * cf
             m == (2 * P) * (M * F)
             f == (2 * P) * F
  <2>1. c \in Nat /\ m \in Nat /\ f \in Nat
    BY <1>1
  <2>2. c <= m /\ m + f <= c /\ f > 0
    BY <1>8, <1>12, <1>13, <1>14
  <2> HIDE DEF c, m, f
  <2>3. QED
    BY <2>1, <2>2

(* Whole cents are hit exactly by amounts below the precision.              *)
LEMMA WholeCents ==
  ASSUME NEW P \in Nat \ {0}, NEW A \in Nat, NEW K \in Nat,
         NEW F \in Nat \ {0}, NEW C \in Nat, A < P,
         2 * P * Dist(C * F, K * F) <= F * (P + A)
  PROVE  C = K
<1>1. Dist(C, K) \in Nat /\ Dist(F * C, F * K) = F * Dist(C, K)
  BY ScaleDist DEF Dist
<1>2. C * F = F * C /\ K * F = F * K
  OBVIOUS
<1> SUFFICES ASSUME Dist(C, K) >= 1
             PROVE  FALSE
  BY <1>1 DEF Dist
<1>3. F * 1 <= F * Dist(C, K)
  BY <1>1, ScaleLess
<1> DEFINE d == F * Dist(C, K)
<1>4. d \in Nat /\ F <= d
  BY <1>1, <1>3
<1>5. 2 * P * d <= F * (P + A)
  BY <1>1, <1>2
<1> HIDE DEF d
<1>6. (2 * P) * F <= (2 * P) * d
  BY <1>4, ScaleLess
<1>7. F * (P + A + 1) <= F * (2 * P)
  BY ScaleLess
<1>8. F * (P + A + 1) = F * (P + A) + F /\ F * (2 * P) = (2 * P) * F
  OBVIOUS
<1>9. QED
  <2> DEFINE x == F * (P + A)
             y == (2 * P) * F
             z == (2 * P) * d
  <2>1. x \in Nat /\ y \in Nat /\ z \in Nat
    BY <1>4
  <2>2. z <= x /\ y <= z /\ x + F <= y
    BY <1>5, <1>6, <1>7, <1>8
  <2> HIDE DEF x, y, z
  <2>3. QED
    BY <2>1, <2>2

-----------------------------------------------------------------------------
(* Every item was converted, between currencies that can be.                *)
Converted ==
  \A i \in DOMAIN items :
    /\ Convertible(items[i].from, currency)
    /\ items[i].cents = Convert(items[i].amount, items[i].from, currency)

LEMMA ItemTypes ==
  ASSUME TypeOK, NEW i \in DOMAIN items
  PROVE  /\ items[i].amount \in Nat /\ items[i].from \in Currencies
         /\ Rate[items[i].from] \in Nat /\ Rate[currency] \in Nat
         /\ Precision \in Nat \ {0}
<1>1. items \in Seq(Item) /\ currency \in Currencies
  BY DEF TypeOK
<1>2. items[i] \in Item
  BY <1>1
<1>3. items[i].amount \in 1..MaxInt /\ items[i].from \in Currencies
  BY <1>2 DEF Item
<1>4. QED
  BY <1>1, <1>3, RateAssumption, WidthAssumption

LEMMA ConvertType ==
  ASSUME NEW amount \in 1..MaxInt, NEW from \in Currencies,
         NEW to \in Currencies, Convertible(from, to)
  PROVE  Convert(amount, from, to) \in Int64
<1>1. CASE from = to
  BY <1>1, WidthAssumption DEF Convert, Int64
<1>2. CASE from # to
  <2>1. Rate[from] \in Nat \ {0} /\ Rate[to] \in Nat
    BY <1>2, RateAssumption DEF Convertible
  <2>2. amount \in Nat /\ Precision \in Nat \ {0}
    BY WidthAssumption
  <2>3. RoundDiv(amount * ExchangeRate(from, to), Precision) \in Nat
    BY <2>1, <2>2, ConversionError DEF ExchangeRate
  <2>4. QED
    BY <1>2, <2>3, IntPartType DEF Convert
<1>3. QED
  BY <1>1, <1>2

(* The amounts, totals and states of a bill keep their types: in particular *)
(* only integers of 64 bits are ever stored.                                *)
THEOREM TypeCorrect == Spec => []TypeOK
<1>1. Init => TypeOK
  BY RateAssumption, WidthAssumption DEF Init, TypeOK, Int64
<1>2. ASSUME TypeOK, [Next]_vars
      PROVE  TypeOK'
  <2>1. ASSUME NEW amount \in Amounts, NEW from \in Currencies,
               AddLineItem(amount, from)
        PROVE  TypeOK'
    <3>1. Convert(amount, from, currency) \in Int64
      BY <1>2, <2>1, ConvertType, WidthAssumption DEF AddLineItem, TypeOK
    <3>2. [amount |-> amount, from |-> from,
           cents |-> Convert(amount, from, currency)] \in Item
      BY <3>1, WidthAssumption DEF Item
    <3>3. QED
      BY <1>2, <2>1, <3>2 DEF TypeOK, AddLineItem
  <2>2. CASE Recalculate \/ CloseBill
    BY <1>2, <2>2 DEF TypeOK, Recalculate, CloseBill, UpdateBillTotal
  <2>3. CASE UNCHANGED vars
    BY <1>2, <2>3 DEF TypeOK, vars
  <2>4. QED
    BY <1>2, <2>1, <2>2, <2>3 DEF Next
<1>3. QED
  BY <1>1, <1>2, PTL DEF Spec

LEMMA ConvertedAlways == Spec => []Converted
<1>1. Init => Converted
  BY DEF Init, Converted
<1>2. ASSUME TypeOK, Converted, [Next]_vars
      PROVE  Converted'
  <2>1. ASSUME NEW amount \in Amounts, NEW from \in Currencies,
               AddLineItem(amount, from)
        PROVE  Converted'
    <3> DEFINE new == [amount |-> amount, from |-> from,
                       cents |-> Convert(amount, from, currency)]
    <3>1. /\ items' = Append(items, new) /\ currency' = currency
          /\ Convertible(from, currency)
      BY <2>1 DEF AddLineItem
    <3>2. items \in Seq(Item)
      BY <1>2 DEF TypeOK
    <3>3. ASSUME NEW i \in DOMAIN items'
          PROVE  \/ i \in DOMAIN items /\ items'[i] = items[i]
                 \/ items'[i] = new
      <4> HIDE DEF new
      <4>1. QED
        BY <3>1, <3>2
    <3>4. /\ new.amount = amount /\ new.from = from
          /\ new.cents = Convert(amount, from, currency)
      OBVIOUS
    <3> HIDE DEF new
    <3>5. ASSUME NEW i \in DOMAIN items'
          PROVE  /\ Convertible(items'[i].from, currency)
                 /\ items'[i].cents
                      = Convert(items'[i].amount, items'[i].from, currency)
      BY <1>2, <3>1, <3>3, <3>4 DEF Converted
    <3>6. QED
      BY <3>1, <3>5 DEF Converted, Convertible, Convert, ExchangeRate, RoundDiv,
                        IntPart
  <2>2. CASE Recalculate \/ CloseBill \/ UNCHANGED vars
    BY <1>2, <2>2 DEF Converted, Recalculate, CloseBill, UpdateBillTotal, vars,
                      Convertible, Convert, ExchangeRate
  <2>3. QED
    BY <1>2, <2>1, <2>2 DEF Next
<1>3. QED
  BY <1>1, <1>2, TypeCorrect, PTL DEF Spec

(* The error of one item that fits.                                         *)
LEMMA ItemNearExact ==
  ASSUME TypeOK, Converted, NEW i \in DOMAIN items, Fits(items[i])
  PROVE  /\ items[i].cents \in Nat
         /\ 2 * Precision * Dist(items[i].cents * Rate[items[i].from],
                                 items[i].amount * Rate[currency])
              <= Error(items[i])
<1> DEFINE A == items[i].amount
           F == Rate[items[i].from]
           T == Rate[currency]
           P == Precision
<1>1. A \in Nat /\ F \in Nat /\ T \in Nat /\ P \in Nat \ {0}
  BY ItemTypes
<1>2. CASE items[i].from = currency
  <2>1. items[i].cents = A /\ F = T
    BY <1>2 DEF Converted, Convert
  <2>2. A * F \in Nat /\ Dist(A * F, A * F) = 0
    BY <1>1 DEF Dist
  <2>3. F * (P + A) \in Nat /\ 2 * P * 0 = 0
    BY <1>1
  <2>4. QED
    BY <1>1, <2>1, <2>2, <2>3 DEF Error
<1>3. CASE items[i].from # currency
  <2>1. F \in Nat \ {0}
    BY <1>1, <1>3 DEF Converted, Convertible
  <2> DEFINE C == RoundDiv(A * RoundDiv(T * P, F), P)
  <2>2. items[i].cents = IntPart(C)
    BY <1>3 DEF Converted, Convert, ExchangeRate
  <2> HIDE DEF A, F, T, P
  <2>3. C \in Nat /\ 2 * P * Dist(C * F, A * T) <= F * (P + A)
    BY <1>1, <2>1, ConversionError
  <2>4. 2 * P * A * T + F * (P + A) <= 2 * P * F * MaxInt
    BY DEF Fits, Error, A, F, T, P
  <2> HIDE DEF C
  <2>5. C <= MaxInt
    BY <1>1, <2>1, <2>3, <2>4, FitsInt, WidthAssumption
  <2>6. items[i].cents = C
    BY <2>2, <2>3, <2>5, IntPartFits, WidthAssumption
  <2>7. QED
    BY <2>3, <2>6 DEF Error, A, F, T, P
<1>4. QED
  BY <1>2, <1>3

(* Every line item is stored with what it is worth, up to the two roundings *)
(* of its conversion, for every precision, every table of rates and every   *)
(* amount that fits.                                                        *)
THEOREM NearExactCorrect == Spec => []NearExact
<1>1. TypeOK /\ Converted => NearExact
  BY ItemNearExact DEF NearExact
<1>2. QED
  BY <1>1, TypeCorrect, ConvertedAlways, PTL

(* Amounts worth whole cents are converted exactly, for every precision     *)
(* above the amount.                                                        *)
THEOREM WholeIsExactCorrect == Spec => []WholeIsExact
<1>1. ASSUME TypeOK, Converted, NEW i \in DOMAIN items,
             Fits(items[i]), items[i].amount < Precision,
             Rate[items[i].from] # 0,
             (items[i].amount * Rate[currency]) % Rate[items[i].from] = 0
      PROVE  items[i].cents * Rate[items[i].from]
               = items[i].amount * Rate[currency]
  <2> DEFINE A == items[i].amount
             F == Rate[items[i].from]
             T == Rate[currency]
             K == (A * T) \div F
  <2>1. A \in Nat /\ F \in Nat \ {0} /\ T \in Nat
    BY <1>1, ItemTypes
  <2>2. A * T \in Nat
    BY <2>1
  <2>3. K \in Nat /\ A * T = K * F
    <3> DEFINE n == A * T
    <3> HIDE DEF n, A, F, T
    <3>1. n \in Nat /\ n % F = 0
      BY <1>1, <2>2 DEF n, A, F, T
    <3>2. n \div F \in Nat /\ n = (n \div F) * F
      BY <2>1, <3>1, DivExact
    <3>3. QED
      BY <3>2 DEF n
  <2>4. /\ items[i].cents \in Nat
        /\ 2 * Precision * Dist(items[i].cents * F, A * T)
             <= F * (Precision + A)
    BY <1>1, ItemNearExact DEF Error
  <2> HIDE DEF A, F, T, K
  <2>5. A < Precision
    BY <1>1 DEF A
  <2>6. items[i].cents = K
    BY <2>1, <2>3, <2>4, <2>5, WholeCents, WidthAssumption
  <2>7. QED
    BY <2>3, <2>6 DEF A, F, T
<1>2. TypeOK /\ Converted => WholeIsExact
  BY <1>1 DEF WholeIsExact
<1>3. QED
  BY <1>2, TypeCorrect, ConvertedAlways, PTL

-----------------------------------------------------------------------------
(* Sums over a finite set.  The library sums by a function on the subsets   *)
(* that refers to itself, and picks it by CHOOSE: that there is one, and    *)
(* one only, is shown for a least subset for which it would fail.           *)
LEMMA LeastSubset ==
  ASSUME NEW S, IsFiniteSet(S), NEW T, T \subseteq SUBSET S, T # {}
  PROVE  \E s \in T : \A t \in T : ~ (t \subseteq s /\ t # s)
<1> DEFINE R == StrictSubsetOrdering(S)
<1>1. IsWellFoundedOn(R, SUBSET S)
  BY FS_StrictSubsetOrderingWellFounded, FS_FiniteSubsetsOfFinite
<1>2. PICK s \in T : \A t \in T : ~ (<<t, s>> \in R)
  <2> HIDE DEF R
  <2>1. QED
    BY <1>1, WFMin
<1>3. QED
  BY <1>2 DEF StrictSubsetOrdering

\* The element a sum takes next, and what is left then.
First(s) == CHOOSE x \in s : TRUE
Rest(s)  == s \ {First(s)}

\* it[s] is the sum of f over s, for all subsets s of S.
Sums(it, f, S) ==
  it = [s \in SUBSET S |-> IF s = {} THEN 0 ELSE f[First(s)] + it[Rest(s)]]

AllSums(f, S) == CHOOSE it : Sums(it, f, S)

SumOn(f, S) == AllSums(f, S)[S]

LEMMA SumIsSumOn ==
  ASSUME NEW f
  PROVE  SumFunction(f) = SumOn(f, DOMAIN f)
BY DEF SumFunction, SumFunctionOnSet, FoldFunctionOnSet, MapThenFoldSet, SumOn,
       AllSums, Sums, First, Rest

LEMMA FirstRest ==
  ASSUME NEW s, s # {}
  PROVE  /\ First(s) \in s /\ First(s) \notin Rest(s)
         /\ Rest(s) \subseteq s /\ Rest(s) # s /\ s = Rest(s) \cup {First(s)}
BY DEF First, Rest

LEMMA SumsAgree ==
  ASSUME NEW f, NEW S, IsFiniteSet(S), NEW g, NEW h, NEW U, NEW V,
         U \subseteq S, V \subseteq S, Sums(g, f, U), Sums(h, f, V)
  PROVE  \A s \in (SUBSET U) \cap (SUBSET V) : g[s] = h[s]
<1> DEFINE T == {s \in (SUBSET U) \cap (SUBSET V) : g[s] # h[s]}
<1> SUFFICES ASSUME T # {}
             PROVE  FALSE
  OBVIOUS
<1>1. PICK s \in T : \A t \in T : ~ (t \subseteq s /\ t # s)
  <2>1. T \subseteq SUBSET S
    OBVIOUS
  <2> HIDE DEF T
  <2>2. QED
    BY <2>1, LeastSubset
<1>2. CASE s = {}
  BY <1>1, <1>2 DEF Sums
<1>3. CASE s # {}
  <2>1. g[Rest(s)] = h[Rest(s)]
    BY <1>1, <1>3, FirstRest
  <2>2. g[s] = f[First(s)] + g[Rest(s)] /\ h[s] = f[First(s)] + h[Rest(s)]
    BY <1>1, <1>3 DEF Sums
  <2>3. QED
    BY <1>1, <2>1, <2>2
<1>4. QED
  BY <1>2, <1>3

LEMMA SumTakesFirst ==
  ASSUME NEW f, NEW s, IsFiniteSet(s), Sums(AllSums(f, s), f, s),
         s # {} => Sums(AllSums(f, Rest(s)), f, Rest(s))
  PROVE  SumOn(f, s) = IF s = {} THEN 0 ELSE f[First(s)] + SumOn(f, Rest(s))
<1>1. SumOn(f, s) = IF s = {} THEN 0 ELSE f[First(s)] + AllSums(f, s)[Rest(s)]
  BY DEF Sums, SumOn
<1>2. ASSUME s # {}
      PROVE  AllSums(f, s)[Rest(s)] = SumOn(f, Rest(s))
  <2>1. Rest(s) \subseteq s
    BY <1>2, FirstRest
  <2>2. \A t \in (SUBSET s) \cap (SUBSET Rest(s)) :
          AllSums(f, s)[t] = AllSums(f, Rest(s))[t]
    BY <1>2, <2>1, SumsAgree
  <2>3. QED
    BY <2>1, <2>2 DEF SumOn
<1>3. QED
  BY <1>1, <1>2

LEMMA SumsExist ==
  ASSUME NEW f, NEW S, IsFiniteSet(S)
  PROVE  \A s \in SUBSET S : Sums(AllSums(f, s), f, s)
<1> DEFINE T == {s \in SUBSET S : ~ Sums(AllSums(f, s), f, s)}
<1> SUFFICES ASSUME T # {}
             PROVE  FALSE
  OBVIOUS
<1>1. PICK s \in T : \A t \in T : ~ (t \subseteq s /\ t # s)
  <2>1. T \subseteq SUBSET S
    OBVIOUS
  <2> HIDE DEF T
  <2>2. QED
    BY <2>1, LeastSubset
<1>2. \A t \in SUBSET s : t # s => IsFiniteSet(t) /\ Sums(AllSums(f, t), f, t)
  BY <1>1, FS_Subset
<1> DEFINE g == [t \in SUBSET s |->
                   IF t = {} THEN 0 ELSE f[First(t)] + SumOn(f, Rest(t))]
<1>3. ASSUME NEW t \in SUBSET s, t # {}
      PROVE  g[Rest(t)] = SumOn(f, Rest(t))
  <2>1. Rest(t) \in SUBSET s /\ Rest(t) # s
    BY <1>3, FirstRest
  <2>2. Rest(t) # {} =>
          Rest(Rest(t)) \in SUBSET s /\ Rest(Rest(t)) # s
    BY <2>1, FirstRest
  <2>3. SumOn(f, Rest(t))
          = IF Rest(t) = {} THEN 0
                            ELSE f[First(Rest(t))] + SumOn(f, Rest(Rest(t)))
    BY <1>2, <2>1, <2>2, SumTakesFirst
  <2>4. QED
    BY <2>1, <2>3
<1>4. Sums(g, f, s)
  BY <1>3 DEF Sums
<1> HIDE DEF g
<1>5. Sums(AllSums(f, s), f, s)
  BY <1>4 DEF AllSums
<1>6. QED
  BY <1>1, <1>5

(* The library's sum is the sum: none for the empty set, and otherwise one  *)
(* element and the sum of the others.                                       *)
LEMMA SumOnStep ==
  ASSUME NEW f, NEW s, IsFiniteSet(s)
  PROVE  SumOn(f, s) = IF s = {} THEN 0 ELSE f[First(s)] + SumOn(f, Rest(s))
<1>1. \A t \in SUBSET s : Sums(AllSums(f, t), f, t)
  BY SumsExist
<1>2. s # {} => Rest(s) \in SUBSET s
  BY FirstRest
<1>3. QED
  BY <1>1, <1>2, SumTakesFirst

-----------------------------------------------------------------------------
(* The total of a bill.                                                     *)

\* Errors of less than a cent, of which there are m and one more, add up.
LEMMA AddErrors ==
  ASSUME NEW F \in Nat, NEW m \in Nat, NEW x \in Nat, NEW y \in Nat,
         NEW u \in Nat, NEW v \in Nat,
         Dist(x, y) < F, Dist(u, v) + m <= m * F
  PROVE  Dist(x + u, y + v) + (m + 1) <= (m + 1) * F
<1>1. m * F \in Nat /\ (m + 1) * F = m * F + F
  OBVIOUS
<1> DEFINE mF == m * F
<1> HIDE DEF mF
<1>2. Dist(x + u, y + v) + (m + 1) <= mF + F
  BY <1>1 DEF Dist, mF
<1>3. QED
  BY <1>1, <1>2 DEF mF

(* Two sums over the same set, whose terms differ by less than F each when  *)
(* those of one are scaled.                                                 *)
LEMMA SumsNear ==
  ASSUME NEW S, IsFiniteSet(S), NEW c, NEW w, NEW F \in Nat,
         \A i \in S : /\ c[i] \in Nat /\ w[i] \in Nat
                      /\ Dist(c[i] * F, w[i]) < F
  PROVE  /\ SumOn(c, S) \in Nat /\ SumOn(w, S) \in Nat
         /\ Dist(SumOn(c, S) * F, SumOn(w, S)) + Cardinality(S)
              <= Cardinality(S) * F
<1> DEFINE Near(s) ==
             /\ SumOn(c, s) \in Nat /\ SumOn(w, s) \in Nat
             /\ Dist(SumOn(c, s) * F, SumOn(w, s)) + Cardinality(s)
                  <= Cardinality(s) * F
           Far == {s \in SUBSET S : ~ Near(s)}
<1> SUFFICES ASSUME Far # {}
             PROVE  FALSE
  OBVIOUS
<1>1. PICK s \in Far : \A t \in Far : ~ (t \subseteq s /\ t # s)
  <2>1. Far \subseteq SUBSET S
    OBVIOUS
  <2> HIDE DEF Far
  <2>2. QED
    BY <2>1, LeastSubset
<1>2. s \in SUBSET S /\ ~ Near(s) /\ IsFiniteSet(s)
  BY <1>1, FS_Subset
<1>3. CASE s = {}
  <2>1. SumOn(c, s) = 0 /\ SumOn(w, s) = 0 /\ Cardinality(s) = 0
    BY <1>2, <1>3, SumOnStep, FS_EmptySet
  <2>2. QED
    BY <1>2, <2>1 DEF Dist
<1>4. CASE s # {}
  <2> DEFINE x == First(s)
             r == Rest(s)
  <2>1. /\ r \in SUBSET S /\ r \subseteq s /\ r # s /\ x \in S /\ x \notin r
        /\ s = r \cup {x}
    BY <1>2, <1>4, FirstRest
  <2>2. Near(r)
    BY <1>1, <2>1
  <2>3. IsFiniteSet(r) /\ Cardinality(r) \in Nat
    BY <1>2, <2>1, FS_Subset, FS_CardinalityType
  <2>4. Cardinality(s) = Cardinality(r) + 1
    BY <2>1, <2>3, FS_AddElement
  <2>5. SumOn(c, s) = c[x] + SumOn(c, r) /\ SumOn(w, s) = w[x] + SumOn(w, r)
    BY <1>2, <1>4, SumOnStep
  <2>6. c[x] \in Nat /\ w[x] \in Nat /\ Dist(c[x] * F, w[x]) < F
    BY <2>1
  <2> DEFINE m == Cardinality(r)
             C == SumOn(c, r)
             W == SumOn(w, r)
  <2>7. m \in Nat /\ C \in Nat /\ W \in Nat /\ Dist(C * F, W) + m <= m * F
    BY <2>2, <2>3
  <2> HIDE DEF x, r, m, C, W
  <2>8. c[x] * F \in Nat /\ C * F \in Nat
    BY <2>6, <2>7
  <2>9. Dist(c[x] * F + C * F, w[x] + W) + (m + 1) <= (m + 1) * F
    BY <2>6, <2>7, <2>8, AddErrors
  <2>10. (c[x] + C) * F = c[x] * F + C * F
    BY <2>6, <2>7
  <2>11. /\ SumOn(c, s) = c[x] + C /\ SumOn(w, s) = w[x] + W
         /\ Cardinality(s) = m + 1
    BY <2>4, <2>5 DEF C, W, m
  <2>12. Near(s)
    BY <2>6, <2>7, <2>9, <2>10, <2>11
  <2>13. QED
    BY <1>2, <2>12
<1>5. QED
  BY <1>3, <1>4

(* The error of one item below the precision is less than a cent.           *)
LEMMA BelowCent ==
  ASSUME NEW P \in Nat \ {0}, NEW A \in Nat, NEW F \in Nat \ {0}, NEW d \in Nat,
         A < P, 2 * P * d <= F * (P + A)
  PROVE  d < F
<1> SUFFICES ASSUME F <= d
             PROVE  FALSE
  OBVIOUS
<1>1. (2 * P) * F <= (2 * P) * d
  BY ScaleLess
<1>2. F * (P + A + 1) <= F * (2 * P)
  BY ScaleLess
<1>3. F * (P + A + 1) = F * (P + A) + F /\ F * (2 * P) = (2 * P) * F
  OBVIOUS
<1>4. QED
  <2> DEFINE x == F * (P + A)
             y == (2 * P) * F
             z == (2 * P) * d
  <2>1. x \in Nat /\ y \in Nat /\ z \in Nat
    OBVIOUS
  <2>2. z <= x /\ y <= z /\ x + F <= y
    BY <1>1, <1>2, <1>3
  <2> HIDE DEF x, y, z
  <2>3. QED
    BY <2>1, <2>2

\* A closed bill has the sum of what is stored as its total.
Totalled == status = "closed" => total = Sum

LEMMA TotalledAlways == Spec => []Totalled
<1>1. Init => Totalled
  BY DEF Init, Totalled
<1>2. Totalled /\ [Next]_vars => Totalled'
  <2> SUFFICES ASSUME Totalled, [Next]_vars
               PROVE  Totalled'
    OBVIOUS
  <2>1. ASSUME NEW amount \in Amounts, NEW from \in Currencies,
               AddLineItem(amount, from)
        PROVE  Totalled'
    BY <2>1 DEF AddLineItem, Totalled
  <2>2. CASE Recalculate \/ CloseBill
    <3>1. total' = Sum /\ items' = items
      BY <2>2 DEF Recalculate, CloseBill, UpdateBillTotal
    <3>2. QED
      BY <3>1 DEF Totalled, Sum
  <2>3. CASE UNCHANGED vars
    BY <2>3 DEF vars, Totalled, Sum
  <2>4. QED
    BY <2>1, <2>2, <2>3 DEF Next
<1>3. QED
  BY <1>1, <1>2, PTL DEF Spec

(* A difference of less than a cent in units of 1 / F is one in any finer   *)
(* unit.                                                                    *)
LEMMA FinerUnit ==
  ASSUME NEW F \in Nat \ {0}, NEW U \in Nat \ {0}, U % F = 0,
         NEW C \in Nat, NEW A \in Nat, NEW T \in Nat, Dist(C * F, A * T) < F
  PROVE  A * T * (U \div F) \in Nat /\ Dist(C * U, A * T * (U \div F)) < U
<1>1. PICK q \in Nat : q = U \div F /\ U = q * F
  BY DivExact
<1>2. q # 0
  BY <1>1
<1>3. PICK x \in Nat : x = C * F
  OBVIOUS
<1>4. PICK y \in Nat : y = A * T
  OBVIOUS
<1>5. Dist(x, y) \in Nat /\ Dist(x, y) < F
  BY <1>3, <1>4 DEF Dist
<1>6. C * U = q * x
  BY <1>1, <1>3
<1>7. A * T * q = q * y
  BY <1>4
<1>8. Dist(q * x, q * y) = q * Dist(x, y)
  BY ScaleDist
<1>9. q * (Dist(x, y) + 1) <= q * F
  BY <1>5, ScaleLess
<1>10. q * (Dist(x, y) + 1) = q * Dist(x, y) + q /\ q * Dist(x, y) \in Nat
  BY <1>5
<1>11. q * Dist(x, y) < U
  BY <1>1, <1>2, <1>9, <1>10
<1>12. QED
  BY <1>1, <1>4, <1>6, <1>7, <1>8, <1>11

(* One item: what is stored for it is what it is worth up to a cent.        *)
LEMMA ItemWorth ==
  ASSUME TypeOK, Converted, NEW i \in DOMAIN items,
         Fits(items[i]), items[i].amount < Precision
  PROVE  /\ items[i].cents \in Nat /\ Worth(items[i]) \in Nat
         /\ Dist(items[i].cents * Unit, Worth(items[i])) < Unit
<1>1. /\ items[i].amount \in Nat /\ items[i].from \in Currencies
      /\ Rate[items[i].from] \in Nat /\ Rate[currency] \in Nat
      /\ Precision \in Nat \ {0} /\ Unit \in Nat \ {0}
  BY ItemTypes, UnitAssumption
<1>2. /\ Convertible(items[i].from, currency)
      /\ items[i].cents = Convert(items[i].amount, items[i].from, currency)
  BY DEF Converted
<1>3. CASE items[i].from = currency
  <2>1. items[i].cents = items[i].amount
    BY <1>2, <1>3 DEF Convert
  <2>2. Worth(items[i]) = items[i].amount * Unit
    BY <1>3 DEF Worth
  <2>3. items[i].amount * Unit \in Nat
    BY <1>1
  <2>4. Dist(items[i].amount * Unit, items[i].amount * Unit) = 0
    BY <2>3 DEF Dist
  <2>5. QED
    BY <1>1, <2>1, <2>2, <2>3, <2>4
<1>4. CASE items[i].from # currency
  <2> DEFINE F == Rate[items[i].from]
             T == Rate[currency]
             A == items[i].amount
             C == items[i].cents
  <2>1. F \in Nat \ {0} /\ Unit % F = 0
    BY <1>1, <1>2, <1>4, UnitAssumption DEF Convertible
  <2>2. /\ C \in Nat
        /\ 2 * Precision * Dist(C * F, A * T) <= F * (Precision + A)
    BY <2>1, ItemNearExact DEF Error
  <2>3. Worth(items[i]) = A * T * (Unit \div F)
    BY <1>4 DEF Worth
  <2>4. A \in Nat /\ T \in Nat /\ A < Precision
    BY <1>1
  <2> HIDE DEF F, T, A, C
  <2>5. C * F \in Nat /\ A * T \in Nat
    BY <2>1, <2>2, <2>4
  <2>6. Dist(C * F, A * T) \in Nat
    BY <2>5 DEF Dist
  <2>7. Dist(C * F, A * T) < F
    BY <1>1, <2>1, <2>2, <2>4, <2>6, BelowCent
  <2>8. A * T * (Unit \div F) \in Nat
        /\ Dist(C * Unit, A * T * (Unit \div F)) < Unit
    BY <1>1, <2>1, <2>2, <2>4, <2>7, FinerUnit
  <2>9. QED
    BY <2>2, <2>3, <2>8 DEF C
<1>5. QED
  BY <1>3, <1>4

(* The client of a closed bill pays what its charges are worth, up to less  *)
(* than a cent for each of them: whatever the rates, however many line      *)
(* items there are, and whichever currencies they came in.                  *)
THEOREM TotalNearExactCorrect == Spec => []TotalNearExact
<1>1. TypeOK /\ Converted /\ Totalled => TotalNearExact
  <2> SUFFICES ASSUME TypeOK, Converted, Totalled,
                      status = "closed", items # <<>>,
                      \A i \in DOMAIN items :
                        Fits(items[i]) /\ items[i].amount < Precision
               PROVE  Dist(total * Unit,
                           SumFunction([i \in DOMAIN items |-> Worth(items[i])]))
                        < Len(items) * Unit
    BY DEF TotalNearExact
  <2> DEFINE S == DOMAIN items
             c == [i \in DOMAIN items |-> items[i].cents]
             w == [i \in DOMAIN items |-> Worth(items[i])]
             n == Len(items)
  <2>1. items \in Seq(Item) /\ Unit \in Nat
    BY UnitAssumption DEF TypeOK
  <2>2. S = 1..n /\ n \in Nat /\ n # 0
    BY <2>1
  <2>3. IsFiniteSet(S) /\ Cardinality(S) = n
    <3>1. IsFiniteSet(1..n) /\ Cardinality(1..n) = n
      BY <2>2, FS_Interval
    <3>2. QED
      BY <2>2, <3>1
  <2>4. \A i \in S : c[i] \in Nat /\ w[i] \in Nat
                     /\ Dist(c[i] * Unit, w[i]) < Unit
    BY ItemWorth
  <2>5. total = SumOn(c, S)
    BY SumIsSumOn DEF Totalled, Sum
  <2>6. SumFunction(w) = SumOn(w, S)
    BY SumIsSumOn
  <2> HIDE DEF S, c, w, n
  <2>7. /\ SumOn(c, S) \in Nat /\ SumOn(w, S) \in Nat
        /\ Dist(SumOn(c, S) * Unit, SumOn(w, S)) + n <= n * Unit
    BY <2>1, <2>3, <2>4, SumsNear
  <2>8. Dist(total * Unit, SumFunction(w)) < n * Unit
    <3> DEFINE d == Dist(SumOn(c, S) * Unit, SumOn(w, S))
               m == n * Unit
    <3>1. SumOn(c, S) * Unit \in Nat
      BY <2>1, <2>7
    <3>2. d \in Nat /\ m \in Nat
      BY <2>1, <2>2, <2>7, <3>1 DEF Dist
    <3> HIDE DEF d, m
    <3>3. d < m
      BY <2>2, <2>7, <3>2 DEF d, m
    <3>4. QED
      BY <2>5, <2>6, <3>3 DEF d, m
  <2>9. QED
    BY <2>8 DEF w, n
<1>2. QED
  BY <1>1, TypeCorrect, ConvertedAlways, TotalledAlways, PTL
=============================================================================
