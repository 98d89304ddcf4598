-------------------------- MODULE BillReadsProofs --------------------------
(* What GetBill and ListBills show is consistent, for every set of bills,     *)
(* keys, closes and page sizes, whatever is committed between their SELECTs.  *)
EXTENDS BillReads, BillLifecycleProofs, FiniteSetTheorems

(* The invariant of a GetBill under way: the total it has read counts items   *)
(* its bill has, and exactly those if the bill was closed by then.            *)
GetInv ==
  /\ reader.at = "items" =>
       /\ reader.bill \in Bills
       /\ reader.total \subseteq SumOf(items, reader.bill)
       /\ reader.status = "closed" =>
            /\ row[reader.bill].status = "closed"
            /\ reader.total = SumOf(items, reader.bill)
  /\ reader.at = "shown" =>
       /\ reader.total \subseteq reader.items
       /\ reader.status = "closed" => reader.total = reader.items

\* The stored bills that come before b on every page, and those that may.
Newer(b) == {c \in Stored : created[c] > created[b]}
Twin(b)  == \E c \in Stored \ {b} : created[c] = created[b]

(* The invariant of a listing under way: so many bills come before a bill     *)
(* not yet met that it is still to come.                                      *)
StillToCome(b) ==
  /\ reader.at = "page" => Cardinality(Newer(b)) >= reader.offset
  /\ reader.at = "count" =>
       \/ b \in reader.page
       \/ Cardinality(Newer(b)) >= reader.offset + reader.limit
  /\ reader.at = "listed" =>
       \/ b \in reader.page
       \/ /\ Cardinality(Newer(b)) >= reader.offset + reader.limit
          /\ reader.total > reader.offset + reader.limit
  /\ reader.at # "complete"

ListInv ==
  reader.at \in {"page", "count", "listed", "complete"} =>
    /\ reader.missed \subseteq Stored
    /\ \A b \in reader.missed : Twin(b) \/ StillToCome(b)

ReadInv == IInv /\ ReadTypeOK /\ GetInv /\ ListInv

-----------------------------------------------------------------------------
(* No transaction takes a line item or a bill away.                           *)
LEMMA ItemsGrow == [Next]_vars => items \subseteq items'
<1> SUFFICES ASSUME [Next]_vars
             PROVE  items \subseteq items'
  OBVIOUS
<1>1. CASE UNCHANGED vars
  BY <1>1 DEF vars
<1>2. CASE Next
  BY <1>2 DEF Next, Create, Activate, Recalculate, AddItem, CloseUnstarted,
              CloseStarted
<1>3. QED
  BY <1>1, <1>2

LEMMA StoredGrows == TypeOK /\ [Next]_vars => Stored \subseteq Stored'
<1> SUFFICES ASSUME TypeOK, [Next]_vars, NEW b \in Stored
             PROVE  row'[b].status # "none"
  BY DEF Stored
<1>1. b \in Bills /\ row[b].status # "none" /\ row[b] \in Row
        /\ row \in [Bills -> Row]
  BY DEF Stored, TypeOK
<1>2. CASE UNCHANGED vars
  BY <1>1, <1>2 DEF vars
<1>3. ASSUME NEW c \in Bills, Create(c)
      PROVE  row'[b].status # "none"
  BY <1>1, <1>3 DEF Create, NewRow
<1>4. ASSUME NEW c \in Bills, Activate(c)
      PROVE  row'[b].status # "none"
  BY <1>1, <1>4 DEF Activate, Row
<1>5. ASSUME NEW c \in Bills, Recalculate(c)
      PROVE  row'[b].status # "none"
  BY <1>1, <1>5 DEF Recalculate, Row
<1>6. ASSUME NEW c \in Bills, NEW k \in Keys, AddItem(c, k)
      PROVE  row'[b].status # "none"
  BY <1>1, <1>6 DEF AddItem
<1>7. ASSUME NEW c \in Bills, NEW r \in Reasons,
             CloseUnstarted(c, r) \/ CloseStarted(c, r)
      PROVE  row'[b].status # "none"
  BY <1>1, <1>7 DEF CloseUnstarted, CloseStarted, Row
<1>8. QED
  BY <1>2, <1>3, <1>4, <1>5, <1>6, <1>7 DEF Next

(* The sets of bills that are counted are finite.                             *)
LEMMA Finite ==
  /\ IsFiniteSet(Stored) /\ Cardinality(Stored) \in Nat
  /\ \A b : IsFiniteSet(Newer(b)) /\ Cardinality(Newer(b)) \in Nat
<1>1. ASSUME NEW S \in SUBSET Bills
      PROVE  IsFiniteSet(S) /\ Cardinality(S) \in Nat
  BY BillsAssumption, FS_Subset, FS_CardinalityType
<1>2. Stored \in SUBSET Bills
  BY DEF Stored
<1>3. ASSUME NEW b
      PROVE  IsFiniteSet(Newer(b)) /\ Cardinality(Newer(b)) \in Nat
  <2>1. Newer(b) \in SUBSET Bills
    BY DEF Stored, Newer
  <2> HIDE DEF Newer
  <2>2. QED
    BY <1>1, <2>1
<1>4. IsFiniteSet(Stored) /\ Cardinality(Stored) \in Nat
  BY <1>1, <1>2
<1>5. QED
  BY <1>3, <1>4

(* The bill a page does not reach is preceded by that page and the ones       *)
(* before it, unless another bill has its stamp.                              *)
LEMMA PageOrLater ==
  ASSUME ReadTypeOK, NEW s \in Listings, NEW b \in Stored, ~ Twin(b),
         NEW limit \in Nat, NEW offset \in Nat,
         Cardinality(Newer(b)) >= offset, b \notin Page(s, limit, offset)
  PROVE  Cardinality(Newer(b)) >= offset + limit
<1> DEFINE n == Cardinality(Stored)
<1>1. n \in Nat
  BY Finite
<1>2. /\ s \in [1..n -> Stored]
      /\ \A i, j \in 1..n : s[i] = s[j] => i = j
      /\ \A c \in Stored : \E i \in 1..n : s[i] = c
      /\ \A i, j \in 1..n : i < j => created[s[i]] >= created[s[j]]
  BY DEF Listings, Bijection, Injection, Surjection, IsInjective
<1>3. PICK p \in 1..n : s[p] = b
  BY <1>2
<1>4. \A c \in Stored : created[c] \in Nat
  BY StampAssumption DEF ReadTypeOK, Stored
<1> HIDE DEF n
<1>5. Newer(b) = {s[i] : i \in 1..(p - 1)}
  <2>1. ASSUME NEW c \in Newer(b)
        PROVE  \E i \in 1..(p - 1) : s[i] = c
    <3>1. c \in Stored /\ created[c] > created[b]
      BY DEF Newer
    <3>2. PICK i \in 1..n : s[i] = c
      BY <1>2, <3>1
    <3>3. ~ (p < i) /\ p # i
      BY <1>1, <1>2, <1>3, <1>4, <3>1, <3>2
    <3>4. QED
      BY <1>1, <3>2, <3>3
  <2>2. ASSUME NEW i \in 1..(p - 1)
        PROVE  s[i] \in Newer(b)
    <3>1. i \in 1..n /\ i < p
      BY <1>1
    <3>2. s[i] \in Stored /\ s[i] # b /\ created[s[i]] >= created[b]
      BY <1>2, <1>3, <3>1
    <3>3. created[s[i]] # created[b]
      BY <3>2 DEF Twin
    <3>4. QED
      BY <1>4, <3>2, <3>3 DEF Newer
  <2>3. QED
    BY <2>1, <2>2
<1>6. Cardinality(Newer(b)) = p - 1
  <2> DEFINE g == [i \in 1..(p - 1) |-> s[i]]
  <2>1. p - 1 \in Nat /\ \A i \in 1..(p - 1) : i \in 1..n
    BY <1>1
  <2>2. g \in [1..(p - 1) -> Newer(b)]
    BY <1>5
  <2>3. \A i, j \in 1..(p - 1) : g[i] = g[j] => i = j
    BY <1>2, <2>1
  <2>4. \A c \in Newer(b) : \E i \in 1..(p - 1) : g[i] = c
    BY <1>5
  <2> HIDE DEF g
  <2>5. g \in Bijection(1..(p - 1), Newer(b))
    BY <2>2, <2>3, <2>4 DEF Bijection, Injection, Surjection, IsInjective
  <2>6. ExistsBijection(1..(p - 1), Newer(b))
    BY <2>5 DEF ExistsBijection
  <2>7. QED
    BY <2>1, <2>6, FS_CountingElements
<1>7. ~ (offset < p /\ p <= offset + limit)
  BY <1>2, <1>3 DEF Page
<1>8. QED
  BY <1>1, <1>6, <1>7

(* If so many bills come before b, there is one more than that.               *)
LEMMA OneMoreStored ==
  ASSUME ReadTypeOK, NEW b \in Stored
  PROVE  Cardinality(Stored) > Cardinality(Newer(b))
<1>1. b \notin Newer(b) /\ Newer(b) \cup {b} \in SUBSET Stored
  <2>1. created[b] \in Nat
    BY StampAssumption DEF ReadTypeOK, Stored
  <2>2. QED
    BY <2>1 DEF Newer
<1>2. Cardinality(Newer(b) \cup {b}) = Cardinality(Newer(b)) + 1
  BY <1>1, Finite, FS_AddElement
<1>3. Cardinality(Newer(b) \cup {b}) <= Cardinality(Stored)
  BY <1>1, Finite, FS_Subset
<1>4. QED
  BY <1>2, <1>3, Finite

(* The reader's fields follow from where it is.                               *)
LEMMA ReaderForm ==
  ASSUME ReadTypeOK
  PROVE  /\ reader.at \in {"items", "shown"} => reader \in Detail
         /\ reader.at \in {"page", "count", "listed", "complete"} =>
              reader \in Listing
BY DEF ReadTypeOK, Idle, Missing, Detail, Listing

(* A read call changes no row; any other step is one of BillLifecycle.        *)
LEMMA ReadStep ==
  [ReadNext]_readVars =>
    /\ [Next]_vars
    /\ created' = created
    /\ \/ reader' = reader
       \/ /\ row' = row /\ items' = items
          /\ \/ \E b \in Bills : GetBill(b)
             \/ BeginListing \/ ListBills \/ NextPage \/ Leave
BY DEF ReadNext, readVars, vars, GetBill, BeginListing, ListBills, NextPage, Leave

(* The types of a read call are kept.                                         *)
LEMMA ReadTypeStep ==
  ASSUME ReadTypeOK, [ReadNext]_readVars
  PROVE  ReadTypeOK'
<1>1. TypeOK' /\ created' \in [Bills -> Stamps]
  BY ReadStep, TypeStep DEF ReadTypeOK
<1> SUFFICES reader' \in {Idle, Missing} \cup Detail \cup Listing
  BY <1>1 DEF ReadTypeOK, Idle, Missing, Detail, Listing
<1>2. TypeOK /\ reader \in {Idle, Missing} \cup Detail \cup Listing
  BY DEF ReadTypeOK
<1>3. CASE reader' = reader
  BY <1>2, <1>3
<1>4. ASSUME NEW b \in Bills, GetBill(b)
      PROVE  reader' \in {Idle, Missing} \cup Detail \cup Listing
  <2>1. SumOf(items, b) \in SUBSET Keys
    BY <1>2, SumIsKeys DEF TypeOK
  <2>2. Read(b) \in Detail
    BY <1>2 DEF Read, Detail, Shown, TypeOK, Row
  <2>3. ASSUME reader.at = "items"
        PROVE  [reader EXCEPT !.at = "shown", !.items = SumOf(items, b)] \in Detail
    BY <2>1, <2>3, ReaderForm DEF Detail
  <2>4. QED
    BY <1>4, <2>2, <2>3 DEF GetBill, GetLineItemsByBill
<1>5. CASE BeginListing
  <2>1. PICK asked \in Limits :
          reader' = [at |-> "page", limit |-> PageSize(asked), offset |-> 0,
                     total |-> 0, page |-> {}, missed |-> Stored]
    BY <1>5 DEF BeginListing
  <2>2. PageSize(asked) \in 1..MaxLimit
    BY LimitAssumption DEF PageSize
  <2>3. Stored \in SUBSET Bills
    BY DEF Stored
  <2>4. QED
    BY <2>1, <2>2, <2>3 DEF Listing
<1>6. CASE ListBills
  <2>1. CASE reader.at = "page"
    <3>1. PICK s \in Listings :
            reader' = [reader EXCEPT
                         !.at = "count",
                         !.page = Page(s, reader.limit, reader.offset)]
      BY <1>6, <2>1 DEF ListBills
    <3>2. Page(s, reader.limit, reader.offset) \in SUBSET Bills
      <4>1. s \in [1..Cardinality(Stored) -> Stored]
        BY DEF Listings, Bijection, Injection
      <4>2. \A i \in DOMAIN s : s[i] \in Bills
        BY <4>1 DEF Stored
      <4>3. QED
        BY <4>2 DEF Page
    <3>3. reader \in Listing
      BY <2>1, ReaderForm
    <3>4. QED
      BY <3>1, <3>2, <3>3 DEF Listing
  <2>2. CASE reader.at = "count"
    BY <1>6, <2>2, ReaderForm, Finite DEF ListBills, Listing
  <2>3. QED
    BY <1>6, <2>1, <2>2 DEF ListBills
<1>7. CASE NextPage
  <2>1. reader.at = "listed" /\ reader \in Listing
    BY <1>7, ReaderForm DEF NextPage
  <2>2. reader.offset + reader.limit \in Nat
    BY <2>1, LimitAssumption DEF Listing
  <2>3. QED
    BY <1>7, <2>1, <2>2 DEF NextPage, Listing
<1>8. CASE Leave
  BY <1>8 DEF Leave
<1>9. QED
  BY <1>3, <1>4, <1>5, <1>6, <1>7, <1>8, ReadStep

(* What GetBill has read stays true of its bill, or of what it shows.         *)
LEMMA GetInvStep ==
  ASSUME ReadInv, [ReadNext]_readVars
  PROVE  GetInv'
<1>1. IInv /\ ReadTypeOK /\ GetInv /\ [Next]_vars
  BY ReadStep DEF ReadInv
<1>2. CASE reader' = reader
  <2>1. CASE reader.at = "items"
    <3>1. reader.bill \in Bills
      BY <1>1, <2>1 DEF GetInv
    <3>2. SumOf(items, reader.bill) \subseteq SumOf(items', reader.bill)
      BY <1>1, ItemsGrow DEF SumOf
    <3>3. StepOf(reader.bill)
      BY <1>1, <3>1, BillStep
    <3>4. QED
      BY <1>1, <1>2, <2>1, <3>1, <3>2, <3>3 DEF GetInv, StepOf, SumOf
  <2>2. CASE reader.at # "items"
    BY <1>1, <1>2, <2>2 DEF GetInv
  <2>3. QED
    BY <2>1, <2>2
<1>3. ASSUME NEW b \in Bills, GetBill(b)
      PROVE  GetInv'
  <2>1. row' = row /\ items' = items
    BY <1>3 DEF GetBill, vars
  <2>2. CASE reader = Idle /\ b \in Stored
    <3>1. reader' = Read(b)
      BY <1>3, <2>2 DEF GetBill, Idle
    <3>2. /\ reader'.at = "items" /\ reader'.bill = b
          /\ reader'.total = Shown(row[b].total)
          /\ reader'.status = row[b].status
      BY <3>1 DEF Read
    <3>3. BillInv(b)
      BY <1>1 DEF IInv
    <3>4. QED
      BY <2>1, <3>2, <3>3 DEF GetInv, BillInv, SumOf
  <2>3. CASE reader = Idle /\ b \notin Stored
    <3>1. reader' = Missing
      BY <1>3, <2>3 DEF GetBill, Idle
    <3>2. QED
      BY <3>1 DEF GetInv, Missing
  <2>4. CASE reader.at = "items" /\ reader.bill = b
    <3>1. reader' = [reader EXCEPT !.at = "shown", !.items = SumOf(items, b)]
      BY <1>3, <2>4 DEF GetBill, GetLineItemsByBill, Idle
    <3>2. reader \in Detail
      BY <1>1, <2>4, ReaderForm
    <3>3. /\ reader'.at = "shown" /\ reader'.items = SumOf(items, b)
          /\ reader'.total = reader.total /\ reader'.status = reader.status
      BY <3>1, <3>2 DEF Detail
    <3>4. QED
      BY <1>1, <2>4, <3>3 DEF GetInv
  <2>5. QED
    BY <1>3, <2>2, <2>3, <2>4 DEF GetBill
<1>4. CASE BeginListing
  BY <1>4 DEF BeginListing, GetInv
<1>5. CASE ListBills
  <2>1. reader \in Listing
    BY <1>1, <1>5, ReaderForm DEF ListBills
  <2>2. reader'.at \in {"count", "listed"}
    BY <1>5, <2>1 DEF ListBills, Listing
  <2>3. QED
    BY <2>2 DEF GetInv
<1>6. CASE NextPage
  <2>1. reader \in Listing
    BY <1>1, <1>6, ReaderForm DEF NextPage
  <2>2. reader'.at \in {"page", "complete"}
    BY <1>6, <2>1 DEF NextPage, Listing
  <2>3. QED
    BY <2>2 DEF GetInv
<1>7. CASE Leave
  BY <1>7 DEF Leave, Idle, GetInv
<1>8. QED
  BY <1>2, <1>3, <1>4, <1>5, <1>6, <1>7, ReadStep

(* Bills that are stored meanwhile come before those still to come.           *)
LEMMA NewerGrows ==
  ASSUME ReadTypeOK, [Next]_vars, created' = created, NEW b \in Stored
  PROVE  /\ b \in Stored'
         /\ Twin(b) => Twin(b)'
         /\ Cardinality(Newer(b)) \in Nat
         /\ Cardinality(Newer(b)') \in Nat
         /\ Cardinality(Newer(b)) <= Cardinality(Newer(b)')
<1>1. Stored \subseteq Stored' /\ Stored' \in SUBSET Bills
  BY StoredGrows DEF ReadTypeOK, Stored
<1>2. Newer(b) \in SUBSET (Newer(b)') /\ Newer(b)' \in SUBSET Bills
  BY <1>1 DEF Newer
<1>3. IsFiniteSet(Newer(b)')
  BY <1>2, BillsAssumption, FS_Subset
<1>4. Cardinality(Newer(b)) <= Cardinality(Newer(b)')
  BY <1>2, <1>3, FS_Subset
<1>5. Cardinality(Newer(b)') \in Nat /\ Cardinality(Newer(b)) \in Nat
  BY <1>3, Finite, FS_CardinalityType
<1>6. Twin(b) => Twin(b)'
  BY <1>1 DEF Twin
<1>7. QED
  BY <1>1, <1>4, <1>5, <1>6

(* A bill not yet met stays ahead of the reader, page by page.                *)
LEMMA ListInvStep ==
  ASSUME ReadInv, [ReadNext]_readVars
  PROVE  ListInv'
<1>1. ReadTypeOK /\ ListInv /\ [Next]_vars /\ created' = created
  BY ReadStep DEF ReadInv
<1>2. CASE reader' = reader
  <2> SUFFICES ASSUME reader.at \in {"page", "count", "listed", "complete"}
               PROVE  /\ reader.missed \subseteq Stored'
                      /\ \A b \in reader.missed : Twin(b)' \/ StillToCome(b)'
    BY <1>2 DEF ListInv
  <2>1. reader \in Listing /\ reader.missed \subseteq Stored
    BY <1>1, ReaderForm DEF ListInv
  <2>2. ASSUME NEW b \in reader.missed
        PROVE  b \in Stored' /\ (Twin(b)' \/ StillToCome(b)')
    <3>1. b \in Stored /\ (Twin(b) \/ StillToCome(b))
      BY <1>1, <2>1 DEF ListInv
    <3>2. /\ b \in Stored' /\ (Twin(b) => Twin(b)')
          /\ Cardinality(Newer(b)) \in Nat /\ Cardinality(Newer(b)') \in Nat
          /\ Cardinality(Newer(b)) <= Cardinality(Newer(b)')
      BY <1>1, <3>1, NewerGrows
    <3>3. reader.offset \in Nat /\ reader.limit \in Nat
      BY <2>1 DEF Listing
    <3>4. CASE StillToCome(b)
      BY <1>2, <3>2, <3>3, <3>4 DEF StillToCome
    <3>5. QED
      BY <3>1, <3>2, <3>4
  <2>3. QED
    BY <2>2
<1>3. CASE row' = row /\ items' = items /\ reader' # reader
  <2>1. Stored' = Stored /\ \A b : Newer(b)' = Newer(b) /\ Twin(b)' = Twin(b)
    BY <1>1, <1>3 DEF Stored, Newer, Twin
  <2>2. ASSUME NEW b \in Bills, GetBill(b)
        PROVE  reader'.at \in {"items", "missing", "shown"}
    <3>1. CASE reader = Idle
      BY <2>2, <3>1 DEF GetBill, Idle, Read, Missing
    <3>2. CASE reader.at = "items" /\ reader.bill = b
      <4>1. reader' = [reader EXCEPT !.at = "shown", !.items = SumOf(items, b)]
        BY <2>2, <3>2 DEF GetBill, GetLineItemsByBill, Idle
      <4>2. reader \in Detail
        BY <1>1, <3>2, ReaderForm
      <4>3. QED
        BY <4>1, <4>2 DEF Detail
    <3>3. QED
      BY <2>2, <3>1, <3>2 DEF GetBill
  <2>3. CASE BeginListing
    <3>1. reader'.at = "page" /\ reader'.offset = 0 /\ reader'.missed = Stored
      BY <2>3 DEF BeginListing
    <3>2. \A b : Cardinality(Newer(b)) >= 0
      BY Finite
    <3>3. QED
      BY <2>1, <3>1, <3>2 DEF ListInv, StillToCome
  <2>4. CASE ListBills /\ reader.at = "page"
    <3>1. reader \in Listing
      BY <1>1, <2>4, ReaderForm
    <3>2. PICK s \in Listings :
            reader' = [reader EXCEPT
                         !.at = "count",
                         !.page = Page(s, reader.limit, reader.offset)]
      BY <2>4 DEF ListBills
    <3>3. /\ reader'.at = "count" /\ reader'.missed = reader.missed
          /\ reader'.page = Page(s, reader.limit, reader.offset)
          /\ reader'.offset = reader.offset /\ reader'.limit = reader.limit
          /\ reader.limit \in Nat /\ reader.offset \in Nat
      BY <3>1, <3>2 DEF Listing
    <3>4. reader.missed \subseteq Stored
      BY <1>1, <2>4 DEF ListInv
    <3>5. ASSUME NEW b \in reader.missed
          PROVE  \/ Twin(b)
                 \/ b \in reader'.page
                 \/ Cardinality(Newer(b)) >= reader.offset + reader.limit
      <4>1. Twin(b) \/ Cardinality(Newer(b)) >= reader.offset
        BY <1>1, <2>4 DEF ListInv, StillToCome
      <4>2. QED
        BY <1>1, <3>3, <3>4, <4>1, PageOrLater
    <3>6. QED
      BY <2>1, <3>3, <3>4, <3>5 DEF ListInv, StillToCome
  <2>5. CASE ListBills /\ reader.at = "count"
    <3>1. reader \in Listing
      BY <1>1, <2>5, ReaderForm
    <3>2. reader' = [reader EXCEPT !.at = "listed", !.total = Cardinality(Stored)]
      BY <2>5 DEF ListBills
    <3>3. /\ reader'.at = "listed" /\ reader'.missed = reader.missed
          /\ reader'.page = reader.page
          /\ reader'.total = Cardinality(Stored)
          /\ reader'.offset = reader.offset /\ reader'.limit = reader.limit
          /\ reader.limit \in Nat /\ reader.offset \in Nat
      BY <3>1, <3>2 DEF Listing
    <3>4. reader.missed \subseteq Stored
      BY <1>1, <2>5 DEF ListInv
    <3>5. ASSUME NEW b \in reader.missed
          PROVE  \/ Twin(b)
                 \/ b \in reader.page
                 \/ /\ Cardinality(Newer(b)) >= reader.offset + reader.limit
                    /\ Cardinality(Stored) > reader.offset + reader.limit
      <4>1. \/ Twin(b)
            \/ b \in reader.page
            \/ Cardinality(Newer(b)) >= reader.offset + reader.limit
        BY <1>1, <2>5 DEF ListInv, StillToCome
      <4>2. Cardinality(Stored) > Cardinality(Newer(b))
        BY <1>1, <3>4, OneMoreStored
      <4>3. QED
        BY <3>3, <4>1, <4>2, Finite
    <3>6. QED
      BY <2>1, <3>3, <3>4, <3>5 DEF ListInv, StillToCome
  <2>6. CASE NextPage
    <3>1. reader \in Listing /\ reader.at = "listed"
      BY <1>1, <2>6, ReaderForm DEF NextPage
    <3>2. /\ reader'.missed = reader.missed \ reader.page
          /\ reader'.offset = reader.offset + reader.limit
          /\ reader'.at = IF reader.offset + reader.limit >= reader.total
                            THEN "complete" ELSE "page"
          /\ reader.offset \in Nat /\ reader.limit \in Nat
          /\ reader.total \in Nat
      BY <2>6, <3>1 DEF NextPage, Listing
    <3>3. reader.missed \subseteq Stored
      BY <1>1, <3>1 DEF ListInv
    <3>4. ASSUME NEW b \in reader.missed \ reader.page
          PROVE  \/ Twin(b)
                 \/ /\ Cardinality(Newer(b)) >= reader.offset + reader.limit
                    /\ reader.total > reader.offset + reader.limit
      BY <1>1, <3>1 DEF ListInv, StillToCome
    <3>5. QED
      BY <2>1, <3>2, <3>3, <3>4 DEF ListInv, StillToCome
  <2>7. CASE Leave
    BY <2>7 DEF Leave, Idle, ListInv
  <2>8. QED
    BY <1>3, <2>2, <2>3, <2>4, <2>5, <2>6, <2>7, ReadStep DEF ListInv, ListBills
<1>4. QED
  BY <1>2, <1>3, ReadStep

LEMMA ReadInvariance == ReadSpec => []ReadInv
<1>1. ReadInit => ReadInv
  BY InitInv DEF ReadInit, ReadInv, ReadTypeOK, GetInv, ListInv, Idle, IInv
<1>2. ReadInv /\ [ReadNext]_readVars => ReadInv'
  <2> SUFFICES ASSUME ReadInv, [ReadNext]_readVars
               PROVE  ReadInv'
    OBVIOUS
  <2>1. IInv'
    BY ReadStep, InvStep DEF ReadInv
  <2>2. QED
    BY <2>1, ReadTypeStep, GetInvStep, ListInvStep DEF ReadInv
<1>3. QED
  BY <1>1, <1>2, PTL DEF ReadSpec

-----------------------------------------------------------------------------
(* Rows, stamps and answers keep their types: a page is never asked for with  *)
(* a limit the handler should have replaced.                                  *)
THEOREM ReadTypeCorrect == ReadSpec => []ReadTypeOK
<1>1. ReadInv => ReadTypeOK
  BY DEF ReadInv
<1>2. QED
  BY <1>1, ReadInvariance, PTL

(* GetBill never shows a total that counts an item it does not show.          *)
THEOREM ReadTotalCoveredCorrect == ReadSpec => []ReadTotalCovered
<1>1. ReadInv => ReadTotalCovered
  BY DEF ReadInv, GetInv, ReadTotalCovered
<1>2. QED
  BY <1>1, ReadInvariance, PTL

(* A bill that GetBill shows closed is shown with exactly the items its total *)
(* sums.                                                                      *)
THEOREM ReadClosedIsExactCorrect == ReadSpec => []ReadClosedIsExact
<1>1. ReadInv => ReadClosedIsExact
  BY DEF ReadInv, GetInv, ReadClosedIsExact
<1>2. QED
  BY <1>1, ReadInvariance, PTL

(* A client that goes through all pages meets every bill that was there when  *)
(* it began and shares its created_at with no other.                          *)
THEOREM PagesMissNothingCorrect == ReadSpec => []PagesMissNothing
<1>1. ReadInv => PagesMissNothing
  BY DEF ReadInv, ListInv, StillToCome, Twin, PagesMissNothing
<1>2. QED
  BY <1>1, ReadInvariance, PTL

-----------------------------------------------------------------------------
(* Reading leaves the rows to the transactions: with readers the bills live   *)
(* the same life, and what a reader meets at any moment is a bill whose total *)
(* is final once it is closed and never loses an item.                        *)
THEOREM ReadersDoNotDisturb ==
  ReadSpec => /\ Spec
              /\ []ClosedTotalIsFinal /\ []ItemsNeedStart
              /\ ClosedIsTerminal /\ TotalsGrow
<1>1. ReadInit => Init
  BY DEF ReadInit
<1>2. [ReadNext]_readVars => [Next]_vars
  BY ReadStep
<1>3. ReadSpec => Spec
  BY <1>1, <1>2, PTL DEF ReadSpec, Spec
<1>4. QED
  BY <1>3, ClosedTotalCorrect, ItemsNeedStartCorrect, ClosedIsTerminalCorrect,
     TotalsGrowCorrect, PTL
=============================================================================
