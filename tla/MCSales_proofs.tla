------------------------------ MODULE MCSales_proofs ------------------------------
(***************************************************************************)
(* Theorems about the flash sale, in memory and over rows, for every set   *)
(* of skus and buyers, every stock and every number of attempts.           *)
(***************************************************************************)
EXTENDS MCSales, FiniteSetTheorems, TLAPS

--------------------------------------------------------------------------------
(* Counting.                                                               *)
LEMMA AddOne ==
  ASSUME NEW S, NEW x, IsFiniteSet(S), x \notin S
  PROVE  /\ Cardinality(S) \in Nat
         /\ Cardinality(S \cup {x}) = Cardinality(S) + 1
  BY FS_AddElement, FS_CardinalityType

LEMMA DropOne ==
  ASSUME NEW S, NEW x \in S, IsFiniteSet(S)
  PROVE  /\ Cardinality(S) \in Nat
         /\ Cardinality(S \ {x}) = Cardinality(S) - 1
  BY FS_RemoveElement, FS_CardinalityType

\* What has no members counts nothing.
LEMMA NoneCounted == \A S : (\A x : x \notin S) => Cardinality(S) = 0
<1> SUFFICES ASSUME NEW S, \A x : x \notin S PROVE Cardinality(S) = 0
  OBVIOUS
<1>1. S = {}
  BY SMT
<1> QED
  BY <1>1, FS_EmptySet, Zenon

--------------------------------------------------------------------------------
(* In memory.  A unit sold raises the version, so version and stock add up *)
(* to what the sku was created with, and an object that is not created yet *)
(* has neither.  An attempt that fails saw a version that was passed, so   *)
(* from the version that a purchase saw first the object's grows by one at *)
(* least with each of its attempts.                                        *)
ObjectsSound ==
  \A o \in Skus :
    /\ version[o] + stock[o] = offered[o]
    /\ offered[o] <= MaxStock
    /\ skuId[o] = Null => version[o] = 0 /\ stock[o] = 0

IndexSound == \A i \in SkuIds : sku[i] # Null => skuId[sku[i]] = i

PurchasesSound ==
  \A t \in Threads :
    /\ pc[t] = "idle" => attempts[t] = 0 /\ begun[t] = 0
    /\ pc[t] # "idle" => cur[t] \in Skus /\ skuId[cur[t]] # Null
    /\ pc[t] = "read" => begun[t] + attempts[t] <= version[cur[t]]
    /\ pc[t] = "take" => begun[t] + attempts[t] <= seen[t] /\ seen[t] <= version[cur[t]]

MemoryInv == TypeOK /\ ObjectsSound /\ IndexSound /\ PurchasesSound

LEMMA MemoryInit == Init => MemoryInv
  BY FlashSaleAssumption
  DEF Init, MemoryInv, TypeOK, ObjectsSound, IndexSound, PurchasesSound

LEMMA CreateSkuSound ==
  ASSUME MemoryInv, NEW i \in SkuIds, NEW o \in Skus, NEW n \in Stocks, CreateSku(i, o, n)
  PROVE  MemoryInv'
<1> USE FlashSaleAssumption DEF MemoryInv, TypeOK, CreateSku
<1>1. TypeOK'
  OBVIOUS
<1>2. ObjectsSound'
  BY DEF ObjectsSound
<1>3. IndexSound'
  BY DEF IndexSound
<1>4. PurchasesSound'
  BY DEF PurchasesSound
<1> QED
  BY <1>1, <1>2, <1>3, <1>4

LEMMA TakeUnitSound ==
  ASSUME MemoryInv, NEW t \in Threads, TakeUnit(t)
  PROVE  MemoryInv'
<1> USE FlashSaleAssumption DEF MemoryInv, TypeOK, TakeUnit, Go
<1>1. cur[t] \in Skus /\ stock[cur[t]] \in Nat /\ stock[cur[t]] > 0 /\ version[cur[t]] \in Nat
  BY DEF PurchasesSound
<1>2. TypeOK'
  BY <1>1
<1>3. ObjectsSound'
  <2> SUFFICES ASSUME NEW o \in Skus
               PROVE  /\ version'[o] + stock'[o] = offered'[o] /\ offered'[o] <= MaxStock
                      /\ skuId'[o] = Null => version'[o] = 0 /\ stock'[o] = 0
    BY DEF ObjectsSound
  <2>1. CASE o = cur[t]
    <3>1. skuId[o] # Null /\ version[o] + stock[o] = offered[o] /\ offered[o] <= MaxStock
      BY <2>1 DEF ObjectsSound, PurchasesSound
    <3>2. version'[o] = version[o] + 1 /\ stock'[o] = stock[o] - 1
      BY <1>1, <2>1
    <3>3. (version[o] + 1) + (stock[o] - 1) = offered[o]
      <4> HIDE DEF MemoryInv, TypeOK, TakeUnit
      <4> QED
        BY <1>1, <2>1, <3>1
    <3> QED
      BY <3>1, <3>2, <3>3
  <2>2. CASE o # cur[t]
    BY <2>2 DEF ObjectsSound
  <2> QED
    BY <2>1, <2>2
<1>4. IndexSound'
  BY DEF IndexSound
<1>5. PurchasesSound'
  BY <1>1 DEF PurchasesSound
<1> QED
  BY <1>2, <1>3, <1>4, <1>5

\* The steps that change no object.
LEMMA LookSound ==
  ASSUME MemoryInv, NEW t \in Threads,
         \/ \E i \in SkuIds : PurchaseSku(t, i)
         \/ ReadVersion(t) \/ SoldOut(t) \/ Retry(t) \/ GiveUp(t) \/ Record(t)
  PROVE  MemoryInv'
<1> USE FlashSaleAssumption DEF MemoryInv, TypeOK, Go, Finish
<1>1. ASSUME NEW i \in SkuIds, PurchaseSku(t, i) PROVE MemoryInv'
  BY <1>1 DEF PurchaseSku, ObjectsSound, IndexSound, PurchasesSound
<1>2. CASE ReadVersion(t)
  BY <1>2 DEF ReadVersion, ObjectsSound, IndexSound, PurchasesSound
<1>3. CASE SoldOut(t)
  BY <1>3 DEF SoldOut, ObjectsSound, IndexSound, PurchasesSound
<1>4. CASE Retry(t)
  <2>1. /\ attempts[t] \in Nat /\ begun[t] \in Nat /\ seen[t] \in Nat /\ version[cur[t]] \in Nat
        /\ seen[t] <= version[cur[t]] /\ seen[t] # version[cur[t]] /\ begun[t] + attempts[t] <= seen[t]
    BY <1>4 DEF Retry, SameVersion, PurchasesSound
  <2>2. begun[t] + attempts[t] + 1 <= version[cur[t]]
    BY <2>1
  <2> QED
    BY <1>4, <2>2 DEF Retry, ObjectsSound, IndexSound, PurchasesSound
<1>5. CASE GiveUp(t)
  BY <1>5 DEF GiveUp, ObjectsSound, IndexSound, PurchasesSound
<1>6. CASE Record(t)
  <2>1. skuId[cur[t]] \in SkuIds
    BY <1>6 DEF Record, PurchasesSound
  <2> QED
    BY <1>6, <2>1 DEF Record, ObjectsSound, IndexSound, PurchasesSound
<1> QED
  BY <1>1, <1>2, <1>3, <1>4, <1>5, <1>6

LEMMA MemoryStep == MemoryInv /\ [Next]_flashVars => MemoryInv'
<1> SUFFICES ASSUME MemoryInv, [Next]_flashVars PROVE MemoryInv'
  OBVIOUS
<1>1. CASE UNCHANGED flashVars
  BY <1>1 DEF flashVars, MemoryInv, TypeOK, ObjectsSound, IndexSound, PurchasesSound
<1> QED
  BY <1>1, CreateSkuSound, TakeUnitSound, LookSound DEF Next, Purchase

--------------------------------------------------------------------------------
(* The records of the sales.  A unit sold is the pair of its object and    *)
(* the version it made, and whoever sold it is about to record it.         *)
Recording(i) == {t \in Threads : pc[t] = "record" /\ skuId[cur[t]] = i}

LEMMA UnitsFinite ==
  ASSUME NEW i PROVE IsFiniteSet(UnitsSold(i)) /\ IsFiniteSet(Recording(i))
<1>1. IsFiniteSet(1 .. MaxStock)
  BY FS_Interval, FlashSaleAssumption
<1>2. IsFiniteSet(Skus \X (1 .. MaxStock))
  BY <1>1, FS_Product, CountsAssumption
<1>3. UnitsSold(i) \subseteq Skus \X (1 .. MaxStock) /\ Recording(i) \subseteq Threads
  BY DEF UnitsSold, Recording
<1> QED
  BY <1>2, <1>3, FS_Subset, CountsAssumption

LEMMA RecordsMeaning ==
  SalesRecorded <=>
    \A i \in SkuIds : purchases[i] + Cardinality(Recording(i)) = Cardinality(UnitsSold(i))
  BY DEF SalesRecorded, Recording

LEMMA RecordsInit == Init => SalesRecorded
<1> SUFFICES ASSUME Init, NEW i \in SkuIds
             PROVE  purchases[i] + Cardinality(Recording(i)) = Cardinality(UnitsSold(i))
  BY RecordsMeaning
<1>1. \A x : x \notin Recording(i)
  BY DEF Init, Recording
<1>2. \A x : x \notin UnitsSold(i)
  BY DEF Init, UnitsSold
<1>3. Cardinality(Recording(i)) = 0 /\ Cardinality(UnitsSold(i)) = 0
  BY <1>1, <1>2, NoneCounted
<1> QED
  BY <1>3 DEF Init

LEMMA TakeUnitRecords ==
  ASSUME MemoryInv, SalesRecorded, NEW t \in Threads, TakeUnit(t)
  PROVE  SalesRecorded'
<1> USE FlashSaleAssumption DEF MemoryInv, TypeOK, TakeUnit, Go
<1> DEFINE o == cur[t]
           u == <<o, version[o] + 1>>
<1>1. o \in Skus /\ stock[o] \in Nat /\ stock[o] > 0 /\ version[o] \in Nat /\ version[o] + stock[o] <= MaxStock
  BY DEF PurchasesSound, ObjectsSound
<1>2. version[o] + 1 \in 1 .. MaxStock
  <2> HIDE DEF o, MemoryInv, TakeUnit
  <2> QED
    BY <1>1
<1> SUFFICES ASSUME NEW i \in SkuIds
             PROVE  purchases'[i] + Cardinality(Recording(i)') = Cardinality(UnitsSold(i)')
  BY DEF SalesRecorded, Recording
<1>3. purchases'[i] = purchases[i] /\ purchases[i] \in Nat
  OBVIOUS
<1>4. purchases[i] + Cardinality(Recording(i)) = Cardinality(UnitsSold(i))
  BY RecordsMeaning
<1>5. CASE skuId[o] = i
  <2>1. Recording(i)' = Recording(i) \cup {t} /\ t \notin Recording(i)
    BY <1>5 DEF Recording
  <2>2. UnitsSold(i)' = UnitsSold(i) \cup {u} /\ u \notin UnitsSold(i)
    <3>1. u \in Skus \X (1 .. MaxStock)
      BY <1>1, <1>2
    <3>2. u \notin UnitsSold(i)
      BY <1>1 DEF UnitsSold
    <3>3. ASSUME NEW k \in Skus \X (1 .. MaxStock)
          PROVE  k \in UnitsSold(i)' <=> k \in UnitsSold(i) \/ k = u
      <4>1. k[1] \in Skus /\ k[2] \in Nat /\ k = <<k[1], k[2]>>
        OBVIOUS
      <4>2. CASE k[1] = o
        <5>1. version'[k[1]] = version[o] + 1
          BY <1>1, <4>2
        <5>2. k[2] <= version[o] + 1 <=> k[2] <= version[o] \/ k[2] = version[o] + 1
          BY <1>1, <4>1
        <5>3. k = u <=> k[2] = version[o] + 1
          BY <4>1, <4>2
        <5> QED
          BY <1>5, <4>2, <5>1, <5>2, <5>3 DEF UnitsSold
      <4>3. CASE k[1] # o
        BY <1>1, <4>1, <4>3 DEF UnitsSold
      <4> QED
        BY <4>2, <4>3
    <3>4. UnitsSold(i) \subseteq Skus \X (1 .. MaxStock) /\ UnitsSold(i)' \subseteq Skus \X (1 .. MaxStock)
      BY DEF UnitsSold
    <3> HIDE DEF u
    <3> QED
      BY <3>1, <3>2, <3>3, <3>4
  <2>3. /\ Cardinality(Recording(i)) \in Nat /\ Cardinality(UnitsSold(i)) \in Nat
        /\ Cardinality(Recording(i)') = Cardinality(Recording(i)) + 1
        /\ Cardinality(UnitsSold(i)') = Cardinality(UnitsSold(i)) + 1
    <3> HIDE DEF u
    <3> QED
      BY <2>1, <2>2, UnitsFinite, AddOne
  <2> HIDE DEF MemoryInv, TakeUnit
  <2> QED
    BY <1>3, <1>4, <2>3
<1>6. CASE skuId[o] # i
  <2>1. Recording(i)' = Recording(i)
    BY <1>6 DEF Recording
  <2>2. UnitsSold(i)' = UnitsSold(i)
    BY <1>1, <1>6 DEF UnitsSold
  <2> QED
    BY <1>3, <1>4, <2>1, <2>2
<1> QED
  BY <1>5, <1>6

LEMMA RecordRecords ==
  ASSUME MemoryInv, SalesRecorded, NEW t \in Threads, Record(t)
  PROVE  SalesRecorded'
<1> USE FlashSaleAssumption DEF MemoryInv, TypeOK, Record, Finish, Go
<1>1. cur[t] \in Skus /\ skuId[cur[t]] \in SkuIds
  BY DEF PurchasesSound
<1> SUFFICES ASSUME NEW i \in SkuIds
             PROVE  purchases'[i] + Cardinality(Recording(i)') = Cardinality(UnitsSold(i)')
  BY DEF SalesRecorded, Recording
<1>2. purchases[i] \in Nat /\ UnitsSold(i)' = UnitsSold(i)
  BY DEF UnitsSold
<1>3. purchases[i] + Cardinality(Recording(i)) = Cardinality(UnitsSold(i))
  BY RecordsMeaning
<1>4. CASE skuId[cur[t]] = i
  <2>1. Recording(i)' = Recording(i) \ {t} /\ t \in Recording(i)
    BY <1>4 DEF Recording
  <2>2. purchases'[i] = purchases[i] + 1
    BY <1>1, <1>4
  <2>3. /\ Cardinality(Recording(i)) \in Nat
        /\ Cardinality(Recording(i)') = Cardinality(Recording(i)) - 1
    BY <2>1, UnitsFinite, DropOne
  <2> HIDE DEF MemoryInv, Record
  <2> QED
    BY <1>2, <1>3, <2>2, <2>3
<1>5. CASE skuId[cur[t]] # i
  <2>1. Recording(i)' = Recording(i)
    BY <1>5 DEF Recording
  <2>2. purchases'[i] = purchases[i]
    BY <1>1, <1>5
  <2> QED
    BY <1>2, <1>3, <2>1, <2>2
<1> QED
  BY <1>4, <1>5

\* The steps that sell nothing and record nothing.
LEMMA OtherRecords ==
  ASSUME MemoryInv, SalesRecorded,
         \/ \E i \in SkuIds, o \in Skus, n \in Stocks : CreateSku(i, o, n)
         \/ \E t \in Threads :
              \/ \E i \in SkuIds : PurchaseSku(t, i)
              \/ ReadVersion(t) \/ SoldOut(t) \/ Retry(t) \/ GiveUp(t)
         \/ UNCHANGED flashVars
  PROVE  SalesRecorded'
<1> USE FlashSaleAssumption DEF MemoryInv, TypeOK, Finish, Go
<1> DEFINE Same == /\ purchases' = purchases
                   /\ \A i \in SkuIds : Recording(i)' = Recording(i) /\ UnitsSold(i)' = UnitsSold(i)
<1>1. ASSUME NEW j \in SkuIds, NEW o \in Skus, NEW n \in Stocks, CreateSku(j, o, n)
      PROVE  Same
  <2>1. ASSUME NEW i \in SkuIds PROVE UnitsSold(i)' = UnitsSold(i)
    <3>1. ASSUME NEW k \in Skus \X (1 .. MaxStock) PROVE k \in UnitsSold(i)' <=> k \in UnitsSold(i)
      <4>1. k[1] \in Skus /\ k[2] \in 1 .. MaxStock /\ version' = version /\ version[o] = 0
        BY <1>1 DEF CreateSku, ObjectsSound
      <4> QED
        BY <1>1, <4>1 DEF CreateSku, UnitsSold
    <3> QED
      BY <3>1 DEF UnitsSold
  <2>2. ASSUME NEW i \in SkuIds PROVE Recording(i)' = Recording(i)
    BY <1>1 DEF CreateSku, Recording, PurchasesSound
  <2> QED
    BY <1>1, <2>1, <2>2 DEF CreateSku
<1>2. ASSUME NEW t \in Threads, NEW j \in SkuIds, PurchaseSku(t, j) PROVE Same
  BY <1>2 DEF PurchaseSku, Recording, UnitsSold
<1>3. ASSUME NEW t \in Threads, ReadVersion(t) PROVE Same
  BY <1>3 DEF ReadVersion, Recording, UnitsSold
<1>4. ASSUME NEW t \in Threads, SoldOut(t) PROVE Same
  BY <1>4 DEF SoldOut, Recording, UnitsSold
<1>5. ASSUME NEW t \in Threads, Retry(t) PROVE Same
  BY <1>5 DEF Retry, Recording, UnitsSold
<1>6. ASSUME NEW t \in Threads, GiveUp(t) PROVE Same
  BY <1>6 DEF GiveUp, Recording, UnitsSold
<1>7. ASSUME UNCHANGED flashVars PROVE Same
  BY <1>7 DEF flashVars, Recording, UnitsSold
<1>8. Same
  <2> HIDE DEF Same, MemoryInv, TypeOK
  <2> QED
    BY <1>1, <1>2, <1>3, <1>4, <1>5, <1>6, <1>7
<1> SUFFICES ASSUME NEW i \in SkuIds
             PROVE  purchases'[i] + Cardinality(Recording(i)') = Cardinality(UnitsSold(i)')
  BY DEF SalesRecorded, Recording
<1>9. purchases[i] + Cardinality(Recording(i)) = Cardinality(UnitsSold(i))
  BY RecordsMeaning
<1> QED
  BY <1>8, <1>9

LEMMA RecordsStep == MemoryInv /\ SalesRecorded /\ [Next]_flashVars => SalesRecorded'
<1> SUFFICES ASSUME MemoryInv, SalesRecorded, [Next]_flashVars PROVE SalesRecorded'
  OBVIOUS
<1> QED
  BY TakeUnitRecords, RecordRecords, OtherRecords DEF Next, Purchase

--------------------------------------------------------------------------------
\* Every step in memory is a new offer, a sale of one unit, or invisible.
LEMMA MemoryStepIsSale ==
  ASSUME MemoryInv, [Next]_flashVars
  PROVE  [Abstract!SaleNext]_(Abstract!saleVars)
<1> USE FlashSaleAssumption DEF MemoryInv, TypeOK
<1> DEFINE Opened == {o \in Skus : skuId[o] # Null}
<1>1. ASSUME NEW i \in SkuIds, NEW o \in Skus, NEW n \in Stocks, CreateSku(i, o, n)
      PROVE  Abstract!Open(o)
  <2>1. o \notin Opened /\ Opened' = Opened \cup {o}
    BY <1>1 DEF CreateSku
  <2>2. stock'[o] = n /\ n \in Nat /\ stock' = [stock EXCEPT ![o] = stock'[o]] /\ version' = version
    BY <1>1 DEF CreateSku
  <2> QED
    BY <2>1, <2>2 DEF Abstract!Open
<1>2. ASSUME NEW t \in Threads, TakeUnit(t)
      PROVE  Abstract!Sell(cur[t]) /\ cur[t] \in Skus
  <2>1. cur[t] \in Skus /\ cur[t] \in Opened
    BY <1>2 DEF TakeUnit, PurchasesSound
  <2> QED
    BY <1>2, <2>1 DEF TakeUnit, Abstract!Sell
<1>3. ASSUME NEW t \in Threads,
             \/ \E i \in SkuIds : PurchaseSku(t, i)
             \/ ReadVersion(t) \/ SoldOut(t) \/ Retry(t) \/ GiveUp(t) \/ Record(t)
      PROVE  UNCHANGED Abstract!saleVars
  BY <1>3 DEF PurchaseSku, ReadVersion, SoldOut, Retry, GiveUp, Record, Abstract!saleVars
<1>4. CASE UNCHANGED flashVars
  BY <1>4 DEF flashVars, Abstract!saleVars
<1> QED
  BY <1>1, <1>2, <1>3, <1>4 DEF Next, Purchase, Abstract!SaleNext

LEMMA MemoryStartsAsSale == Init => Abstract!SaleInit
<1> SUFFICES ASSUME Init PROVE Abstract!SaleInit
  OBVIOUS
<1>1. \A o \in Skus : skuId[o] = Null
  BY DEF Init
<1>2. {o \in Skus : skuId[o] # Null} = {}
  BY <1>1
<1> QED
  BY <1>2 DEF Init, Abstract!SaleInit

\* A purchase gives up after RETRIES conflicts, each a unit sold to another since the
\* version it read first; and nothing is left of an object just when all that it was
\* created with is sold.
LEMMA RefusalsHaveReasons ==
  ASSUME MemoryInv, NEW t \in Threads
  PROVE  /\ GiveUp(t) => version[cur[t]] - begun[t] >= RETRIES
         /\ SoldOut(t) => version[cur[t]] = offered[cur[t]]
<1> USE FlashSaleAssumption DEF MemoryInv, TypeOK
<1>1. ASSUME GiveUp(t) PROVE version[cur[t]] - begun[t] >= RETRIES
  <2>1. /\ attempts[t] \in Nat /\ begun[t] \in Nat /\ seen[t] \in Nat /\ version[cur[t]] \in Nat
        /\ seen[t] <= version[cur[t]] /\ seen[t] # version[cur[t]] /\ begun[t] + attempts[t] <= seen[t]
        /\ attempts[t] + 1 = RETRIES
    BY <1>1 DEF GiveUp, SameVersion, PurchasesSound
  <2> HIDE DEF MemoryInv, TypeOK
  <2> QED
    BY <2>1
<1>2. ASSUME SoldOut(t) PROVE version[cur[t]] = offered[cur[t]]
  <2>1. /\ cur[t] \in Skus /\ version[cur[t]] \in Nat /\ stock[cur[t]] = 0
        /\ version[cur[t]] + stock[cur[t]] = offered[cur[t]]
    BY <1>2 DEF SoldOut, PurchasesSound, ObjectsSound
  <2> HIDE DEF MemoryInv, TypeOK
  <2> QED
    BY <2>1
<1> QED
  BY <1>1, <1>2

--------------------------------------------------------------------------------
(* Over rows.  The commit writes a version computed from what the          *)
(* connection selected, and takes a unit without looking.  Both are right  *)
(* because a version is never reused: while the row has the version that   *)
(* was selected it has the stock that was selected.                        *)

\* A purchase under way is of a row that exists; the version it selected is in the past,
\* or still the row's and then the row still has a unit.
SelectionsHold ==
  \A t \in Threads : rowPc[t] # "idle" =>
    /\ rowCur[t] \in exists
    /\ rowSeen[t] <= rowVersion[rowCur[t]]
    /\ rowSeen[t] = rowVersion[rowCur[t]] => rowStock[rowCur[t]] > 0

RowsInv == Rows!TypeOK /\ SelectionsHold /\ Rows!LockIsHeld /\ Rows!VersionCountsPurchases

LEMMA RowsInit == Rows!Init => RowsInv
  BY ConnectionAssumption DEF Rows!Init, RowsInv, Rows!TypeOK, SelectionsHold, Rows!LockIsHeld, Rows!VersionCountsPurchases

LEMMA RowTypesKept ==
  ASSUME RowsInv, [Rows!Next]_(Rows!rowVars)
  PROVE  Rows!TypeOK'
<1> USE FlashSaleAssumption, ConnectionAssumption DEF RowsInv, Rows!TypeOK
<1>1. ASSUME NEW s \in RowSkus, NEW n \in 0 .. MaxStock, Rows!CreateSku(s, n) PROVE Rows!TypeOK'
  BY <1>1, FlashSaleAssumption DEF Rows!CreateSku
<1>2. ASSUME NEW t \in Threads, NEW s \in RowSkus, Rows!SelectSku(t, s) PROVE Rows!TypeOK'
  BY <1>2 DEF Rows!SelectSku
<1>3. ASSUME NEW t \in Threads, Rows!UpdateSku(t) PROVE Rows!TypeOK'
  BY <1>3 DEF Rows!UpdateSku
<1>4. ASSUME NEW t \in Threads, Rows!Conflict(t) PROVE Rows!TypeOK'
  BY <1>4 DEF Rows!Conflict, Rows!Finish
<1>5. ASSUME NEW t \in Threads, Rows!InsertPurchase(t) PROVE Rows!TypeOK'
  <2>1. rowCur[t] \in RowSkus /\ rowVersion[rowCur[t]] = rowSeen[t] /\ rowStock[rowCur[t]] \in Nat \ {0}
    BY <1>5 DEF Rows!InsertPurchase, SelectionsHold, Rows!LockIsHeld
  <2>2. rowStock' \in [RowSkus -> Nat]
    BY <1>5, <2>1 DEF Rows!InsertPurchase
  <2>3. rowVersion' \in [RowSkus -> Nat] /\ rowPurchases' \in [RowSkus -> Nat]
    BY <1>5, <2>1 DEF Rows!InsertPurchase
  <2> QED
    BY <1>5, <2>2, <2>3 DEF Rows!InsertPurchase, Rows!Finish
<1>6. ASSUME NEW t \in Threads, Rows!LoseConnection(t) PROVE Rows!TypeOK'
  BY <1>6 DEF Rows!LoseConnection, Rows!Finish
<1>7. CASE UNCHANGED Rows!rowVars
  BY <1>7 DEF Rows!rowVars
<1> QED
  BY <1>1, <1>2, <1>3, <1>4, <1>5, <1>6, <1>7 DEF Rows!Next, Rows!PurchaseSku

\* The row a connection has updated is the row of its purchase, at the version it selected.
LEMMA LocksKept ==
  ASSUME RowsInv, [Rows!Next]_(Rows!rowVars)
  PROVE  Rows!LockIsHeld'
<1> USE FlashSaleAssumption, ConnectionAssumption DEF RowsInv, Rows!TypeOK
<1>1. ASSUME NEW s \in RowSkus, NEW n \in 0 .. MaxStock, Rows!CreateSku(s, n) PROVE Rows!LockIsHeld'
  BY <1>1 DEF Rows!CreateSku, Rows!LockIsHeld
<1>2. ASSUME NEW t \in Threads, NEW s \in RowSkus, Rows!SelectSku(t, s) PROVE Rows!LockIsHeld'
  BY <1>2 DEF Rows!SelectSku, Rows!LockIsHeld
<1>3. ASSUME NEW t \in Threads, Rows!UpdateSku(t) PROVE Rows!LockIsHeld'
  BY <1>3 DEF Rows!UpdateSku, Rows!LockIsHeld
<1>4. ASSUME NEW t \in Threads, Rows!Conflict(t) PROVE Rows!LockIsHeld'
  BY <1>4 DEF Rows!Conflict, Rows!Finish, Rows!LockIsHeld
<1>5. ASSUME NEW t \in Threads, Rows!InsertPurchase(t) PROVE Rows!LockIsHeld'
  <2>1. rowLock[rowCur[t]] = t /\ rowCur[t] \in RowSkus
    BY <1>5 DEF Rows!InsertPurchase, SelectionsHold, Rows!LockIsHeld
  <2> SUFFICES ASSUME NEW s \in RowSkus, NEW u \in Threads
               PROVE  /\ rowLock'[s] = u <=> rowPc'[u] = "insert" /\ rowCur'[u] = s
                      /\ rowLock'[s] = u => rowVersion'[s] = rowSeen'[u]
    BY DEF Rows!LockIsHeld
  <2>2. CASE u = t
    <3>1. rowPc'[u] = "idle"
      BY <1>5, <2>2 DEF Rows!InsertPurchase, Rows!Finish
    <3>2. rowLock'[s] # u
      BY <1>5, <2>1, <2>2 DEF Rows!InsertPurchase, Rows!LockIsHeld
    <3> QED
      BY <3>1, <3>2
  <2>3. CASE u # t
    <3>1. rowPc'[u] = rowPc[u] /\ rowCur'[u] = rowCur[u] /\ rowSeen'[u] = rowSeen[u]
      BY <1>5, <2>3 DEF Rows!InsertPurchase, Rows!Finish
    <3>2. CASE s = rowCur[t]
      BY <1>5, <2>1, <2>3, <3>1, <3>2 DEF Rows!InsertPurchase, Rows!LockIsHeld
    <3>3. CASE s # rowCur[t]
      BY <1>5, <2>1, <3>1, <3>3 DEF Rows!InsertPurchase, Rows!LockIsHeld
    <3> QED
      BY <3>2, <3>3
  <2> QED
    BY <2>2, <2>3
<1>6. ASSUME NEW t \in Threads, Rows!LoseConnection(t) PROVE Rows!LockIsHeld'
  BY <1>6 DEF Rows!LoseConnection, Rows!Finish, Rows!LockIsHeld
<1>7. CASE UNCHANGED Rows!rowVars
  BY <1>7 DEF Rows!rowVars, Rows!LockIsHeld
<1> QED
  BY <1>1, <1>2, <1>3, <1>4, <1>5, <1>6, <1>7 DEF Rows!Next, Rows!PurchaseSku

\* Stock changes only together with the version, which grows.
LEMMA SelectionsKept ==
  ASSUME RowsInv, [Rows!Next]_(Rows!rowVars)
  PROVE  SelectionsHold' /\ Rows!VersionCountsPurchases'
<1> USE FlashSaleAssumption, ConnectionAssumption DEF RowsInv, Rows!TypeOK
<1> DEFINE Goal == SelectionsHold' /\ Rows!VersionCountsPurchases'
<1>1. ASSUME NEW s \in RowSkus, NEW n \in 0 .. MaxStock, Rows!CreateSku(s, n) PROVE Goal
  BY <1>1 DEF Rows!CreateSku, SelectionsHold, Rows!VersionCountsPurchases
<1>2. ASSUME NEW t \in Threads, NEW s \in RowSkus, Rows!SelectSku(t, s) PROVE Goal
  BY <1>2 DEF Rows!SelectSku, SelectionsHold, Rows!VersionCountsPurchases
<1>3. ASSUME NEW t \in Threads, Rows!UpdateSku(t) PROVE Goal
  BY <1>3 DEF Rows!UpdateSku, SelectionsHold, Rows!VersionCountsPurchases
<1>4. ASSUME NEW t \in Threads, Rows!Conflict(t) PROVE Goal
  BY <1>4 DEF Rows!Conflict, Rows!Finish, SelectionsHold, Rows!VersionCountsPurchases
<1>5. ASSUME NEW t \in Threads, Rows!InsertPurchase(t) PROVE Goal
  <2>1. rowCur[t] \in RowSkus /\ rowVersion[rowCur[t]] = rowSeen[t]
    BY <1>5 DEF Rows!InsertPurchase, SelectionsHold, Rows!LockIsHeld
  <2>2. Rows!VersionCountsPurchases'
    BY <1>5, <2>1 DEF Rows!InsertPurchase, Rows!VersionCountsPurchases
  <2>3. ASSUME NEW u \in Threads, rowPc'[u] # "idle"
        PROVE  /\ rowCur'[u] \in exists'
               /\ rowSeen'[u] <= rowVersion'[rowCur'[u]]
               /\ rowSeen'[u] = rowVersion'[rowCur'[u]] => rowStock'[rowCur'[u]] > 0
    <3>1. u # t /\ rowPc'[u] = rowPc[u] /\ rowCur'[u] = rowCur[u] /\ rowSeen'[u] = rowSeen[u] /\ exists' = exists
      BY <1>5, <2>3 DEF Rows!InsertPurchase, Rows!Finish
    <3>2. rowCur[u] \in RowSkus /\ rowSeen[u] <= rowVersion[rowCur[u]]
      BY <2>3, <3>1 DEF SelectionsHold
    <3>3. CASE rowCur[u] = rowCur[t]
      BY <1>5, <2>1, <2>3, <3>1, <3>2, <3>3 DEF Rows!InsertPurchase, SelectionsHold
    <3>4. CASE rowCur[u] # rowCur[t]
      BY <1>5, <2>1, <2>3, <3>1, <3>2, <3>4 DEF Rows!InsertPurchase, SelectionsHold
    <3> QED
      BY <3>3, <3>4
  <2> QED
    BY <2>2, <2>3 DEF SelectionsHold
<1>6. ASSUME NEW t \in Threads, Rows!LoseConnection(t) PROVE Goal
  BY <1>6 DEF Rows!LoseConnection, Rows!Finish, SelectionsHold, Rows!VersionCountsPurchases
<1>7. CASE UNCHANGED Rows!rowVars
  BY <1>7 DEF Rows!rowVars, SelectionsHold, Rows!VersionCountsPurchases
<1> QED
  BY <1>1, <1>2, <1>3, <1>4, <1>5, <1>6, <1>7 DEF Rows!Next, Rows!PurchaseSku

LEMMA RowsStep == RowsInv /\ [Rows!Next]_(Rows!rowVars) => RowsInv'
  BY RowTypesKept, LocksKept, SelectionsKept DEF RowsInv

\* Every statement of every transaction is a sale of one unit or invisible.
LEMMA RowStepIsSale ==
  ASSUME RowsInv, [Rows!Next]_(Rows!rowVars)
  PROVE  [Rows!Abstract!SaleNext]_(Rows!Abstract!saleVars)
<1> USE FlashSaleAssumption, ConnectionAssumption DEF RowsInv, Rows!TypeOK
<1>1. ASSUME NEW s \in RowSkus, NEW n \in 0 .. MaxStock, Rows!CreateSku(s, n)
      PROVE  Rows!Abstract!Open(s)
  BY <1>1 DEF Rows!CreateSku, Rows!Abstract!Open
<1>2. ASSUME NEW t \in Threads, Rows!InsertPurchase(t)
      PROVE  Rows!Abstract!Sell(rowCur[t]) /\ rowCur[t] \in RowSkus
  <2>1. rowCur[t] \in RowSkus /\ rowCur[t] \in exists /\ rowStock[rowCur[t]] > 0
    BY <1>2 DEF Rows!InsertPurchase, SelectionsHold, Rows!LockIsHeld
  <2> QED
    BY <1>2, <2>1 DEF Rows!InsertPurchase, Rows!Abstract!Sell
<1>3. ASSUME NEW t \in Threads, NEW s \in RowSkus, Rows!SelectSku(t, s)
      PROVE  UNCHANGED Rows!Abstract!saleVars
  BY <1>3 DEF Rows!SelectSku, Rows!Abstract!saleVars
<1>4. ASSUME NEW t \in Threads, Rows!UpdateSku(t) \/ Rows!Conflict(t) \/ Rows!LoseConnection(t)
      PROVE  UNCHANGED Rows!Abstract!saleVars
  BY <1>4 DEF Rows!UpdateSku, Rows!Conflict, Rows!LoseConnection, Rows!Abstract!saleVars
<1>5. CASE UNCHANGED Rows!rowVars
  BY <1>5 DEF Rows!rowVars, Rows!Abstract!saleVars
<1> QED
  BY <1>1, <1>2, <1>3, <1>4, <1>5 DEF Rows!Next, Rows!PurchaseSku, Rows!Abstract!SaleNext

LEMMA RowsStartAsSale == Rows!Init => Rows!Abstract!SaleInit
  BY DEF Rows!Init, Rows!Abstract!SaleInit

--------------------------------------------------------------------------------
(* Both together.                                                          *)
SalesInv == MemoryInv /\ SalesRecorded /\ RowsInv

salesVars == <<subject, flashVars, mcRowVars>>

LEMMA StepsOfSales ==
  ASSUME [MCNext]_salesVars
  PROVE  [Next]_flashVars /\ [Rows!Next]_(Rows!rowVars)
<1>1. [Next]_flashVars /\ [Rows!Next]_mcRowVars
  BY DEF MCNext, salesVars
<1> QED
  BY <1>1 DEF mcRowVars, Rows!rowVars

LEMMA SalesInit == MCInit => SalesInv
  BY MemoryInit, RecordsInit, RowsInit DEF MCInit, SalesInv

LEMMA SalesStep == SalesInv /\ [MCNext]_salesVars => SalesInv'
  BY StepsOfSales, MemoryStep, RecordsStep, RowsStep DEF SalesInv

LEMMA SalesSound == MCSpec => []SalesInv
  BY SalesInit, SalesStep, PTL DEF MCSpec, salesVars

\* The variables of both keep their types, for any number of skus, buyers and units.
THEOREM SaleTypesCorrect == MCSpec => []SaleTypes
<1>1. SalesInv => SaleTypes
  BY DEF SalesInv, MemoryInv, RowsInv, SaleTypes
<1> QED
  BY <1>1, SalesSound, PTL

\* No sale is lost or recorded twice: in memory every unit sold is in the purchases of its
\* id or about to be, also under concurrent buyers and replaced skus; in the rows the
\* version counts the purchases and a row is locked just while its transaction is open.
THEOREM SoldUnitsRecorded == MCSpec => []SoldIsRecorded
<1>1. SalesInv => SoldIsRecorded
  BY DEF SalesInv, RowsInv, SoldIsRecorded
<1> QED
  BY <1>1, SalesSound, PTL

\* The compare-and-swap in memory and the conditional UPDATE both sell one unit at a time,
\* each once, and never more than there are.
THEOREM SalesAreSales == MCSpec => SalesImplementSale
<1>1. MCInit => Abstract!SaleInit /\ Rows!Abstract!SaleInit
  BY MemoryStartsAsSale, RowsStartAsSale DEF MCInit
<1>2. SalesInv /\ [MCNext]_salesVars =>
        [Abstract!SaleNext]_(Abstract!saleVars) /\ [Rows!Abstract!SaleNext]_(Rows!Abstract!saleVars)
  BY StepsOfSales, MemoryStepIsSale, RowStepIsSale DEF SalesInv
<1> QED
  BY <1>1, <1>2, SalesSound, PTL
  DEF MCSpec, salesVars, SalesImplementSale, ImplementsSale, Rows!ImplementsSale,
      Abstract!SaleSpec, Rows!Abstract!SaleSpec

\* A call gives up only if since its first read at least RETRIES units of its object were
\* sold, none of them to it, and is told that the object is out of stock only if all the
\* units it was created with are sold: for any stock, number of attempts and buyers.
THEOREM BuyersRefusedForReason == MCSpec => RefusedForReason
<1>1. SalesInv =>
        \A t \in Threads :
          /\ GiveUp(t) => version[cur[t]] - begun[t] >= RETRIES
          /\ SoldOut(t) => version[cur[t]] = offered[cur[t]]
  BY RefusalsHaveReasons DEF SalesInv
<1> QED
  BY <1>1, SalesSound, PTL DEF RefusedForReason
===================================================================================
