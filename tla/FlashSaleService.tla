----------------------------- MODULE FlashSaleService -----------------------------
(***************************************************************************)
(* src/kata-015-focused: a unit is sold by compare-and-swap.  A buyer      *)
(* reads the version of the sku without its lock, then takes a unit under  *)
(* the lock if the version is still the same, and starts again, RETRIES    *)
(* times in all, if it is not.  The purchase is recorded afterwards, under *)
(* another lock.  create_sku takes no lock and replaces a sku of the same  *)
(* id; a buyer in the middle of a purchase keeps the Sku object it found.  *)
(***************************************************************************)
EXTENDS Integers, FiniteSets

CONSTANTS
  SkuIds,
  Skus,      \* Sku objects
  MaxStock,  \* bound: the largest stock a sku is created with
  Stocks,    \* bound: the stocks that CreateSku tries
  RETRIES,   \* attempts of one purchase, 5 in the code
  Threads,   \* buyers
  Null       \* no object

ASSUME FlashSaleAssumption ==
  /\ MaxStock \in Nat /\ Stocks \subseteq 0 .. MaxStock
  /\ RETRIES \in Nat \ {0}
  /\ Null \notin Skus /\ Null \notin SkuIds

VARIABLES
  skuId,      \* the sku_id of an object, Null before it is created
  stock,      \* its stock
  version,    \* its version
  sku,        \* _skus: the object of an id, or Null
  purchases,  \* the length of the id's list in _purchases_by_sku_id
  pc,         \* what a thread does next
  cur,        \* the object its purchase works on
  seen,       \* the version it read
  attempts,   \* attempts that failed
  begun,      \* history: the version that the first attempt read
  offered     \* history: the stock an object was created with

flashVars == <<skuId, stock, version, sku, purchases, pc, cur, seen, attempts, begun, offered>>

TypeOK ==
  /\ skuId \in [Skus -> SkuIds \cup {Null}]
  /\ stock \in [Skus -> Nat]
  /\ version \in [Skus -> Nat]
  /\ sku \in [SkuIds -> Skus \cup {Null}]
  /\ purchases \in [SkuIds -> Nat]
  /\ pc \in [Threads -> {"idle", "read", "take", "record"}]
  /\ cur \in [Threads -> Skus \cup {Null}]
  /\ seen \in [Threads -> Nat]
  /\ attempts \in [Threads -> 0 .. RETRIES - 1]
  /\ begun \in [Threads -> Nat]
  /\ offered \in [Skus -> Nat]

Init ==
  /\ skuId = [o \in Skus |-> Null]
  /\ stock = [o \in Skus |-> 0]
  /\ version = [o \in Skus |-> 0]
  /\ sku = [i \in SkuIds |-> Null]
  /\ purchases = [i \in SkuIds |-> 0]
  /\ pc = [t \in Threads |-> "idle"]
  /\ cur = [t \in Threads |-> Null]
  /\ seen = [t \in Threads |-> 0]
  /\ attempts = [t \in Threads |-> 0]
  /\ begun = [t \in Threads |-> 0]
  /\ offered = [o \in Skus |-> 0]

Go(t, step) == pc' = [pc EXCEPT ![t] = step]

\* Finish also forgets the locals of the call.
Finish(t) ==
  /\ Go(t, "idle")
  /\ cur' = [cur EXCEPT ![t] = Null]
  /\ seen' = [seen EXCEPT ![t] = 0]
  /\ attempts' = [attempts EXCEPT ![t] = 0]
  /\ begun' = [begun EXCEPT ![t] = 0]

CreateSku(i, o, n) ==
  /\ skuId[o] = Null
  /\ skuId' = [skuId EXCEPT ![o] = i]
  /\ stock' = [stock EXCEPT ![o] = n]
  /\ offered' = [offered EXCEPT ![o] = n]
  /\ sku' = [sku EXCEPT ![i] = o]
  /\ UNCHANGED <<version, purchases, pc, cur, seen, attempts, begun>>

\* Mutant: the purchase keeps the id and not the object.
PurchaseSku_ById(t, i) ==
  /\ pc[t] = "idle"
  /\ sku[i] # Null
  /\ cur' = [cur EXCEPT ![t] = i]
  /\ Go(t, "read")
  /\ UNCHANGED <<skuId, stock, version, sku, purchases, seen, attempts, begun, offered>>

PurchaseSku(t, i) ==
  /\ pc[t] = "idle"
  /\ sku[i] # Null
  /\ cur' = [cur EXCEPT ![t] = sku[i]]
  /\ Go(t, "read")
  /\ UNCHANGED <<skuId, stock, version, sku, purchases, seen, attempts, begun, offered>>

ReadVersion(t) ==
  /\ pc[t] = "read"
  /\ seen' = [seen EXCEPT ![t] = version[cur[t]]]
  /\ begun' = [begun EXCEPT ![t] = IF attempts[t] = 0 THEN version[cur[t]] ELSE @]
  /\ Go(t, "take")
  /\ UNCHANGED <<skuId, stock, version, sku, purchases, cur, attempts, offered>>

SameVersion(t) == version[cur[t]] = seen[t]

TakeUnit(t) ==
  /\ pc[t] = "take" /\ SameVersion(t)
  /\ stock[cur[t]] > 0
  /\ stock' = [stock EXCEPT ![cur[t]] = @ - 1]
  /\ version' = [version EXCEPT ![cur[t]] = @ + 1]
  /\ Go(t, "record")
  /\ UNCHANGED <<skuId, sku, purchases, cur, seen, attempts, begun, offered>>

SoldOut(t) ==
  /\ pc[t] = "take" /\ SameVersion(t)
  /\ stock[cur[t]] = 0
  /\ Finish(t)
  /\ UNCHANGED <<skuId, stock, version, sku, purchases, offered>>

\* Mutant: the retry goes on with the version it had.
Retry_SameVersion(t) ==
  /\ pc[t] = "take" /\ ~SameVersion(t)
  /\ attempts[t] + 1 < RETRIES
  /\ attempts' = [attempts EXCEPT ![t] = @ + 1]
  /\ Go(t, "take")
  /\ UNCHANGED <<skuId, stock, version, sku, purchases, cur, seen, begun, offered>>

\* ConflictVersion, then the backoff.
Retry(t) ==
  /\ pc[t] = "take" /\ ~SameVersion(t)
  /\ attempts[t] + 1 < RETRIES
  /\ attempts' = [attempts EXCEPT ![t] = @ + 1]
  /\ Go(t, "read")
  /\ UNCHANGED <<skuId, stock, version, sku, purchases, cur, seen, begun, offered>>

\* The last attempt fails with FailedShouldRetry.
GiveUp(t) ==
  /\ pc[t] = "take" /\ ~SameVersion(t)
  /\ attempts[t] + 1 = RETRIES
  /\ Finish(t)
  /\ UNCHANGED <<skuId, stock, version, sku, purchases, offered>>

\* Mutant: two buyers that find no list for the sku each start one.
Record_NewList(t) ==
  /\ pc[t] = "record"
  /\ LET i == skuId[cur[t]] IN purchases' = [purchases EXCEPT ![i] = IF seen[t] = 0 THEN 1 ELSE @ + 1]
  /\ Finish(t)
  /\ UNCHANGED <<skuId, stock, version, sku, offered>>

Record(t) ==
  /\ pc[t] = "record"
  /\ purchases' = [purchases EXCEPT ![skuId[cur[t]]] = @ + 1]
  /\ Finish(t)
  /\ UNCHANGED <<skuId, stock, version, sku, offered>>

Purchase(t) ==
  ReadVersion(t) \/ TakeUnit(t) \/ SoldOut(t) \/ Retry(t) \/ GiveUp(t) \/ Record(t)

Next ==
  \/ \E i \in SkuIds, o \in Skus, n \in Stocks : CreateSku(i, o, n)
  \/ \E t \in Threads : Purchase(t) \/ \E i \in SkuIds : PurchaseSku(t, i)

\* The locks of a sku and of the purchases are held for one step each, so a call
\* that has begun goes on.
Spec == Init /\ [][Next]_flashVars /\ \A t \in Threads : WF_flashVars(Purchase(t))

--------------------------------------------------------------------------------
\* However buyers interleave, a unit is sold to one of them: the service
\* implements Sale, with the version of a sku for the number of units sold.
Abstract == INSTANCE Sale WITH
  Offers <- Skus, open <- {o \in Skus : skuId[o] # Null}, left <- stock, sold <- version
ImplementsSale == Abstract!SaleSpec

\* The units sold of the skus of an id, counted within each sku.
UnitsSold(i) == {k \in Skus \X (1 .. MaxStock) : skuId[k[1]] = i /\ k[2] <= version[k[1]]}

\* Every unit sold is recorded once: what the purchases of an id lack are the
\* units that a thread is about to record, also for skus of the id that were
\* replaced.
SalesRecorded ==
  \A i \in SkuIds :
    purchases[i] + Cardinality({t \in Threads : pc[t] = "record" /\ skuId[cur[t]] = i})
      = Cardinality(UnitsSold(i))

\* The two refusals, each for its own reason.  A call raises FailedShouldRetry (GiveUp)
\* only if since its first read of the version at least RETRIES units of its object were
\* sold, all of them to others; and "Out of stock" (SoldOut) only if as many units of its
\* object are sold as it was created with.
RefusedForReason ==
  [][\A t \in Threads :
       /\ GiveUp(t) => version[cur[t]] - begun[t] >= RETRIES
       /\ SoldOut(t) => version[cur[t]] = offered[cur[t]]]_flashVars

\* Every purchase ends, sold or refused.
PurchaseEnds == \A t \in Threads : pc[t] # "idle" ~> pc[t] = "idle"
================================================================================
