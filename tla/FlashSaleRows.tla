------------------------------ MODULE FlashSaleRows ------------------------------
(***************************************************************************)
(* src/kata-015-focused/postgres_service.py: the flash sale over rows,     *)
(* each purchase a transaction of three statements at READ COMMITTED.  A   *)
(* conditional UPDATE waits for the row lock of another transaction, then  *)
(* tests its condition on what that one committed.  What a transaction     *)
(* wrote is seen by no other before it commits, so here it is written at   *)
(* the commit.  A connection may be lost at any point, which rolls back.   *)
(***************************************************************************)
EXTENDS Naturals

CONSTANTS
  Skus,
  MaxStock,  \* bound: the largest stock a sku is created with
  Threads,   \* connections
  Null       \* no sku, no connection

VARIABLES
  exists,     \* the skus that have a row
  stock, version,
  purchases,  \* the number of rows of purchases for the sku
  rowLock,    \* the connection that updated the row and has not committed, or Null
  pc,         \* the statement a connection is at
  cur,        \* the sku of its purchase
  seen        \* the version it selected

rowVars == <<exists, stock, version, purchases, rowLock, pc, cur, seen>>

TypeOK ==
  /\ exists \subseteq Skus
  /\ stock \in [Skus -> Nat]
  /\ version \in [Skus -> Nat]
  /\ purchases \in [Skus -> Nat]
  /\ rowLock \in [Skus -> Threads \cup {Null}]
  /\ pc \in [Threads -> {"idle", "update", "insert"}]
  /\ cur \in [Threads -> Skus \cup {Null}]
  /\ seen \in [Threads -> Nat]

Init ==
  /\ exists = {}
  /\ stock = [s \in Skus |-> 0]
  /\ version = [s \in Skus |-> 0]
  /\ purchases = [s \in Skus |-> 0]
  /\ rowLock = [s \in Skus |-> Null]
  /\ pc = [t \in Threads |-> "idle"]
  /\ cur = [t \in Threads |-> Null]
  /\ seen = [t \in Threads |-> 0]

Finish(t) ==
  /\ pc' = [pc EXCEPT ![t] = "idle"]
  /\ cur' = [cur EXCEPT ![t] = Null]
  /\ seen' = [seen EXCEPT ![t] = 0]

CreateSku(s, n) ==
  /\ s \notin exists
  /\ exists' = exists \cup {s}
  /\ stock' = [stock EXCEPT ![s] = n]
  /\ UNCHANGED <<version, purchases, rowLock, pc, cur, seen>>

\* The SELECT.  A sku that is unknown or sold out ends the call, with no change.
SelectSku(t, s) ==
  /\ pc[t] = "idle"
  /\ s \in exists /\ stock[s] > 0
  /\ pc' = [pc EXCEPT ![t] = "update"]
  /\ cur' = [cur EXCEPT ![t] = s]
  /\ seen' = [seen EXCEPT ![t] = version[s]]
  /\ UNCHANGED <<exists, stock, version, purchases, rowLock>>

\* Mutant: the update is not conditional.
UpdateSku_Blind(t) ==
  /\ pc[t] = "update"
  /\ rowLock[cur[t]] = Null
  /\ rowLock' = [rowLock EXCEPT ![cur[t]] = t]
  /\ pc' = [pc EXCEPT ![t] = "insert"]
  /\ UNCHANGED <<exists, stock, version, purchases, cur, seen>>

UpdateSku(t) ==
  /\ pc[t] = "update"
  /\ rowLock[cur[t]] = Null /\ version[cur[t]] = seen[t]
  /\ rowLock' = [rowLock EXCEPT ![cur[t]] = t]
  /\ pc' = [pc EXCEPT ![t] = "insert"]
  /\ UNCHANGED <<exists, stock, version, purchases, cur, seen>>

\* No row came back: the caller is told to try again.
Conflict(t) ==
  /\ pc[t] = "update"
  /\ rowLock[cur[t]] = Null /\ version[cur[t]] # seen[t]
  /\ Finish(t)
  /\ UNCHANGED <<exists, stock, version, purchases, rowLock>>

\* The INSERT and the commit.
InsertPurchase(t) ==
  /\ pc[t] = "insert"
  /\ stock' = [stock EXCEPT ![cur[t]] = @ - 1]
  /\ version' = [version EXCEPT ![cur[t]] = seen[t] + 1]
  /\ purchases' = [purchases EXCEPT ![cur[t]] = @ + 1]
  /\ rowLock' = [rowLock EXCEPT ![cur[t]] = Null]
  /\ Finish(t)
  /\ UNCHANGED exists

\* Mutant: a lost transaction keeps its row lock.
LoseConnection_Locked(t) ==
  /\ pc[t] # "idle"
  /\ Finish(t)
  /\ UNCHANGED <<exists, stock, version, purchases, rowLock>>

\* The server rolls a lost transaction back.
LoseConnection(t) ==
  /\ pc[t] # "idle"
  /\ rowLock' = [s \in Skus |-> IF rowLock[s] = t THEN Null ELSE rowLock[s]]
  /\ Finish(t)
  /\ UNCHANGED <<exists, stock, version, purchases>>

PurchaseSku(t) == UpdateSku(t) \/ Conflict(t) \/ InsertPurchase(t)

Next ==
  \/ \E s \in Skus, n \in 0 .. MaxStock : CreateSku(s, n)
  \/ \E t \in Threads : PurchaseSku(t) \/ LoseConnection(t) \/ \E s \in Skus : SelectSku(t, s)

\* A connection that is at a statement sends it, and PostgreSQL gives the lock of a
\* row to those that wait for it in turn.
Spec == Init /\ [][Next]_rowVars /\ \A t \in Threads : SF_rowVars(PurchaseSku(t))

--------------------------------------------------------------------------------
\* A committed purchase is a unit sold, whatever is lost on the way: the rows
\* implement Sale, with the purchases for the units sold.
Abstract == INSTANCE Sale WITH Offers <- Skus, open <- exists, left <- stock, sold <- purchases
ImplementsSale == Abstract!SaleSpec

\* The version, written from what the connection selected and not from the row,
\* still counts the purchases, which are rows of another table.
VersionCountsPurchases == \A s \in Skus : version[s] = purchases[s]

\* A row is locked just while a transaction that updated it is open, and nothing
\* was committed to it after that transaction selected it.
LockIsHeld ==
  \A s \in Skus, t \in Threads :
    /\ rowLock[s] = t <=> pc[t] = "insert" /\ cur[t] = s
    /\ rowLock[s] = t => version[s] = seen[t]

\* Every purchase ends, also when connections are lost while they hold the row.
PurchaseEnds == \A t \in Threads : pc[t] # "idle" ~> pc[t] = "idle"
================================================================================
