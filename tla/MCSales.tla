---------------------------------- MODULE MCSales ----------------------------------
(***************************************************************************)
(* Instances of the flash sale, in memory (FlashSaleService) and over rows *)
(* of PostgreSQL (FlashSaleRows).  A program uses one of them, so a        *)
(* behaviour runs one, its subject.                                        *)
(***************************************************************************)
EXTENDS FlashSaleService, TLC

CONSTANTS
  Subjects,  \* what a run explores, of "memory" and "rows"
  RowSkus

ASSUME ConnectionAssumption == Null \notin Threads

\* There are finitely many of everything.
ASSUME CountsAssumption == IsFiniteSet(Skus) /\ IsFiniteSet(Threads)

VARIABLES
  subject,
  exists, rowStock, rowVersion, rowPurchases, rowLock, rowPc, rowCur, rowSeen

Rows == INSTANCE FlashSaleRows WITH
  Skus <- RowSkus, stock <- rowStock, version <- rowVersion, purchases <- rowPurchases,
  pc <- rowPc, cur <- rowCur, seen <- rowSeen

mcRowVars == <<exists, rowStock, rowVersion, rowPurchases, rowLock, rowPc, rowCur, rowSeen>>

MCInit == subject \in Subjects /\ Init /\ Rows!Init

MCNext ==
  /\ UNCHANGED subject
  /\ \/ subject = "memory" /\ Next /\ UNCHANGED mcRowVars
     \/ subject = "rows" /\ Rows!Next /\ UNCHANGED flashVars

MCSpec ==
  /\ MCInit /\ [][MCNext]_<<subject, flashVars, mcRowVars>>
  /\ \A t \in Threads : WF_flashVars(Purchase(t)) /\ SF_mcRowVars(Rows!PurchaseSku(t))

--------------------------------------------------------------------------------
\* The types of both.
SaleTypes == TypeOK /\ Rows!TypeOK

\* What was sold is on record: in memory each unit once, also for skus that were
\* replaced; in the rows the version counts the purchases, and a row is locked just
\* while a transaction that updated it is open.
SoldIsRecorded == SalesRecorded /\ Rows!VersionCountsPurchases /\ Rows!LockIsHeld

\* Both implement Sale, whatever interleaves and whatever connection is lost.
SalesImplementSale == ImplementsSale /\ Rows!ImplementsSale

\* Every purchase ends, in the rows also behind a connection lost with the row locked.
PurchasesEnd == PurchaseEnds /\ Rows!PurchaseEnds
====================================================================================
