--------------------------------- MODULE MCBanks ---------------------------------
(***************************************************************************)
(* Instances of the services that move money or points between accounts:   *)
(* WalletService, AccountService, TransferService, TransferRows and        *)
(* PointsService.  They share no state, so a behaviour runs one of them,   *)
(* its subject; the others stay as they began.                             *)
(***************************************************************************)
EXTENDS WalletService, TLC

CONSTANTS
  Subjects,  \* what a run explores, of "wallet", "account", "transfer", "rows" and "points"
  Callers,   \* the threads that call AccountService and TransferService
  Accounts, Spellings, AccountAmounts, AccountCalls, AccountKeys,
  Ids, Objects, Balances, TransferIds,
  PointAccounts, MaxOperations

VARIABLES
  subject,
  aCreated, aBalance, aBooked, aService, aLock, aPc, aCall, aCalls, aMoved,
  at, opening, mBalance, mLock, recorded, mPc, mCall, mCalls,
  exists, rBalance, rTransfers, rowLock, rPc, rCall, debited,
  pOpening, pBalance, operations

accountVars == <<aCreated, aBalance, aBooked, aService, aLock, aPc, aCall, aCalls, aMoved>>
memoryVars == <<at, opening, mBalance, mLock, recorded, mPc, mCall, mCalls>>
rowVars == <<exists, rBalance, rTransfers, rowLock, rPc, rCall, debited>>
pointVars == <<pOpening, pBalance, operations>>

Account == INSTANCE AccountService WITH
  Threads <- Callers, Amounts <- AccountAmounts, MaxCalls <- AccountCalls, Keys <- AccountKeys,
  created <- aCreated, balance <- aBalance, booked <- aBooked, service <- aService, lock <- aLock,
  pc <- aPc, call <- aCall, calls <- aCalls, moved <- aMoved

Memory == INSTANCE TransferService WITH
  Threads <- Callers,
  balance <- mBalance, lock <- mLock, pc <- mPc, call <- mCall, calls <- mCalls

Rows == INSTANCE TransferRows WITH
  balance <- rBalance, transfers <- rTransfers, pc <- rPc, call <- rCall

Points == INSTANCE PointsService WITH
  Accounts <- PointAccounts, Points <- Amounts,
  opening <- pOpening, balance <- pBalance

\* AccountService checks no amount, and its balances may go below zero.
UncheckedAmounts == {-1, 1}

ASSUME AccountAssumption ==
  /\ Accounts \subseteq Int /\ AccountAmounts \subseteq Int
  /\ AccountCalls \in Nat
  /\ Null \notin Callers /\ Null \notin Account!Transfers

ASSUME RowAssumption ==
  /\ Ids \subseteq Int /\ Balances \subseteq Nat
  /\ Null \notin Rows!Calls

\* TransferService and PointsService open accounts with Balances too.
ASSUME OpeningAssumption ==
  /\ Null \notin Objects /\ Null \notin Balances
  /\ Null \notin Memory!Calls

MCInit ==
  /\ subject \in Subjects
  /\ Init /\ Account!Init /\ Memory!Init /\ Rows!Init /\ Points!Init
MCNext ==
  /\ UNCHANGED subject
  /\ \/ subject = "wallet" /\ Next /\ UNCHANGED <<accountVars, memoryVars, rowVars, pointVars>>
     \/ subject = "account" /\ Account!Next /\ UNCHANGED <<vars, memoryVars, rowVars, pointVars>>
     \/ subject = "transfer" /\ Memory!Next /\ UNCHANGED <<vars, accountVars, rowVars, pointVars>>
     \/ subject = "rows" /\ Rows!Next /\ UNCHANGED <<vars, accountVars, memoryVars, pointVars>>
     \/ subject = "points" /\ Points!Next /\ UNCHANGED <<vars, accountVars, memoryVars, rowVars>>
MCSpec ==
  /\ MCInit /\ [][MCNext]_<<subject, vars, accountVars, memoryVars, rowVars, pointVars>>
  /\ \A t \in Threads : WF_vars(Step(t)) /\ SF_rowVars(Rows!Step(t))
  /\ \A t \in Callers : WF_accountVars(Account!Step(t)) /\ WF_memoryVars(Memory!Step(t))

--------------------------------------------------------------------------------
\* The types of the services the other run does not check.
BankTypes == Account!TypeOK /\ Memory!TypeOK /\ Rows!TypeOK /\ Points!TypeOK

\* What was moved is on record, once: under its key, in the transfers of an id, and in
\* the logs of two accounts of points, which explain their balances.
MovesRecorded == Account!BookedWhenMoved /\ Memory!RecordExplains /\ Points!LogsExplain

\* To everything that takes the accounts' locks the account service is AtomicBank too,
\* whatever amounts it is fed; so are the rows, to everything that reads what was
\* committed.
BanksImplementBank == Account!ImplementsBank /\ Rows!ImplementsBank

\* Every call to a service comes back: no circle of transfers waits for itself,
\* and no return, raise or lost connection leaves a lock behind.
EveryBankCallReturns ==
  EveryCallReturns /\ Account!EveryCallReturns /\ Memory!EveryCallReturns /\ Rows!EveryCallReturns
================================================================================
