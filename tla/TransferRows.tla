------------------------------ MODULE TransferRows ------------------------------
(***************************************************************************)
(* src/kata-016-focused/postgres_service.py: the transfer as one           *)
(* transaction that locks both rows with SELECT ... FOR UPDATE, in the     *)
(* order of their ids, and relies on CHECK (balance >= 0).  What it writes *)
(* nobody sees before the commit, so the rows change there; before it, any *)
(* failure or lost connection rolls everything back.                       *)
(***************************************************************************)
EXTENDS Integers, FiniteSets

CONSTANTS
  Threads,      \* connections
  Ids,          \* account ids, ordered
  Balances, Amounts,
  TransferIds,  \* what uuid4 may return, a bound on the transfers that commit
  Null

VARIABLES
  exists,     \* the accounts that have a row
  balance,
  transfers,  \* transfers[x]: the row of transfers, or Null
  rowLock,    \* rowLock[i]: the connection whose transaction locked the row, or Null
  pc, call,
  debited     \* debited[t]: what the UPDATE of an open transaction left in the source

rowVars == <<exists, balance, transfers, rowLock, pc, call, debited>>

Calls == [src : Ids, dst : Ids, amount : Amounts]

TypeOK ==
  /\ exists \subseteq Ids
  /\ balance \in [Ids -> Nat]
  /\ transfers \in [TransferIds -> Calls \cup {Null}]
  /\ rowLock \in [Ids -> Threads \cup {Null}]
  /\ pc \in [Threads -> {"idle", "first", "second", "debit", "commit"}]
  /\ call \in [Threads -> Calls \cup {Null}]
  /\ debited \in [Threads -> Nat \cup {Null}]

Init ==
  /\ exists = {}
  /\ balance = [i \in Ids |-> 0]
  /\ transfers = [x \in TransferIds |-> Null]
  /\ rowLock = [i \in Ids |-> Null]
  /\ pc = [t \in Threads |-> "idle"]
  /\ call = [t \in Threads |-> Null]
  /\ debited = [t \in Threads |-> Null]

CreateAccount(i, b) ==
  /\ i \notin exists
  /\ exists' = exists \cup {i}
  /\ balance' = [balance EXCEPT ![i] = b]
  /\ UNCHANGED <<transfers, rowLock, pc, call, debited>>

InUse ==
  Cardinality({x \in TransferIds : transfers[x] # Null})
    + Cardinality({t \in Threads : pc[t] # "idle"})

Transfer(t, c) ==
  /\ pc[t] = "idle" /\ InUse < Cardinality(TransferIds)
  /\ c.src # c.dst
  /\ pc' = [pc EXCEPT ![t] = "first"]
  /\ call' = [call EXCEPT ![t] = c]
  /\ UNCHANGED <<exists, balance, transfers, rowLock, debited>>

FirstAccount(c) == IF c.src < c.dst THEN c.src ELSE c.dst
SecondAccount(c) == IF c.src < c.dst THEN c.dst ELSE c.src

\* The transaction ends, by a commit or a rollback, and its row locks with it.
Finish(t) ==
  /\ pc' = [pc EXCEPT ![t] = "idle"]
  /\ call' = [call EXCEPT ![t] = Null]
  /\ debited' = [debited EXCEPT ![t] = Null]
  /\ rowLock' = [i \in Ids |-> IF rowLock[i] = t THEN Null ELSE rowLock[i]]

\* SELECT ... FOR UPDATE waits until the row is unlocked.
LockRow(t, i, from, to) ==
  /\ pc[t] = from
  /\ i \in exists /\ rowLock[i] = Null
  /\ rowLock' = [rowLock EXCEPT ![i] = t]
  /\ pc' = [pc EXCEPT ![t] = to]
  /\ UNCHANGED <<exists, balance, transfers, call, debited>>

LockFirst(t) == pc[t] = "first" /\ LockRow(t, FirstAccount(call[t]), "first", "second")
LockSecond(t) == pc[t] = "second" /\ LockRow(t, SecondAccount(call[t]), "second", "debit")

AccountNotFound(t) ==
  /\ \/ pc[t] = "first" /\ FirstAccount(call[t]) \notin exists
     \/ pc[t] = "second" /\ SecondAccount(call[t]) \notin exists
  /\ Finish(t)
  /\ UNCHANGED <<exists, balance, transfers>>

UpdateFrom(t) ==
  /\ pc[t] = "debit"
  /\ call[t].amount <= balance[call[t].src]
  /\ debited' = [debited EXCEPT ![t] = balance[call[t].src] - call[t].amount]
  /\ pc' = [pc EXCEPT ![t] = "commit"]
  /\ UNCHANGED <<exists, balance, transfers, rowLock, call>>

\* The CHECK fails: IntegrityError.
NotEnoughBalance(t) ==
  /\ pc[t] = "debit"
  /\ call[t].amount > balance[call[t].src]
  /\ Finish(t)
  /\ UNCHANGED <<exists, balance, transfers>>

\* The second UPDATE, the INSERT and the commit.
Commit(t) ==
  LET c == call[t] IN
  /\ pc[t] = "commit"
  /\ balance' = [balance EXCEPT ![c.src] = debited[t], ![c.dst] = @ + c.amount]
  /\ \E x \in TransferIds :
       /\ transfers[x] = Null
       /\ transfers' = [transfers EXCEPT ![x] = c]
  /\ Finish(t)
  /\ UNCHANGED exists

\* Mutant: what the transaction has written so far stays.
LoseConnection_Keeps(t) ==
  /\ pc[t] # "idle"
  /\ balance' = IF pc[t] = "commit" THEN [balance EXCEPT ![call[t].src] = debited[t]] ELSE balance
  /\ Finish(t)
  /\ UNCHANGED <<exists, transfers>>

LoseConnection(t) ==
  /\ pc[t] # "idle"
  /\ Finish(t)
  /\ UNCHANGED <<exists, balance, transfers>>

Step(t) ==
  \/ LockFirst(t) \/ LockSecond(t) \/ AccountNotFound(t)
  \/ UpdateFrom(t) \/ NotEnoughBalance(t) \/ Commit(t)

Next ==
  \/ \E i \in Ids, b \in Balances : CreateAccount(i, b)
  \/ \E t \in Threads : Step(t) \/ LoseConnection(t) \/ \E c \in Calls : Transfer(t, c)

\* A connection that is at a statement sends it, and PostgreSQL gives the lock of a
\* row to those that wait for it in turn.
Spec == Init /\ [][Next]_rowVars /\ \A t \in Threads : SF_rowVars(Step(t))

--------------------------------------------------------------------------------
\* Whatever is lost, a transfer is in the rows whole or not at all, with its row of
\* transfers: the rows implement AtomicBank, closed, the id of a transfer for its key.
Settled ==
  [i \in Ids |->
     {x \in TransferIds : transfers[x] # Null /\ i \in {transfers[x].src, transfers[x].dst}}]

Bank == INSTANCE AtomicBank WITH
          Wallets <- Ids, Keys <- TransferIds, InitialBalances <- Balances,
          opened <- exists, funds <- balance, settled <- Settled
ImplementsBank == Bank!ClosedSpec

\* Every transfer ends, in order of its locks and also behind a lost connection.
EveryCallReturns == \A t \in Threads : pc[t] # "idle" ~> pc[t] = "idle"
================================================================================
