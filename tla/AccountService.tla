------------------------------ MODULE AccountService ------------------------------
(***************************************************************************)
(* src/kata-008: accounts with a lock each, and a service lock that a      *)
(* transfer keeps from the test of its idempotency key to the record of    *)
(* it, while it takes the locks of both accounts.  Deposits, withdrawals   *)
(* and reads let the service lock go when they have found their account.   *)
(*                                                                         *)
(* An account is named by a string: one UUID has several spellings.  A     *)
(* section under one lock that takes no other is one action; the two       *)
(* writes of a transfer are two, since a balance is read without a lock.   *)
(***************************************************************************)
EXTENDS Integers, FiniteSets

CONSTANTS
  Threads,          \* the callers of the service
  Accounts,         \* account ids uuid4 may hand out, ordered as UUIDs are
  Spellings,        \* the ways to write an id
  Keys,             \* idempotency keys
  Amounts,          \* amounts; validate_amount accepts anything
  InitialBalances,  \* balances validate_balance accepts
  MaxCalls,         \* bound on the calls a thread makes
  Null              \* nobody, no call

VARIABLES
  created,   \* the keys of _accounts
  balance,   \* balance[a]
  booked,    \* _idempotency_keys: the transfer made under a key, or Null
  service,   \* the thread inside `with self._lock` of a transfer, or Null
  lock,      \* lock[a]: the thread inside `with` the account's lock, or Null
  pc, call,  \* where each thread is in its call, and the call
  calls,     \* how many calls each thread has made
  moved      \* history: moved[k] counts the transfers made under key k

vars == <<created, balance, booked, service, lock, pc, call, calls, moved>>

Transfers == [src : Accounts, dst : Accounts, amount : Amounts]
Calls == [src : Accounts, dst : Accounts, amount : Amounts, key : Keys \cup {Null}]

TypeOK ==
  /\ created \subseteq Accounts
  /\ balance \in [Accounts -> Int]
  /\ booked \in [Keys -> Transfers \cup {Null}]
  /\ service \in Threads \cup {Null}
  /\ lock \in [Accounts -> Threads \cup {Null}]
  /\ pc \in [Threads -> {"idle", "deposit", "withdraw", "first", "second", "locked", "debited"}]
  /\ call \in [Threads -> Calls \cup {Null}]
  /\ calls \in [Threads -> 0 .. MaxCalls]
  /\ moved \in [Keys -> Nat]

Init ==
  /\ created = {}
  /\ balance = [a \in Accounts |-> 0]
  /\ booked = [k \in Keys |-> Null]
  /\ service = Null
  /\ lock = [a \in Accounts |-> Null]
  /\ pc = [t \in Threads |-> "idle"]
  /\ call = [t \in Threads |-> Null]
  /\ calls = [t \in Threads |-> 0]
  /\ moved = [k \in Keys |-> 0]

--------------------------------------------------------------------------------
CreateAccount(a, b) ==
  /\ service = Null
  /\ a \notin created
  /\ created' = created \cup {a}
  /\ balance' = [balance EXCEPT ![a] = b]
  /\ UNCHANGED <<booked, service, lock, pc, call, calls, moved>>

\* A call that gets past its checks under the service lock; one that does not
\* raises, or returns for a key that is booked, and changes nothing.
Begin(t, c, label) ==
  /\ pc[t] = "idle" /\ calls[t] < MaxCalls
  /\ service = Null
  /\ {c.src, c.dst} \subseteq created
  /\ pc' = [pc EXCEPT ![t] = label]
  /\ call' = [call EXCEPT ![t] = c]
  /\ calls' = [calls EXCEPT ![t] = @ + 1]
  /\ UNCHANGED <<created, balance, booked, lock, moved>>

BeginSingle(t, a, n, label) ==
  /\ Begin(t, [src |-> a, dst |-> a, amount |-> n, key |-> Null], label)
  /\ UNCHANGED service

\* src and dst are the strings the caller gives: they are compared as they are
\* written, and then read as UUIDs.
TransferAmount(t, src, dst, n, k) ==
  /\ src # dst
  /\ booked[k] = Null
  /\ Begin(t, [src |-> src.id, dst |-> dst.id, amount |-> n, key |-> k], "first")
  /\ service' = t

Goto(t, from, to) ==
  /\ pc[t] = from
  /\ pc' = [pc EXCEPT ![t] = to]
  /\ call' = [call EXCEPT ![t] = IF to = "idle" THEN Null ELSE @]
  /\ UNCHANGED <<created, calls>>

Deposit(t) ==
  LET c == call[t] IN
  /\ Goto(t, "deposit", "idle")
  /\ lock[c.src] = Null
  /\ balance' = [balance EXCEPT ![c.src] = @ + c.amount]
  /\ UNCHANGED <<booked, service, lock, moved>>

Enough(c) == c.amount <= balance[c.src]

Withdraw(t) ==
  LET c == call[t] IN
  /\ Goto(t, "withdraw", "idle")
  /\ lock[c.src] = Null
  /\ Enough(c)
  /\ balance' = [balance EXCEPT ![c.src] = @ - c.amount]
  /\ UNCHANGED <<booked, service, lock, moved>>

RefuseWithdraw(t) ==
  /\ Goto(t, "withdraw", "idle")
  /\ lock[call[t].src] = Null
  /\ ~Enough(call[t])
  /\ UNCHANGED <<balance, booked, service, lock, moved>>

--------------------------------------------------------------------------------
(* Account.transfer_to, under the service lock                             *)
FirstLock(c) == IF c.src < c.dst THEN c.src ELSE c.dst
SecondLock(c) == IF c.src < c.dst THEN c.dst ELSE c.src

Acquire(t, a, from, to) ==
  /\ lock[a] = Null
  /\ Goto(t, from, to)
  /\ lock' = [lock EXCEPT ![a] = t]
  /\ UNCHANGED <<balance, booked, service, moved>>

AcquireFirst(t) == pc[t] = "first" /\ Acquire(t, FirstLock(call[t]), "first", "second")
AcquireSecond(t) == pc[t] = "second" /\ Acquire(t, SecondLock(call[t]), "second", "locked")

ReleaseAll(t) ==
  /\ lock' = [a \in Accounts |-> IF lock[a] = t THEN Null ELSE lock[a]]
  /\ service' = IF service = t THEN Null ELSE service

\* Mutant: a refused transfer is booked as well.
RefuseTransfer_Booked(t) ==
  LET c == call[t] IN
  /\ Goto(t, "locked", "idle")
  /\ ~Enough(c)
  /\ booked' = [booked EXCEPT ![c.key] = [src |-> c.src, dst |-> c.dst, amount |-> c.amount]]
  /\ ReleaseAll(t)
  /\ UNCHANGED <<balance, moved>>

RefuseTransfer(t) ==
  /\ Goto(t, "locked", "idle")
  /\ ~Enough(call[t])
  /\ ReleaseAll(t)
  /\ UNCHANGED <<balance, booked, moved>>

Debit(t) ==
  LET c == call[t] IN
  /\ Goto(t, "locked", "debited")
  /\ Enough(c)
  /\ balance' = [balance EXCEPT ![c.src] = @ - c.amount]
  /\ UNCHANGED <<booked, service, lock, moved>>

\* Mutant: the key is filed and the transfer is not.
Credit_Unbooked(t) ==
  LET c == call[t] IN
  /\ Goto(t, "debited", "idle")
  /\ balance' = [balance EXCEPT ![c.dst] = @ + c.amount]
  /\ moved' = [moved EXCEPT ![c.key] = @ + 1]
  /\ booked' = [booked EXCEPT ![c.key] = [src |-> c.src]]
  /\ ReleaseAll(t)

\* The key is booked when the account locks are released and the service lock is
\* not; nobody reads it before that lock is released too.
Credit(t) ==
  LET c == call[t] IN
  /\ Goto(t, "debited", "idle")
  /\ balance' = [balance EXCEPT ![c.dst] = @ + c.amount]
  /\ moved' = [moved EXCEPT ![c.key] = @ + 1]
  /\ booked' = [booked EXCEPT ![c.key] = [src |-> c.src, dst |-> c.dst, amount |-> c.amount]]
  /\ ReleaseAll(t)

--------------------------------------------------------------------------------
Names == [id : Accounts, spelled : Spellings]

Arrive(t) ==
  \E n \in Amounts :
    \/ \E a \in Accounts : BeginSingle(t, a, n, "deposit") \/ BeginSingle(t, a, n, "withdraw")
    \/ \E src, dst \in Names, k \in Keys : TransferAmount(t, src, dst, n, k)

Step(t) ==
  \/ Deposit(t) \/ Withdraw(t) \/ RefuseWithdraw(t)
  \/ AcquireFirst(t) \/ AcquireSecond(t)
  \/ RefuseTransfer(t) \/ Debit(t) \/ Credit(t)

Next ==
  \/ \E a \in Accounts, b \in InitialBalances : CreateAccount(a, b)
  \/ \E t \in Threads : Arrive(t) \/ Step(t)

\* A thread inside a call is eventually scheduled.
Spec == Init /\ [][Next]_vars /\ \A t \in Threads : WF_vars(Step(t))

--------------------------------------------------------------------------------
\* A key moves money at most once, and is booked just when it has: a transfer that
\* was refused can be retried, one that was made cannot be made again.
BookedWhenMoved == \A k \in Keys : moved[k] = IF booked[k] = Null THEN 0 ELSE 1

Debited == {t \in Threads : pc[t] = "debited"}

\* To everything that takes the locks of the accounts the service is the bank of
\* AtomicBank, a transfer counting as made when it debits.
BankFunds ==
  [a \in Accounts |->
     IF \E t \in Debited : call[t].dst = a
     THEN balance[a] + call[CHOOSE t \in Debited : call[t].dst = a].amount
     ELSE balance[a]]
BankSettled ==
  [a \in Accounts |->
     {k \in Keys : booked[k] # Null /\ a \in {booked[k].src, booked[k].dst}}
       \cup {call[t].key : t \in {x \in Debited : a \in {call[x].src, call[x].dst}}}]

Bank == INSTANCE AtomicBank WITH
          Wallets <- Accounts, opened <- created, funds <- BankFunds, settled <- BankSettled
ImplementsBank == Bank!Spec

\* feedback/kata-008.md:29, "account-id lock ordering unprompted to avoid deadlock":
\* every call comes back, though a transfer waits for account locks while it keeps
\* everybody else from the service lock.
EveryCallReturns == \A t \in Threads : pc[t] # "idle" ~> pc[t] = "idle"
================================================================================
