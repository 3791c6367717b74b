----------------------------- MODULE WalletService -----------------------------
(***************************************************************************)
(* src/kata-004: wallets with one lock each, deposits, withdrawals, and    *)
(* idempotent transfers that hold the locks of both wallets.               *)
(*                                                                         *)
(* A section under the service lock takes no other lock and is one action. *)
(* Inside a transfer the two writes of balance are separate actions, since *)
(* get_balance and get_wallet read a balance without the wallet's lock.    *)
(* A transfers dict is modelled by its keys: no code reads the records.    *)
(* Arguments a validator refuses change nothing and are left out.          *)
(***************************************************************************)
EXTENDS Integers, FiniteSets

CONSTANTS
  Threads,          \* the callers of the service
  Wallets,          \* wallet ids that uuid4 may hand out, ordered as UUIDs are
  Keys,             \* idempotency keys
  Amounts,          \* amounts validate_operation_amount accepts
  InitialBalances,  \* balances validate_initial_balance accepts
  MaxCalls,         \* bound on the calls a thread makes
  Null              \* nobody, no call, no key

ASSUME WalletAssumption ==
  /\ Wallets \subseteq Nat
  /\ Amounts \subseteq Nat \ {0}
  /\ InitialBalances \subseteq Nat
  /\ MaxCalls \in Nat
  /\ Null \notin Threads

VARIABLES
  created,    \* the keys of _wallets
  balance,    \* balance[w]
  transfers,  \* transfers[w]: the keys of w's transfers dict
  lock,       \* lock[w]: the thread inside `with w.lock`, or Null
  pc, call,   \* where each thread is in its call, and the call
  calls,      \* how many calls each thread has made
  debits      \* history: debits[w][k] counts the debits of w under key k

store == <<created, balance, transfers>>
threadVars == <<pc, call, calls>>
vars == <<created, balance, transfers, lock, pc, call, calls, debits>>

Calls == [src : Wallets, dst : Wallets, amount : Amounts, key : Keys \cup {Null}]

\* Mutant: the source is locked first, whatever the ids.
FirstLock_Source(c) == c.src

\* transfer_to compares the wallet ids: the smaller one is locked first.
FirstLock(c) == IF c.src < c.dst THEN c.src ELSE c.dst
SecondLock(c) == IF FirstLock(c) = c.src THEN c.dst ELSE c.src

TypeOK ==
  /\ created \subseteq Wallets
  /\ balance \in [Wallets -> Int]
  /\ transfers \in [Wallets -> SUBSET Keys]
  /\ lock \in [Wallets -> Threads \cup {Null}]
  /\ pc \in [Threads -> {"idle", "deposit", "withdraw", "first", "second",
                         "locked", "credited"}]
  /\ call \in [Threads -> Calls \cup {Null}]
  /\ calls \in [Threads -> 0 .. MaxCalls]
  /\ debits \in [Wallets -> [Keys -> Nat]]

Init ==
  /\ created = {}
  /\ balance = [w \in Wallets |-> 0]
  /\ transfers = [w \in Wallets |-> {}]
  /\ lock = [w \in Wallets |-> Null]
  /\ pc = [t \in Threads |-> "idle"]
  /\ call = [t \in Threads |-> Null]
  /\ calls = [t \in Threads |-> 0]
  /\ debits = [w \in Wallets |-> [k \in Keys |-> 0]]

--------------------------------------------------------------------------------
CreateWallet(w, b) ==
  /\ w \notin created
  /\ created' = created \cup {w}
  /\ balance' = [balance EXCEPT ![w] = b]
  /\ UNCHANGED <<transfers, lock, threadVars, debits>>

\* A call finds its wallets under the service lock, or raises WalletNotFound.
Begin(t, c, label) ==
  /\ pc[t] = "idle"
  /\ calls[t] < MaxCalls
  /\ calls' = [calls EXCEPT ![t] = @ + 1]
  /\ IF {c.src, c.dst} \subseteq created
       THEN /\ pc' = [pc EXCEPT ![t] = label]
            /\ call' = [call EXCEPT ![t] = c]
       ELSE UNCHANGED <<pc, call>>
  /\ UNCHANGED <<store, lock, debits>>

DepositFunds(t, w, a) ==
  Begin(t, [src |-> w, dst |-> w, amount |-> a, key |-> Null], "deposit")

WithdrawFunds(t, w, a) ==
  Begin(t, [src |-> w, dst |-> w, amount |-> a, key |-> Null], "withdraw")

TransferFunds(t, s, d, a, k) ==
  s # d /\ Begin(t, [src |-> s, dst |-> d, amount |-> a, key |-> k], "first")

Goto(t, from, to) ==
  /\ pc[t] = from
  /\ pc' = [pc EXCEPT ![t] = to]
  /\ UNCHANGED <<call, calls>>

\* The body of each is one section under the wallet's lock.
Deposit(t) ==
  LET c == call[t] IN
  /\ Goto(t, "deposit", "idle")
  /\ lock[c.src] = Null
  /\ balance' = [balance EXCEPT ![c.src] = @ + c.amount]
  /\ UNCHANGED <<created, transfers, lock, debits>>

\* Mutant: the balance is not compared with the amount.
Withdraw_Unchecked(t) ==
  LET c == call[t] IN
  /\ Goto(t, "withdraw", "idle")
  /\ lock[c.src] = Null
  /\ balance' = [balance EXCEPT ![c.src] = @ - c.amount]
  /\ UNCHANGED <<created, transfers, lock, debits>>

Withdraw(t) ==
  LET c == call[t] IN
  /\ Goto(t, "withdraw", "idle")
  /\ lock[c.src] = Null
  /\ c.amount <= balance[c.src]
  /\ balance' = [balance EXCEPT ![c.src] = @ - c.amount]
  /\ UNCHANGED <<created, transfers, lock, debits>>

RefuseWithdraw(t) ==
  LET c == call[t] IN
  /\ Goto(t, "withdraw", "idle")
  /\ lock[c.src] = Null
  /\ c.amount > balance[c.src]
  /\ UNCHANGED <<store, lock, debits>>

--------------------------------------------------------------------------------
(* Wallet.transfer_to                                                      *)
AcquireFirst(t) ==
  /\ Goto(t, "first", "second")
  /\ lock[FirstLock(call[t])] = Null
  /\ lock' = [lock EXCEPT ![FirstLock(call[t])] = t]
  /\ UNCHANGED <<store, debits>>

AcquireSecond(t) ==
  /\ Goto(t, "second", "locked")
  /\ lock[SecondLock(call[t])] = Null
  /\ lock' = [lock EXCEPT ![SecondLock(call[t])] = t]
  /\ UNCHANGED <<store, debits>>

\* Mutant: one of the two locks stays taken.
ReleaseBoth_One(t) == lock' = [lock EXCEPT ![FirstLock(call[t])] = Null]

\* Leaving both with blocks.  Releasing never blocks and nothing is written
\* between the two releases, so they are one step with what comes before.
ReleaseBoth(t) ==
  lock' = [lock EXCEPT ![FirstLock(call[t])] = Null, ![SecondLock(call[t])] = Null]

AlreadyProcessed(t) ==
  /\ Goto(t, "locked", "idle")
  /\ call[t].key \in transfers[call[t].src]
  /\ ReleaseBoth(t)
  /\ UNCHANGED <<store, debits>>

RefuseTransfer(t) ==
  /\ Goto(t, "locked", "idle")
  /\ call[t].key \notin transfers[call[t].src]
  /\ call[t].amount > balance[call[t].src]
  /\ ReleaseBoth(t)
  /\ UNCHANGED <<store, debits>>

Credit(t) ==
  LET c == call[t] IN
  /\ Goto(t, "locked", "credited")
  /\ c.key \notin transfers[c.src]
  /\ c.amount <= balance[c.src]
  /\ balance' = [balance EXCEPT ![c.dst] = @ + c.amount]
  /\ transfers' = [transfers EXCEPT ![c.dst] = @ \cup {c.key}]
  /\ UNCHANGED <<created, lock, debits>>

Settle(t) ==
  /\ debits' = [debits EXCEPT ![call[t].src][call[t].key] = @ + 1]
  /\ ReleaseBoth(t)
  /\ UNCHANGED created

\* Mutants: the record is filed under the wallet id; the balance is
\* overwritten instead of reduced.
Debit_FiledByWallet(t) ==
  LET c == call[t] IN
  /\ Goto(t, "credited", "idle")
  /\ balance' = [balance EXCEPT ![c.src] = @ - c.amount]
  /\ transfers' = [transfers EXCEPT ![c.src] = @ \cup {c.src}]
  /\ Settle(t)

Debit(t) ==
  LET c == call[t] IN
  /\ Goto(t, "credited", "idle")
  /\ balance' = [balance EXCEPT ![c.src] = @ - c.amount]
  /\ transfers' = [transfers EXCEPT ![c.src] = @ \cup {c.key}]
  /\ Settle(t)

--------------------------------------------------------------------------------
Arrive(t) ==
  \/ \E w \in Wallets, a \in Amounts : DepositFunds(t, w, a) \/ WithdrawFunds(t, w, a)
  \/ \E s, d \in Wallets, a \in Amounts, k \in Keys : TransferFunds(t, s, d, a, k)

Step(t) ==
  \/ Deposit(t) \/ Withdraw(t) \/ RefuseWithdraw(t)
  \/ AcquireFirst(t) \/ AcquireSecond(t)
  \/ AlreadyProcessed(t) \/ RefuseTransfer(t) \/ Credit(t) \/ Debit(t)

Next ==
  \/ \E w \in Wallets, b \in InitialBalances : CreateWallet(w, b)
  \/ \E t \in Threads : Arrive(t) \/ Step(t)

Spec == Init /\ [][Next]_vars

--------------------------------------------------------------------------------
Waiting(t) == pc[t] \in {"deposit", "withdraw", "first", "second"}
NextLock(t) == IF pc[t] = "second" THEN SecondLock(call[t]) ELSE FirstLock(call[t])
InFlight(w) == {t \in Threads : pc[t] = "credited" /\ call[t].src = w}

\* The locks a thread needs at its place in transfer_to are its own, and no
\* lock is kept by a thread that has left the with blocks.
LocksHeld ==
  \A t \in Threads, w \in Wallets :
    (lock[w] = t) <=>
      \/ pc[t] \in {"second", "locked", "credited"} /\ w = FirstLock(call[t])
      \/ pc[t] \in {"locked", "credited"} /\ w = SecondLock(call[t])

\* A thread that waits for a lock holds only locks of smaller wallet ids, so no
\* circle of transfers waits for itself, whatever the directions of the transfers.
LocksAscend ==
  \A t \in Threads : Waiting(t) => \A w \in Wallets : lock[w] = t => w < NextLock(t)

\* No interleaving of withdrawals and transfers overdraws a wallet: the balance
\* a call compared with its amount is still there when it takes the amount.
NoOverdraft == \A w \in Wallets : balance[w] >= 0

\* However often and wherever a key is retried, and whatever runs meanwhile, it
\* takes money out of a wallet at most once.
DebitedOnce == \A w \in Wallets, k \in Keys : debits[w][k] <= 1

\* A transfer counts as made when it credits: until it debits, the bank has
\* already taken the amount from the source and settled the key there.
BankFunds ==
  [w \in Wallets |-> IF InFlight(w) = {} THEN balance[w]
                     ELSE balance[w] - call[CHOOSE t \in InFlight(w) : TRUE].amount]

BankSettled == [w \in Wallets |-> transfers[w] \cup {call[t].key : t \in InFlight(w)}]

Bank == INSTANCE AtomicBank WITH
          opened <- created, funds <- BankFunds, settled <- BankSettled

\* To everything that takes the wallets' locks the service is AtomicBank.
ImplementsBank == Bank!Spec

\* Every call comes back: no deadlock, and no lock left behind by a return or a
\* raise inside the with blocks.
EveryCallReturns == \A t \in Threads : pc[t] # "idle" ~> pc[t] = "idle"

===============================================================================
