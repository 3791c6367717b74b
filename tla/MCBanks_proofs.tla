----------------------------- MODULE MCBanks_proofs -----------------------------
(***************************************************************************)
(* Theorems about WalletService, and about AccountService,                 *)
(* TransferService, TransferRows and PointsService as MCBanks composes     *)
(* them, for every set of callers, accounts, keys and amounts.             *)
(***************************************************************************)
EXTENDS MCBanks, Sequences, FiniteSetTheorems, TLAPS

--------------------------------------------------------------------------------
(* Wallets.  The inductive invariant of WalletService is IInv: types, what *)
(* each thread's call is, who holds which lock, and what is true of a      *)
(* wallet whose transfer is between its two writes.                        *)
InTransfer(t) == pc[t] \in {"first", "second", "locked", "credited"}

\* A thread inside a call holds one of existing wallets, and a transfer has a
\* key and two different wallets.
CallsSound ==
  \A t \in Threads :
    /\ pc[t] # "idle" => call[t] \in Calls /\ {call[t].src, call[t].dst} \subseteq created
    /\ InTransfer(t) => call[t].src # call[t].dst /\ call[t].key \in Keys

\* Between its two writes a transfer can still be paid for, and its source has
\* not yet recorded the key.
InFlightSound ==
  \A t \in Threads : pc[t] = "credited" =>
    /\ call[t].amount <= balance[call[t].src]
    /\ call[t].key \notin transfers[call[t].src]

\* A debited key is on record at the wallet that was debited.
DebitsRecorded ==
  \A w \in Wallets, k \in Keys : debits[w][k] = 0 \/ (debits[w][k] = 1 /\ k \in transfers[w])

Shape == TypeOK /\ CallsSound
IInv == Shape /\ LocksHeld /\ NoOverdraft /\ InFlightSound /\ DebitsRecorded

--------------------------------------------------------------------------------
\* The parts of a call have the types of its fields.
LEMMA CallParts ==
  ASSUME NEW c \in Calls
  PROVE  c.src \in Wallets /\ c.dst \in Wallets /\ c.amount \in Int /\ c.amount > 0
  <1>1. c.src \in Wallets /\ c.dst \in Wallets /\ c.amount \in Amounts
    BY DEF Calls
  <1>2. c.amount \in Nat /\ c.amount # 0
    BY <1>1, WalletAssumption
  <1> QED BY <1>1, <1>2

\* The two locks of a transfer are those of its two wallets, in the order of ids.
LEMMA LockPair ==
  ASSUME NEW c \in Calls, c.src # c.dst
  PROVE  /\ {FirstLock(c), SecondLock(c)} = {c.src, c.dst}
         /\ FirstLock(c) \in Wallets /\ SecondLock(c) \in Wallets
         /\ FirstLock(c) < SecondLock(c)
         /\ FirstLock(c) # SecondLock(c)
  <1>1. c.src \in Wallets /\ c.dst \in Wallets
    BY CallParts
  <1>2. c.src \in Nat /\ c.dst \in Nat
    BY <1>1, WalletAssumption
  <1>3. CASE c.src < c.dst
    BY <1>1, <1>2, <1>3 DEF FirstLock, SecondLock
  <1>4. CASE c.dst < c.src
    BY <1>1, <1>2, <1>4 DEF FirstLock, SecondLock
  <1> QED BY <1>2, <1>3, <1>4

\* Adding to a balance, taking from it and counting a debit keep the types.
LEMMA BalanceTyped ==
  ASSUME NEW f \in [Wallets -> Int], NEW w \in Wallets, NEW a \in Int
  PROVE  /\ [f EXCEPT ![w] = @ + a] \in [Wallets -> Int]
         /\ [f EXCEPT ![w] = @ - a] \in [Wallets -> Int]
  OBVIOUS

LEMMA DebitCounted ==
  ASSUME NEW f \in [Wallets -> [Keys -> Nat]], NEW w \in Wallets, NEW k \in Keys
  PROVE  [f EXCEPT ![w][k] = @ + 1] \in [Wallets -> [Keys -> Nat]]
  OBVIOUS

\* Every way into the service is Begin with a sound call.
LEMMA ArriveBegins ==
  ASSUME NEW t \in Threads, Arrive(t)
  PROVE  \E c \in Calls, label \in {"deposit", "withdraw", "first"} :
           /\ Begin(t, c, label)
           /\ label = "first" => c.src # c.dst /\ c.key \in Keys
  <1>1. ASSUME NEW w \in Wallets, NEW a \in Amounts, DepositFunds(t, w, a) \/ WithdrawFunds(t, w, a)
        PROVE  \E c \in Calls, label \in {"deposit", "withdraw"} : Begin(t, c, label)
    BY <1>1 DEF DepositFunds, WithdrawFunds, Calls
  <1>2. ASSUME NEW s \in Wallets, NEW d \in Wallets, NEW a \in Amounts, NEW k \in Keys,
               TransferFunds(t, s, d, a, k)
        PROVE  \E c \in Calls : Begin(t, c, "first") /\ c.src # c.dst /\ c.key \in Keys
    <2> DEFINE c == [src |-> s, dst |-> d, amount |-> a, key |-> k]
    <2>1. c \in Calls /\ Begin(t, c, "first") /\ c.src # c.dst /\ c.key \in Keys
      BY <1>2 DEF TransferFunds, Calls
    <2> QED BY <2>1
  <1> QED BY <1>1, <1>2 DEF Arrive

LEMMA InitSound == Init => IInv
  BY WalletAssumption
  DEF Init, IInv, Shape, TypeOK, CallsSound, InTransfer, LocksHeld, NoOverdraft,
      InFlightSound, DebitsRecorded

\* Types and calls do not depend on who holds which lock.
LEMMA ShapeKept == Shape /\ [Next]_vars => Shape'
  <1> SUFFICES ASSUME Shape, [Next]_vars PROVE Shape'
    OBVIOUS
  <1> USE WalletAssumption DEF Shape, TypeOK, CallsSound, InTransfer
  <1>1. CASE UNCHANGED vars
    BY <1>1 DEF vars
  <1>2. ASSUME NEW w \in Wallets, NEW b \in InitialBalances, CreateWallet(w, b)
        PROVE  Shape'
    BY <1>2 DEF CreateWallet, threadVars
  <1>3. ASSUME NEW t \in Threads, Arrive(t) PROVE Shape'
    <2>1. PICK c \in Calls, label \in {"deposit", "withdraw", "first"} :
            /\ Begin(t, c, label)
            /\ label = "first" => c.src # c.dst /\ c.key \in Keys
      BY <1>3, ArriveBegins
    <2> QED BY <2>1 DEF Begin, store
  <1>4. ASSUME NEW t \in Threads, Step(t) PROVE Shape'
    <2>1. pc[t] # "idle" /\ call[t] \in Calls /\ call' = call /\ created' = created
      BY <1>4 DEF Step, Deposit, Withdraw, RefuseWithdraw, AcquireFirst, AcquireSecond,
        AlreadyProcessed, RefuseTransfer, Credit, Debit, Settle, Goto, store
    <2>2. /\ call[t].src \in Wallets /\ call[t].dst \in Wallets
          /\ call[t].amount \in Int
      BY <2>1, CallParts
    <2>3. InTransfer(t) => /\ FirstLock(call[t]) \in Wallets /\ SecondLock(call[t]) \in Wallets
                           /\ call[t].key \in Keys
      BY <2>1, LockPair
    <2>4. TypeOK'
      <3>1. CASE Deposit(t) \/ Withdraw(t) \/ RefuseWithdraw(t)
        BY <2>1, <2>2, <3>1 DEF Deposit, Withdraw, RefuseWithdraw, Goto, store
      <3>2. CASE AcquireFirst(t) \/ AcquireSecond(t)
        BY <2>1, <2>3, <3>2 DEF AcquireFirst, AcquireSecond, Goto, store
      <3>3. CASE AlreadyProcessed(t) \/ RefuseTransfer(t)
        BY <2>1, <2>3, <3>3 DEF AlreadyProcessed, RefuseTransfer, ReleaseBoth, Goto, store
      <3>4. CASE Credit(t)
        <4>1. balance' \in [Wallets -> Int]
          BY <2>2, <3>4, BalanceTyped DEF Credit
        <4>2. transfers' \in [Wallets -> SUBSET Keys]
          BY <2>2, <2>3, <3>4 DEF Credit, Goto
        <4>3. pc' \in [Threads -> {"idle", "deposit", "withdraw", "first", "second",
                                   "locked", "credited"}]
          BY <3>4 DEF Credit, Goto
        <4> QED BY <3>4, <4>1, <4>2, <4>3 DEF Credit, Goto
      <3>5. CASE Debit(t)
        <4>1. balance' \in [Wallets -> Int]
          BY <2>2, <3>5, BalanceTyped DEF Debit, Settle
        <4>2. transfers' \in [Wallets -> SUBSET Keys]
          BY <2>2, <2>3, <3>5 DEF Debit, Settle, Goto
        <4>3. debits' \in [Wallets -> [Keys -> Nat]]
          BY <2>2, <2>3, <3>5, DebitCounted DEF Debit, Settle, Goto
        <4>4. pc' \in [Threads -> {"idle", "deposit", "withdraw", "first", "second",
                                   "locked", "credited"}]
          BY <3>5 DEF Debit, Settle, Goto
        <4>5. lock' \in [Wallets -> Threads \cup {Null}]
          BY <2>3, <3>5 DEF Debit, Settle, ReleaseBoth, Goto
        <4> QED BY <3>5, <4>1, <4>2, <4>3, <4>4, <4>5 DEF Debit, Settle, Goto
      <3> QED BY <1>4, <3>1, <3>2, <3>3, <3>4, <3>5 DEF Step
    <2>5. CallsSound'
      <3>1. PICK q \in {"idle", "second", "locked", "credited"} :
              pc' = [pc EXCEPT ![t] = q] /\ (q # "idle" => InTransfer(t))
        BY <1>4 DEF Step, Deposit, Withdraw, RefuseWithdraw, AcquireFirst, AcquireSecond,
          AlreadyProcessed, RefuseTransfer, Credit, Debit, Settle, Goto
      <3> QED BY <2>1, <3>1
    <2> QED BY <2>4, <2>5
  <1> QED BY <1>1, <1>2, <1>3, <1>4 DEF Next

\* A lock is held exactly through the with block that took it.
LEMMA LocksKept == Shape /\ LocksHeld /\ [Next]_vars => LocksHeld'
  <1> SUFFICES ASSUME Shape, LocksHeld, [Next]_vars PROVE LocksHeld'
    OBVIOUS
  <1> USE WalletAssumption DEF Shape, TypeOK, CallsSound, InTransfer, LocksHeld
  <1>1. CASE UNCHANGED <<lock, pc, call>>
    BY <1>1 DEF FirstLock, SecondLock
  <1>2. ASSUME NEW t \in Threads, Arrive(t) PROVE LocksHeld'
    <2>1. PICK c \in Calls, label \in {"deposit", "withdraw", "first"} : Begin(t, c, label)
      BY <1>2, ArriveBegins
    <2>2. CASE UNCHANGED <<pc, call>>
      BY <1>1, <2>1, <2>2 DEF Begin
    <2>3. CASE pc' = [pc EXCEPT ![t] = label] /\ call' = [call EXCEPT ![t] = c]
      BY <2>1, <2>3 DEF Begin, FirstLock, SecondLock
    <2> QED BY <2>1, <2>2, <2>3 DEF Begin
  <1>3. ASSUME NEW t \in Threads, Step(t) PROVE LocksHeld'
    <2>1. InTransfer(t) => /\ FirstLock(call[t]) \in Wallets /\ SecondLock(call[t]) \in Wallets
                           /\ FirstLock(call[t]) # SecondLock(call[t])
      <3>1. InTransfer(t) => call[t] \in Calls /\ call[t].src # call[t].dst
        OBVIOUS
      <3> QED BY <3>1, LockPair
    <2>2. CASE Deposit(t) \/ Withdraw(t) \/ RefuseWithdraw(t)
      BY <2>2 DEF Deposit, Withdraw, RefuseWithdraw, Goto, FirstLock, SecondLock
    <2>3. CASE AcquireFirst(t)
      BY <2>1, <2>3 DEF AcquireFirst, Goto
    <2>4. CASE AcquireSecond(t)
      BY <2>1, <2>4 DEF AcquireSecond, Goto
    <2>5. CASE AlreadyProcessed(t) \/ RefuseTransfer(t)
      BY <2>1, <2>5 DEF AlreadyProcessed, RefuseTransfer, ReleaseBoth, Goto
    <2>6. CASE Credit(t)
      BY <2>1, <2>6 DEF Credit, Goto
    <2>7. CASE Debit(t)
      BY <2>1, <2>7 DEF Debit, Settle, ReleaseBoth, Goto
    <2> QED BY <1>3, <2>2, <2>3, <2>4, <2>5, <2>6, <2>7 DEF Step
  <1> QED
    BY <1>1, <1>2, <1>3 DEF Next, vars, CreateWallet, threadVars

\* Between its two writes a thread holds the locks of both wallets.
LEMMA BothHeld ==
  ASSUME Shape, LocksHeld, NEW t \in Threads, pc[t] \in {"locked", "credited"}
  PROVE  lock[call[t].src] = t /\ lock[call[t].dst] = t
  <1>1. call[t] \in Calls /\ call[t].src # call[t].dst
    BY DEF Shape, CallsSound, InTransfer
  <1>2. /\ FirstLock(call[t]) \in Wallets /\ SecondLock(call[t]) \in Wallets
        /\ {FirstLock(call[t]), SecondLock(call[t])} = {call[t].src, call[t].dst}
    BY <1>1, LockPair
  <1>3. lock[FirstLock(call[t])] = t /\ lock[SecondLock(call[t])] = t
    BY <1>2 DEF LocksHeld
  <1> QED BY <1>2, <1>3

\* What a thread compared under the locks is still so when it acts on it.
LEMMA MoneyKept ==
  IInv /\ [Next]_vars => (NoOverdraft /\ InFlightSound /\ DebitsRecorded)'
  <1> SUFFICES ASSUME IInv, [Next]_vars
               PROVE  NoOverdraft' /\ InFlightSound' /\ DebitsRecorded'
    OBVIOUS
  <1> DEFINE Money == NoOverdraft /\ InFlightSound /\ DebitsRecorded
  <1> USE WalletAssumption
  <1>1. /\ created \subseteq Wallets
        /\ balance \in [Wallets -> Int]
        /\ transfers \in [Wallets -> SUBSET Keys]
        /\ pc \in [Threads -> {"idle", "deposit", "withdraw", "first", "second",
                               "locked", "credited"}]
        /\ debits \in [Wallets -> [Keys -> Nat]]
    BY DEF IInv, Shape, TypeOK
  <1>2. ASSUME NEW t \in Threads, pc[t] # "idle"
        PROVE  /\ call[t] \in Calls
               /\ call[t].src \in created /\ call[t].dst \in created
               /\ call[t].src \in Wallets /\ call[t].dst \in Wallets
               /\ call[t].amount \in Int /\ call[t].amount > 0
    BY <1>1, <1>2, CallParts DEF IInv, Shape, CallsSound
  <1>3. ASSUME NEW t \in Threads, pc[t] = "credited"
        PROVE  lock[call[t].src] = t
    BY <1>3, BothHeld DEF IInv
  <1>4. ASSUME UNCHANGED <<balance, transfers, debits>>,
               \A u \in Threads : pc'[u] = "credited" => pc[u] = "credited" /\ call'[u] = call[u]
        PROVE  Money'
    BY <1>4 DEF IInv, NoOverdraft, InFlightSound, DebitsRecorded
  <1>5. CASE UNCHANGED vars
    BY <1>4, <1>5 DEF vars
  <1>6. ASSUME NEW w \in Wallets, NEW b \in InitialBalances, CreateWallet(w, b)
        PROVE  Money'
    <2>1. b \in Int /\ b >= 0
      OBVIOUS
    <2>2. \A u \in Threads : pc[u] = "credited" => call[u].src # w
      BY <1>2, <1>6 DEF CreateWallet
    <2>3. NoOverdraft'
      BY <1>1, <1>6, <2>1 DEF IInv, NoOverdraft, CreateWallet
    <2>4. InFlightSound'
      BY <1>1, <1>2, <1>6, <2>2 DEF IInv, InFlightSound, CreateWallet, threadVars
    <2>5. DebitsRecorded'
      BY <1>6 DEF IInv, DebitsRecorded, CreateWallet
    <2> QED BY <2>3, <2>4, <2>5
  <1>7. ASSUME NEW t \in Threads, Arrive(t) PROVE Money'
    <2>1. PICK c \in Calls, label \in {"deposit", "withdraw", "first"} : Begin(t, c, label)
      BY <1>7, ArriveBegins
    <2>2. \A u \in Threads : pc'[u] = "credited" => pc[u] = "credited" /\ call'[u] = call[u]
      <3>1. CASE UNCHANGED <<pc, call>>
        BY <3>1
      <3>2. CASE pc' = [pc EXCEPT ![t] = label] /\ call' = [call EXCEPT ![t] = c]
        <4> SUFFICES ASSUME NEW u \in Threads, pc'[u] = "credited"
                     PROVE  u # t
          BY <1>1, <3>2 DEF IInv, Shape, TypeOK
        <4> QED BY <1>1, <3>2
      <3> QED BY <2>1, <3>1, <3>2 DEF Begin
    <2> QED BY <1>4, <2>1, <2>2 DEF Begin, store
  <1>8. ASSUME NEW t \in Threads, Step(t) PROVE Money'
    <2> DEFINE c == call[t]
    <2>1. pc[t] # "idle" /\ call' = call
      BY <1>8 DEF Step, Deposit, Withdraw, RefuseWithdraw, AcquireFirst, AcquireSecond,
        AlreadyProcessed, RefuseTransfer, Credit, Debit, Settle, Goto
    <2>2. /\ c.src \in Wallets /\ c.dst \in Wallets /\ c.amount \in Int /\ c.amount > 0
      BY <1>2, <2>1
    <2>3. CASE Deposit(t) \/ Withdraw(t)
      <3>1. \A u \in Threads : pc'[u] = "credited" => pc[u] = "credited" /\ call[u].src # c.src
        BY <1>1, <1>3, <2>3 DEF Deposit, Withdraw, Goto
      <3>2. NoOverdraft'
        BY <1>1, <2>2, <2>3 DEF IInv, NoOverdraft, Deposit, Withdraw
      <3>3. InFlightSound'
        BY <1>1, <1>2, <2>1, <2>2, <2>3, <3>1 DEF IInv, InFlightSound, Deposit, Withdraw
      <3>4. DebitsRecorded'
        BY <2>3 DEF IInv, DebitsRecorded, Deposit, Withdraw
      <3> QED BY <3>2, <3>3, <3>4
    <2>4. CASE RefuseWithdraw(t) \/ AcquireFirst(t) \/ AcquireSecond(t)
               \/ AlreadyProcessed(t) \/ RefuseTransfer(t)
      BY <1>1, <1>4, <2>4 DEF RefuseWithdraw, AcquireFirst, AcquireSecond, AlreadyProcessed,
        RefuseTransfer, Goto, store
    <2>5. CASE Credit(t)
      <3>1. c.src # c.dst /\ lock[c.dst] = t
        BY <2>5, BothHeld DEF IInv, Shape, CallsSound, InTransfer, Credit, Goto
      <3>2. \A u \in Threads : pc'[u] = "credited" =>
              u = t \/ (pc[u] = "credited" /\ call[u].src # c.dst)
        BY <1>1, <1>3, <2>5, <3>1 DEF Credit, Goto
      <3>3. NoOverdraft'
        BY <1>1, <2>2, <2>5 DEF IInv, NoOverdraft, Credit
      <3>4. InFlightSound'
        BY <1>1, <1>2, <2>1, <2>2, <2>5, <3>1, <3>2 DEF IInv, InFlightSound, Credit
      <3>5. DebitsRecorded'
        BY <1>1, <2>2, <2>5 DEF IInv, DebitsRecorded, Credit
      <3> QED BY <3>3, <3>4, <3>5
    <2>6. CASE Debit(t)
      <3>1. pc[t] = "credited" /\ lock[c.src] = t
        BY <1>3, <2>6 DEF Debit, Settle, Goto
      <3>2. c.amount <= balance[c.src] /\ c.key \notin transfers[c.src]
        BY <3>1 DEF IInv, InFlightSound
      <3>3. \A u \in Threads : pc'[u] = "credited" => pc[u] = "credited" /\ call[u].src # c.src
        BY <1>1, <1>3, <2>6, <3>1 DEF Debit, Settle, Goto
      <3>4. NoOverdraft'
        BY <1>1, <2>2, <2>6, <3>2 DEF IInv, NoOverdraft, Debit, Settle
      <3>5. InFlightSound'
        BY <1>1, <1>2, <2>1, <2>2, <2>6, <3>3 DEF IInv, InFlightSound, Debit, Settle
      <3>6. DebitsRecorded'
        BY <1>1, <2>2, <2>6, <3>2 DEF IInv, DebitsRecorded, Debit, Settle
      <3> QED BY <3>4, <3>5, <3>6
    <2> QED BY <1>8, <2>3, <2>4, <2>5, <2>6 DEF Step
  <1> QED BY <1>5, <1>6, <1>7, <1>8 DEF Next

--------------------------------------------------------------------------------
\* IInv is inductive: it holds of every reachable state of the service.
THEOREM Invariance == Spec => []IInv
  <1>1. IInv /\ [Next]_vars => IInv'
    BY ShapeKept, LocksKept, MoneyKept DEF IInv
  <1> QED BY <1>1, InitSound, PTL DEF Spec

\* The variables have their types in every reachable state.
THEOREM TypeCorrect == Spec => []TypeOK
  <1>1. IInv => TypeOK
    BY DEF IInv, Shape
  <1> QED BY <1>1, Invariance, PTL

\* Every lock is held by the thread whose with block took it, and by nobody else.
THEOREM LockDiscipline == Spec => []LocksHeld
  <1>1. IInv => LocksHeld
    BY DEF IInv
  <1> QED BY <1>1, Invariance, PTL

\* No circle of threads waits for each other's locks: locks ascend.
THEOREM NoLockCycle == Spec => []LocksAscend
  <1>1. ASSUME IInv, NEW t \in Threads, Waiting(t), NEW w \in Wallets, lock[w] = t
        PROVE  w < NextLock(t)
    <2>1. pc[t] = "second" /\ w = FirstLock(call[t])
      BY <1>1 DEF IInv, LocksHeld, Waiting
    <2>2. call[t] \in Calls /\ call[t].src # call[t].dst
      <3>1. pc[t] # "idle" /\ InTransfer(t)
        BY <2>1 DEF InTransfer
      <3> QED BY <1>1, <3>1 DEF IInv, Shape, CallsSound
    <2> QED BY <2>1, <2>2, LockPair DEF NextLock
  <1>2. IInv => LocksAscend
    BY <1>1 DEF LocksAscend
  <1> QED BY <1>2, Invariance, PTL

\* No wallet is ever overdrawn.
THEOREM NeverOverdrawn == Spec => []NoOverdraft
  <1>1. IInv => NoOverdraft
    BY DEF IInv
  <1> QED BY <1>1, Invariance, PTL

\* A key takes money out of a wallet at most once, however it is retried.
THEOREM IdempotentDebits == Spec => []DebitedOnce
  <1>1. IInv => DebitedOnce
    BY DEF IInv, DebitsRecorded, DebitedOnce
  <1> QED BY <1>1, Invariance, PTL

--------------------------------------------------------------------------------
\* A wallet whose lock is free or held elsewhere is not the source of a transfer
\* between its two writes; the source of one has that transfer only.
LEMMA InFlightExclusive ==
  ASSUME Shape, LocksHeld, NEW w \in Wallets
  PROVE  /\ \A t \in Threads : lock[w] # t => t \notin InFlight(w)
         /\ \A t \in Threads : pc[t] = "credited" /\ call[t].src = w => InFlight(w) = {t}
         /\ lock[w] = Null => InFlight(w) = {}
         /\ w \notin created => InFlight(w) = {}
  <1>1. \A t \in Threads : t \in InFlight(w) => lock[w] = t
    BY BothHeld DEF InFlight
  <1>2. \A t \in Threads : t \in InFlight(w) => w \in created
    BY DEF InFlight, Shape, CallsSound
  <1> QED BY <1>1, <1>2, WalletAssumption DEF InFlight

\* Steps that write no wallet and leave the set of transfers between their two
\* writes alone are invisible to the bank.
LEMMA BankStutters ==
  ASSUME Shape, UNCHANGED <<created, balance, transfers>>,
         \A t \in Threads : /\ pc'[t] = "credited" <=> pc[t] = "credited"
                            /\ pc[t] = "credited" => call'[t] = call[t]
  PROVE  UNCHANGED Bank!bankVars
  <1>1. \A t \in Threads : pc[t] = "credited" => call'[t] = call[t]
    OBVIOUS
  <1>2. \A w \in Wallets : InFlight(w)' = InFlight(w)
    <2> SUFFICES ASSUME NEW w \in Wallets, NEW t \in Threads
                 PROVE  t \in InFlight(w)' <=> t \in InFlight(w)
      BY DEF InFlight
    <2>1. CASE pc[t] = "credited"
      BY <1>1, <2>1 DEF InFlight
    <2>2. CASE pc[t] # "credited"
      BY <2>2 DEF InFlight
    <2> QED BY <2>1, <2>2
  <1>3. \A w \in Wallets : BankSettled'[w] = BankSettled[w]
    <2> SUFFICES ASSUME NEW w \in Wallets PROVE BankSettled'[w] = BankSettled[w]
      OBVIOUS
    <2>1. \A t \in InFlight(w) : call'[t].key = call[t].key
      BY <1>1 DEF InFlight
    <2> QED BY <1>2, <2>1 DEF BankSettled
  <1>4. \A w \in Wallets : BankFunds'[w] = BankFunds[w]
    <2> SUFFICES ASSUME NEW w \in Wallets, InFlight(w) # {} PROVE BankFunds'[w] = BankFunds[w]
      BY <1>2 DEF BankFunds
    <2> DEFINE t == CHOOSE u \in InFlight(w) : TRUE
    <2>1. t \in InFlight(w)
      OBVIOUS
    <2>2. call'[t].amount = call[t].amount
      BY <1>1, <2>1 DEF InFlight
    <2>3. BankFunds[w] = balance[w] - call[t].amount
      BY DEF BankFunds
    <2>4. BankFunds'[w] = balance'[w] - call'[t].amount
      BY <1>2 DEF BankFunds
    <2> QED BY <2>2, <2>3, <2>4
  <1> QED BY <1>3, <1>4 DEF Bank!bankVars, BankSettled, BankFunds

\* What the bank sees of one wallet.
BankView ==
  \A w \in Wallets :
    /\ InFlight(w) = {} => BankFunds[w] = balance[w] /\ BankSettled[w] = transfers[w]
    /\ \A t \in Threads : pc[t] = "credited" /\ call[t].src = w =>
         /\ BankFunds[w] = balance[w] - call[t].amount
         /\ BankSettled[w] = transfers[w] \cup {call[t].key}

LEMMA BankSees == Shape /\ LocksHeld => BankView
  <1> SUFFICES ASSUME Shape, LocksHeld, NEW w \in Wallets
               PROVE  BankView!(w)
    BY DEF BankView
  <1>1. ASSUME InFlight(w) = {}
        PROVE  BankFunds[w] = balance[w] /\ BankSettled[w] = transfers[w]
    BY <1>1 DEF BankFunds, BankSettled, Shape, TypeOK
  <1>2. ASSUME NEW t \in Threads, pc[t] = "credited", call[t].src = w
        PROVE  /\ BankFunds[w] = balance[w] - call[t].amount
               /\ BankSettled[w] = transfers[w] \cup {call[t].key}
    <2>1. InFlight(w) = {t}
      BY <1>2, InFlightExclusive
    <2>2. (CHOOSE u \in InFlight(w) : TRUE) = t
      BY <2>1
    <2>3. BankFunds[w] = balance[w] - call[t].amount
      BY <2>1, <2>2 DEF BankFunds
    <2>4. {call[u].key : u \in InFlight(w)} = {call[t].key}
      BY <2>1
    <2> QED BY <2>3, <2>4 DEF BankSettled
  <1> QED BY <1>1, <1>2

\* A write to one wallet that no transfer is in the middle of debiting is the
\* same write to the bank.
LEMMA BankWrites ==
  ASSUME Shape, LocksHeld, BankView, BankView', NEW w \in Wallets, NEW b,
         InFlight(w) = {},
         \A t \in Threads : pc'[t] = "credited" <=> pc[t] = "credited",
         UNCHANGED <<call, transfers>>,
         balance' = [balance EXCEPT ![w] = b]
  PROVE  BankFunds' = [BankFunds EXCEPT ![w] = b] /\ UNCHANGED BankSettled
  <1>1. \A v \in Wallets : InFlight(v)' = InFlight(v)
    BY DEF InFlight
  <1>2. ASSUME NEW v \in Wallets
        PROVE  /\ BankFunds'[v] = IF v = w THEN b ELSE BankFunds[v]
               /\ BankSettled'[v] = BankSettled[v]
    <2>1. balance'[v] = IF v = w THEN b ELSE balance[v]
      BY DEF Shape, TypeOK
    <2>2. CASE InFlight(v) = {}
      BY <1>1, <2>1, <2>2 DEF BankView
    <2>3. ASSUME NEW t \in Threads, pc[t] = "credited", call[t].src = v
          PROVE  BankFunds'[v] = BankFunds[v] /\ BankSettled'[v] = BankSettled[v] /\ v # w
      <3>1. v # w
        BY <2>3 DEF InFlight
      <3>2. pc'[t] = "credited" /\ call'[t] = call[t]
        BY <2>3
      <3>3. BankFunds[v] = balance[v] - call[t].amount /\ BankSettled[v] = transfers[v] \cup {call[t].key}
        BY <2>3 DEF BankView
      <3>4. BankFunds'[v] = balance'[v] - call[t].amount /\ BankSettled'[v] = transfers'[v] \cup {call[t].key}
        BY <2>3, <3>2 DEF BankView
      <3> QED BY <2>1, <3>1, <3>3, <3>4
    <2> QED BY <2>2, <2>3 DEF InFlight
  <1> QED BY <1>2 DEF BankFunds, BankSettled

\* Every step of the service is a step of the bank or invisible to it.
LEMMA BankStep ==
  ASSUME IInv, IInv', [Next]_vars
  PROVE  [Bank!Next]_(Bank!bankVars)
  <1> USE WalletAssumption
  <1>1. Shape /\ LocksHeld /\ BankView
    BY BankSees DEF IInv
  <1>2. BankView'
    <2>1. (Shape /\ LocksHeld)'
      BY DEF IInv
    <2> QED BY <2>1, BankSees, PTL
  <1>3. CASE UNCHANGED vars
    BY <1>1, <1>3, BankStutters DEF vars
  <1>4. ASSUME NEW w \in Wallets, NEW b \in InitialBalances, CreateWallet(w, b)
        PROVE  Bank!Open(w, b)
    <2>1. InFlight(w) = {}
      BY <1>1, <1>4, InFlightExclusive DEF CreateWallet
    <2>2. BankFunds' = [BankFunds EXCEPT ![w] = b] /\ UNCHANGED BankSettled
      BY <1>1, <1>2, <1>4, <2>1, BankWrites DEF CreateWallet, threadVars
    <2> QED BY <1>4, <2>2 DEF CreateWallet, Bank!Open
  <1>5. ASSUME NEW t \in Threads, Arrive(t) PROVE UNCHANGED Bank!bankVars
    <2>1. PICK c \in Calls, label \in {"deposit", "withdraw", "first"} : Begin(t, c, label)
      BY <1>5, ArriveBegins
    <2>2. ASSUME NEW u \in Threads
          PROVE  /\ pc'[u] = "credited" <=> pc[u] = "credited"
                 /\ pc[u] = "credited" => call'[u] = call[u]
      <3>1. CASE UNCHANGED <<pc, call>>
        BY <3>1
      <3>2. CASE pc' = [pc EXCEPT ![t] = label] /\ call' = [call EXCEPT ![t] = c]
        <4>1. pc[t] = "idle" /\ pc'[t] = label /\ label # "credited"
          BY <1>1, <2>1, <3>2 DEF Begin, Shape, TypeOK
        <4>2. u # t => pc'[u] = pc[u] /\ call'[u] = call[u]
          BY <1>1, <3>2 DEF Shape, TypeOK
        <4> QED BY <4>1, <4>2
      <3> QED BY <2>1, <3>1, <3>2 DEF Begin
    <2>3. UNCHANGED <<created, balance, transfers>>
      BY <2>1 DEF Begin, store
    <2> QED BY <1>1, <2>2, <2>3, BankStutters
  <1>6. ASSUME NEW t \in Threads, Step(t)
        PROVE  Bank!Next \/ UNCHANGED Bank!bankVars
    <2> DEFINE c == call[t]
    <2>1. pc[t] # "idle" /\ call' = call
      BY <1>6 DEF Step, Deposit, Withdraw, RefuseWithdraw, AcquireFirst, AcquireSecond,
        AlreadyProcessed, RefuseTransfer, Credit, Debit, Settle, Goto
    <2>2. /\ c \in Calls /\ c.src \in Wallets /\ c.dst \in Wallets
          /\ c.src \in created /\ c.dst \in created
      BY <1>1, <2>1, CallParts DEF Shape, CallsSound
    <2>3. c.amount \in Amounts
      BY <2>2 DEF Calls
    <2>4. ASSUME NEW v \in Wallets
          PROVE  /\ InFlight(v) = {} \/ \E u \in Threads : pc[u] = "credited" /\ call[u].src = v
                 /\ lock[v] = t /\ pc[t] # "credited" => InFlight(v) = {}
                 /\ lock[v] = Null => InFlight(v) = {}
      <3>1. lock[v] = t /\ pc[t] # "credited" => InFlight(v) = {}
        BY <1>1, InFlightExclusive DEF InFlight
      <3> QED BY <1>1, <3>1, InFlightExclusive DEF InFlight
    <2>5. CASE Deposit(t)
      <3>1. InFlight(c.src) = {} /\ BankFunds[c.src] = balance[c.src]
        BY <1>1, <2>2, <2>4, <2>5 DEF Deposit, BankView
      <3>2. \A u \in Threads : pc'[u] = "credited" <=> pc[u] = "credited"
        BY <1>1, <2>5 DEF Deposit, Goto, Shape, TypeOK
      <3>3. BankFunds' = [BankFunds EXCEPT ![c.src] = balance[c.src] + c.amount] /\ UNCHANGED BankSettled
        BY <1>1, <1>2, <2>1, <2>2, <2>5, <3>1, <3>2, BankWrites DEF Deposit, Goto
      <3>4. BankFunds' = [BankFunds EXCEPT ![c.src] = @ + c.amount]
        BY <3>1, <3>3
      <3>5. Bank!Deposit(c.src, c.amount)
        BY <2>2, <2>5, <3>3, <3>4 DEF Bank!Deposit, Deposit
      <3> QED BY <2>2, <2>3, <3>5 DEF Bank!Next, Bank!OpenOrTransfer
    <2>6. CASE Withdraw(t)
      <3>1. InFlight(c.src) = {} /\ BankFunds[c.src] = balance[c.src]
        BY <1>1, <2>2, <2>4, <2>6 DEF Withdraw, BankView
      <3>2. \A u \in Threads : pc'[u] = "credited" <=> pc[u] = "credited"
        BY <1>1, <2>6 DEF Withdraw, Goto, Shape, TypeOK
      <3>3. BankFunds' = [BankFunds EXCEPT ![c.src] = balance[c.src] - c.amount] /\ UNCHANGED BankSettled
        BY <1>1, <1>2, <2>1, <2>2, <2>6, <3>1, <3>2, BankWrites DEF Withdraw, Goto
      <3>4. BankFunds' = [BankFunds EXCEPT ![c.src] = @ - c.amount]
        BY <3>1, <3>3
      <3>5. Bank!Withdraw(c.src, c.amount)
        BY <2>2, <2>6, <3>1, <3>3, <3>4 DEF Bank!Withdraw, Withdraw
      <3> QED BY <2>2, <2>3, <3>5 DEF Bank!Next, Bank!OpenOrTransfer
    <2>7. CASE RefuseWithdraw(t) \/ AcquireFirst(t) \/ AcquireSecond(t)
               \/ AlreadyProcessed(t) \/ RefuseTransfer(t)
      <3>1. \A u \in Threads : pc'[u] = "credited" <=> pc[u] = "credited"
        BY <1>1, <2>7 DEF RefuseWithdraw, AcquireFirst, AcquireSecond, AlreadyProcessed,
          RefuseTransfer, Goto, Shape, TypeOK
      <3>2. UNCHANGED <<created, balance, transfers>>
        BY <2>7 DEF RefuseWithdraw, AcquireFirst, AcquireSecond, AlreadyProcessed,
          RefuseTransfer, store
      <3> QED BY <1>1, <2>1, <3>1, <3>2, BankStutters
    <2>8. CASE Credit(t)
      <3>1. /\ pc[t] = "locked" /\ pc' = [pc EXCEPT ![t] = "credited"]
            /\ c.src # c.dst /\ c.key \in Keys
            /\ lock[c.src] = t /\ lock[c.dst] = t
        BY <1>1, <2>8, BothHeld DEF Credit, Goto, Shape, CallsSound, InTransfer
      <3>2. InFlight(c.src) = {} /\ InFlight(c.dst) = {}
        BY <2>2, <2>4, <3>1
      <3>3. pc'[t] = "credited" /\ \A u \in Threads : u # t => pc'[u] = pc[u]
        BY <1>1, <3>1 DEF Shape, TypeOK
      <3>4. /\ BankFunds'[c.src] = BankFunds[c.src] - c.amount
            /\ BankSettled'[c.src] = BankSettled[c.src] \cup {c.key}
        <4>1. balance'[c.src] = balance[c.src] /\ transfers'[c.src] = transfers[c.src]
          BY <1>1, <2>2, <2>8, <3>1 DEF Credit, Shape, TypeOK
        <4>2. BankFunds[c.src] = balance[c.src] /\ BankSettled[c.src] = transfers[c.src]
          BY <1>1, <2>2, <3>2 DEF BankView
        <4>3. /\ BankFunds'[c.src] = balance'[c.src] - c.amount
              /\ BankSettled'[c.src] = transfers'[c.src] \cup {c.key}
          BY <1>2, <2>1, <2>2, <3>3 DEF BankView
        <4> QED BY <4>1, <4>2, <4>3
      <3>5. /\ BankFunds'[c.dst] = BankFunds[c.dst] + c.amount
            /\ BankSettled'[c.dst] = BankSettled[c.dst] \cup {c.key}
        <4>1. /\ balance'[c.dst] = balance[c.dst] + c.amount
              /\ transfers'[c.dst] = transfers[c.dst] \cup {c.key}
          BY <1>1, <2>2, <2>8 DEF Credit, Shape, TypeOK
        <4>2. BankFunds[c.dst] = balance[c.dst] /\ BankSettled[c.dst] = transfers[c.dst]
          BY <1>1, <2>2, <3>2 DEF BankView
        <4>3. \A v \in Wallets : v = c.dst => InFlight(v)' = {}
          BY <2>1, <3>1, <3>2, <3>3 DEF InFlight
        <4>4. BankFunds'[c.dst] = balance'[c.dst] /\ BankSettled'[c.dst] = transfers'[c.dst]
          BY <1>2, <2>2, <4>3 DEF BankView
        <4> QED BY <4>1, <4>2, <4>4
      <3>6. ASSUME NEW v \in Wallets, v # c.src, v # c.dst
            PROVE  BankFunds'[v] = BankFunds[v] /\ BankSettled'[v] = BankSettled[v]
        <4>1. balance'[v] = balance[v] /\ transfers'[v] = transfers[v]
          BY <1>1, <2>8, <3>6 DEF Credit, Shape, TypeOK
        <4>2. CASE InFlight(v) = {}
          <5>1. InFlight(v)' = {}
            BY <2>1, <3>3, <3>6, <4>2 DEF InFlight
          <5> QED BY <1>1, <1>2, <4>1, <4>2, <5>1 DEF BankView
        <4>3. ASSUME NEW u \in Threads, pc[u] = "credited", call[u].src = v
              PROVE  BankFunds'[v] = BankFunds[v] /\ BankSettled'[v] = BankSettled[v]
          <5>1. pc'[u] = "credited" /\ call'[u] = call[u]
            BY <2>1, <3>3, <4>3
          <5>2. BankFunds[v] = balance[v] - call[u].amount /\ BankSettled[v] = transfers[v] \cup {call[u].key}
            BY <1>1, <4>3 DEF BankView
          <5>3. BankFunds'[v] = balance'[v] - call[u].amount /\ BankSettled'[v] = transfers'[v] \cup {call[u].key}
            BY <1>2, <4>3, <5>1 DEF BankView
          <5> QED BY <4>1, <5>2, <5>3
        <4> QED BY <2>4, <4>2, <4>3
      <3>7. BankFunds' = [BankFunds EXCEPT ![c.src] = @ - c.amount, ![c.dst] = @ + c.amount]
        <4>1. \A v \in Wallets : BankFunds'[v] =
                IF v = c.src THEN BankFunds[v] - c.amount
                ELSE IF v = c.dst THEN BankFunds[v] + c.amount ELSE BankFunds[v]
          BY <2>2, <3>1, <3>4, <3>5, <3>6
        <4>2. /\ BankFunds = [v \in Wallets |-> BankFunds[v]]
              /\ BankFunds' = [v \in Wallets |-> BankFunds'[v]]
          BY DEF BankFunds
        <4> HIDE DEF c
        <4> QED BY <2>2, <3>1, <4>1, <4>2
      <3>8. BankSettled' = [BankSettled EXCEPT ![c.src] = @ \cup {c.key}, ![c.dst] = @ \cup {c.key}]
        BY <2>2, <3>1, <3>4, <3>5, <3>6 DEF BankSettled
      <3>9. c.key \notin BankSettled[c.src] /\ c.amount <= BankFunds[c.src]
        BY <1>1, <2>2, <2>8, <3>2 DEF Credit, BankView
      <3>10. Bank!Transfer(c.src, c.dst, c.amount, c.key)
        BY <2>2, <2>8, <3>1, <3>7, <3>8, <3>9 DEF Bank!Transfer, Credit
      <3> QED BY <2>2, <2>3, <3>1, <3>10 DEF Bank!Next, Bank!OpenOrTransfer
    <2>9. CASE Debit(t)
      <3>1. pc[t] = "credited" /\ pc' = [pc EXCEPT ![t] = "idle"]
        BY <2>9 DEF Debit, Settle, Goto
      <3>2. pc'[t] = "idle" /\ \A u \in Threads : u # t => pc'[u] = pc[u]
        BY <1>1, <3>1 DEF Shape, TypeOK
      <3>3. \A v \in Wallets : v = c.src => InFlight(v)' = {}
        <4>1. InFlight(c.src) = {t}
          BY <1>1, <2>2, <3>1, InFlightExclusive
        <4> QED BY <2>1, <3>2, <4>1 DEF InFlight
      <3>4. BankFunds'[c.src] = BankFunds[c.src] /\ BankSettled'[c.src] = BankSettled[c.src]
        <4>1. /\ balance'[c.src] = balance[c.src] - c.amount
              /\ transfers'[c.src] = transfers[c.src] \cup {c.key}
          BY <1>1, <2>2, <2>9 DEF Debit, Settle, Shape, TypeOK
        <4>2. /\ BankFunds[c.src] = balance[c.src] - c.amount
              /\ BankSettled[c.src] = transfers[c.src] \cup {c.key}
          BY <1>1, <2>2, <3>1 DEF BankView
        <4>3. BankFunds'[c.src] = balance'[c.src] /\ BankSettled'[c.src] = transfers'[c.src]
          BY <1>2, <2>2, <3>3 DEF BankView
        <4> QED BY <4>1, <4>2, <4>3
      <3>5. ASSUME NEW v \in Wallets, v # c.src
            PROVE  BankFunds'[v] = BankFunds[v] /\ BankSettled'[v] = BankSettled[v]
        <4>1. balance'[v] = balance[v] /\ transfers'[v] = transfers[v]
          BY <1>1, <2>9, <3>5 DEF Debit, Settle, Shape, TypeOK
        <4>2. CASE InFlight(v) = {}
          <5>1. InFlight(v)' = {}
            BY <2>1, <3>2, <3>5, <4>2 DEF InFlight
          <5> QED BY <1>1, <1>2, <4>1, <4>2, <5>1 DEF BankView
        <4>3. ASSUME NEW u \in Threads, pc[u] = "credited", call[u].src = v
              PROVE  BankFunds'[v] = BankFunds[v] /\ BankSettled'[v] = BankSettled[v]
          <5>1. pc'[u] = "credited" /\ call'[u] = call[u]
            BY <2>1, <3>2, <3>5, <4>3
          <5>2. BankFunds[v] = balance[v] - call[u].amount /\ BankSettled[v] = transfers[v] \cup {call[u].key}
            BY <1>1, <4>3 DEF BankView
          <5>3. BankFunds'[v] = balance'[v] - call[u].amount /\ BankSettled'[v] = transfers'[v] \cup {call[u].key}
            BY <1>2, <4>3, <5>1 DEF BankView
          <5> QED BY <4>1, <5>2, <5>3
        <4> QED BY <2>4, <4>2, <4>3
      <3> QED BY <2>9, <3>4, <3>5 DEF Bank!bankVars, BankFunds, BankSettled, Debit, Settle
    <2> QED BY <1>6, <2>5, <2>6, <2>7, <2>8, <2>9 DEF Step
  <1> QED BY <1>3, <1>4, <1>5, <1>6 DEF Next, Bank!Next, Bank!OpenOrTransfer

\* To its callers the service is AtomicBank: every deposit, withdrawal and
\* transfer takes effect at one moment, and the rest is invisible.
THEOREM ServiceIsAtomicBank == Spec => ImplementsBank
  <1>1. Init => Bank!Init
    <2> SUFFICES ASSUME Init PROVE Bank!Init
      OBVIOUS
    <2>1. \A w \in Wallets : InFlight(w) = {}
      BY DEF Init, InFlight
    <2> QED BY <2>1 DEF Init, Bank!Init, BankFunds, BankSettled
  <1>2. IInv /\ IInv' /\ [Next]_vars => [Bank!Next]_(Bank!bankVars)
    BY BankStep
  <1> QED BY <1>1, <1>2, Invariance, PTL DEF Spec, ImplementsBank, Bank!Spec

--------------------------------------------------------------------------------
(* Counting.  A sum is counted unit by unit: f[x] units for every x in S.  *)
Units(S, f) == UNION {{x} \X (1 .. f[x]) : x \in S}

LEMMA InUnits ==
  \A S, f : \A z : z \in Units(S, f) <=> \E x \in S : \E n \in 1 .. f[x] : z = <<x, n>>
  BY DEF Units

\* What has no members counts nothing.
LEMMA NoneCounted == \A S : (\A x : x \notin S) => IsFiniteSet(S) /\ Cardinality(S) = 0
<1> SUFFICES ASSUME NEW S, \A x : x \notin S PROVE IsFiniteSet(S) /\ Cardinality(S) = 0
  OBVIOUS
<1>1. S = {}
  BY SMT
<1> QED
  BY <1>1, FS_EmptySet, Zenon

LEMMA Block ==
  ASSUME NEW x, NEW n \in Nat
  PROVE  IsFiniteSet({x} \X (1 .. n)) /\ Cardinality({x} \X (1 .. n)) = n
<1>1. IsFiniteSet({x}) /\ Cardinality({x}) = 1
  BY FS_Singleton
<1>2. IsFiniteSet(1 .. n) /\ Cardinality(1 .. n) = n
  BY FS_Interval
<1>3. /\ IsFiniteSet({x} \X (1 .. n))
      /\ Cardinality({x} \X (1 .. n)) = Cardinality({x}) * Cardinality(1 .. n)
  BY <1>1, <1>2, FS_Product
<1> QED
  BY <1>1, <1>2, <1>3

LEMMA AddBlock ==
  ASSUME NEW S, IsFiniteSet(S), NEW x, NEW n \in Nat, \A k \in 1 .. n : <<x, k>> \notin S
  PROVE  /\ IsFiniteSet(S \cup ({x} \X (1 .. n)))
         /\ Cardinality(S) \in Nat
         /\ Cardinality(S \cup ({x} \X (1 .. n))) = Cardinality(S) + n
<1> DEFINE more == {x} \X (1 .. n)
<1>1. IsFiniteSet(more) /\ Cardinality(more) = n
  BY Block
<1>2. \A z : z \notin S \cap more
  OBVIOUS
<1>3. Cardinality(S \cap more) = 0
  BY <1>2, NoneCounted
<1>4. Cardinality(S) \in Nat
  BY FS_CardinalityType
<1> HIDE DEF more
<1>5. /\ IsFiniteSet(S \cup more)
      /\ Cardinality(S \cup more) = Cardinality(S) + Cardinality(more) - Cardinality(S \cap more)
  BY <1>1, FS_Union
<1>6. Cardinality(S \cup more) = Cardinality(S) + n
  BY <1>1, <1>3, <1>4, <1>5
<1> QED
  BY <1>4, <1>5, <1>6 DEF more

\* The units of one more are added to those of the others.
LEMMA MoreUnits ==
  \A S, x, f : x \notin S /\ IsFiniteSet(Units(S, f)) /\ f[x] \in Nat =>
    /\ IsFiniteSet(Units(S \cup {x}, f))
    /\ Cardinality(Units(S, f)) \in Nat
    /\ Cardinality(Units(S \cup {x}, f)) = Cardinality(Units(S, f)) + f[x]
<1> SUFFICES ASSUME NEW S, NEW x, NEW f, x \notin S, IsFiniteSet(Units(S, f)), f[x] \in Nat
             PROVE  /\ IsFiniteSet(Units(S \cup {x}, f))
                    /\ Cardinality(Units(S, f)) \in Nat
                    /\ Cardinality(Units(S \cup {x}, f)) = Cardinality(Units(S, f)) + f[x]
  OBVIOUS
<1>1. Units(S \cup {x}, f) = Units(S, f) \cup ({x} \X (1 .. f[x]))
  <2>1. ASSUME NEW z PROVE z \in Units(S \cup {x}, f) <=> z \in Units(S, f) \/ z \in {x} \X (1 .. f[x])
    BY InUnits
  <2> QED
    BY <2>1
<1>2. \A k \in 1 .. f[x] : <<x, k>> \notin Units(S, f)
  BY InUnits
<1> DEFINE U == Units(S, f)
           n == f[x]
<1>3. IsFiniteSet(U) /\ n \in Nat /\ \A k \in 1 .. n : <<x, k>> \notin U
  BY <1>2
<1> HIDE DEF U, n
<1>4. /\ IsFiniteSet(U \cup ({x} \X (1 .. n)))
      /\ Cardinality(U) \in Nat
      /\ Cardinality(U \cup ({x} \X (1 .. n))) = Cardinality(U) + n
  BY <1>3, AddBlock
<1> QED
  BY <1>1, <1>4, Zenon DEF U, n

LEMMA AddUnits ==
  ASSUME NEW S, NEW x, x \notin S, NEW f, NEW g, IsFiniteSet(Units(S, f)),
         \A y \in S : g[y] = f[y], g[x] \in Nat
  PROVE  /\ IsFiniteSet(Units(S \cup {x}, g))
         /\ Cardinality(Units(S, f)) \in Nat
         /\ Cardinality(Units(S \cup {x}, g)) = Cardinality(Units(S, f)) + g[x]
<1>1. \A z : z \in Units(S, g) <=> z \in Units(S, f)
  BY InUnits
<1>2. Units(S, g) = Units(S, f)
  BY <1>1
<1> QED
  BY <1>2, MoreUnits, Zenon

\* Whose number changes from f[x] to g[x], the count changes as much.
LEMMA ChangeUnits ==
  ASSUME NEW S, NEW x \in S, NEW f, NEW g, IsFiniteSet(Units(S, f)),
         \A y \in S : y # x => g[y] = f[y], f[x] \in Nat, g[x] \in Nat
  PROVE  /\ IsFiniteSet(Units(S, g))
         /\ Cardinality(Units(S, f)) \in Nat /\ Cardinality(Units(S, g)) \in Nat
         /\ Cardinality(Units(S, g)) + f[x] = Cardinality(Units(S, f)) + g[x]
<1> DEFINE R == S \ {x}
<1>1. S = R \cup {x} /\ x \notin R
  <2>1. \A y : y \in S <=> y \in R \cup {x}
    OBVIOUS
  <2> QED
    BY <2>1
<1>2. IsFiniteSet(Units(R, f))
  <2>1. Units(R, f) \in SUBSET Units(S, f)
    BY InUnits
  <2> QED
    BY <2>1, FS_Subset
<1>3. \A y \in R : f[y] = f[y] /\ g[y] = f[y]
  OBVIOUS
<1> HIDE DEF R
<1>4. /\ Cardinality(Units(R, f)) \in Nat
      /\ Cardinality(Units(R \cup {x}, f)) = Cardinality(Units(R, f)) + f[x]
  BY <1>1, <1>2, <1>3, AddUnits
<1>5. /\ IsFiniteSet(Units(R \cup {x}, g))
      /\ Cardinality(Units(R \cup {x}, g)) = Cardinality(Units(R, f)) + g[x]
  BY <1>1, <1>2, <1>3, AddUnits
<1>6. Units(R \cup {x}, f) = Units(S, f) /\ Units(R \cup {x}, g) = Units(S, g)
  BY <1>1, Zenon
<1>7. /\ IsFiniteSet(Units(S, g)) 
      /\ Cardinality(Units(S, f)) = Cardinality(Units(R, f)) + f[x]
      /\ Cardinality(Units(S, g)) = Cardinality(Units(R, f)) + g[x]
  BY <1>4, <1>5, <1>6, Zenon
<1> QED
  BY <1>4, <1>7

--------------------------------------------------------------------------------
(* The refinement and the record of the keys, for every set of threads,    *)
(* accounts, keys and amounts, below zero too.  A transfer has the         *)
(* service lock from the test of its key to the record of it, so at most   *)
(* one thread is between two writes; the two account locks, which the      *)
(* other calls take too, keep what it compared true until it writes.       *)
Transferring == {"first", "second", "locked", "debited"}

ServiceHeld == \A t \in Callers : aService = t <=> aPc[t] \in Transferring

CallsInFlight ==
  \A t \in Callers : aPc[t] # "idle" =>
    /\ aCall[t] \in Account!Calls /\ {aCall[t].src, aCall[t].dst} \subseteq aCreated
    /\ aPc[t] \in Transferring => aCall[t].key \in AccountKeys /\ aBooked[aCall[t].key] = Null
    /\ aPc[t] = "second" => aLock[Account!FirstLock(aCall[t])] = t
    /\ aPc[t] \in {"locked", "debited"} =>
         aCall[t].src # aCall[t].dst /\ aLock[aCall[t].src] = t /\ aLock[aCall[t].dst] = t

AccountInv == Account!TypeOK /\ Account!BookedWhenMoved /\ ServiceHeld /\ CallsInFlight

LEMMA AccountInit == Account!Init => AccountInv
  BY WalletAssumption, AccountAssumption DEF Account!Init, AccountInv, Account!TypeOK, Account!BookedWhenMoved, ServiceHeld, CallsInFlight, Transferring

LEMMA AtMostOne == AccountInv => \A t, u \in Account!Debited : t = u
  BY DEF AccountInv, ServiceHeld, Account!Debited, Transferring

\* The funds of the bank without the choice in their definition.
FundsShape ==
  \A a \in Accounts :
    /\ \A t \in Account!Debited : aCall[t].dst = a => Account!BankFunds[a] = aBalance[a] + aCall[t].amount
    /\ (\A t \in Account!Debited : aCall[t].dst # a) => Account!BankFunds[a] = aBalance[a]

LEMMA FundsHaveShape == AccountInv => FundsShape
<1> SUFFICES ASSUME AccountInv, NEW a \in Accounts
             PROVE  /\ \A t \in Account!Debited :
                         aCall[t].dst = a => Account!BankFunds[a] = aBalance[a] + aCall[t].amount
                    /\ (\A t \in Account!Debited : aCall[t].dst # a) => Account!BankFunds[a] = aBalance[a]
  BY DEF FundsShape
<1>1. ASSUME NEW t \in Account!Debited, aCall[t].dst = a PROVE Account!BankFunds[a] = aBalance[a] + aCall[t].amount
  <2>1. t = CHOOSE x \in Account!Debited : aCall[x].dst = a
    BY <1>1, AtMostOne
  <2> QED
    BY <1>1, <2>1 DEF Account!BankFunds
<1>2. ASSUME \A t \in Account!Debited : aCall[t].dst # a PROVE Account!BankFunds[a] = aBalance[a]
  BY <1>2 DEF Account!BankFunds
<1> QED
  BY <1>1, <1>2

\* What leaves the transfer in flight and the keys alone changes the bank's funds
\* just as it changes the balances.
LEMMA BankFollows ==
  ASSUME AccountInv, FundsShape, FundsShape', Account!Debited' = Account!Debited, aBooked' = aBooked,
         \A t \in Account!Debited : aCall'[t] = aCall[t]
  PROVE  /\ Account!BankSettled' = Account!BankSettled
         /\ \A a \in Accounts :
              \/ /\ Account!BankFunds[a] = aBalance[a] /\ Account!BankFunds'[a] = aBalance'[a]
              \/ \E t \in Account!Debited :
                   /\ aCall[t].dst = a
                   /\ Account!BankFunds[a] = aBalance[a] + aCall[t].amount
                   /\ Account!BankFunds'[a] = aBalance'[a] + aCall[t].amount
<1>1. Account!BankSettled' = Account!BankSettled
  BY DEF Account!BankSettled
<1> QED
  BY <1>1 DEF FundsShape

\* Then, if no balance changes and no account is made, the bank does not see it.
LEMMA Unseen ==
  ASSUME AccountInv, FundsShape, FundsShape', Account!Debited' = Account!Debited, aBooked' = aBooked,
         \A t \in Account!Debited : aCall'[t] = aCall[t], aBalance' = aBalance, aCreated' = aCreated
  PROVE  UNCHANGED Account!Bank!bankVars
<1>1. \A a \in Accounts : Account!BankFunds'[a] = Account!BankFunds[a]
  BY BankFollows
<1>2. Account!BankFunds' = Account!BankFunds
  BY <1>1 DEF Account!BankFunds
<1> QED
  BY <1>2, BankFollows DEF Account!Bank!bankVars

--------------------------------------------------------------------------------
LEMMA AccountStep ==
  ASSUME AccountInv, [Account!Next]_accountVars
  PROVE  AccountInv'
<1> USE WalletAssumption, AccountAssumption DEF AccountInv, Account!TypeOK, Transferring
<1>1. ASSUME NEW a \in Accounts, NEW b \in InitialBalances, Account!CreateAccount(a, b) PROVE AccountInv'
  <2>1. aCreated' = aCreated \cup {a} /\ UNCHANGED <<aBooked, aService, aLock, aPc, aCall, aCalls, aMoved>>
    BY <1>1 DEF Account!CreateAccount
  <2>2. aBalance' \in [Accounts -> Int]
    BY <1>1 DEF Account!CreateAccount
  <2>3. Account!TypeOK'
    BY <2>1, <2>2
  <2>4. Account!BookedWhenMoved' /\ ServiceHeld' /\ CallsInFlight'
    BY <2>1 DEF Account!BookedWhenMoved, ServiceHeld, CallsInFlight
  <2> QED
    BY <2>3, <2>4
<1>2. ASSUME NEW t \in Callers, NEW a \in Accounts, NEW n \in AccountAmounts, NEW label \in {"deposit", "withdraw"},
             Account!BeginSingle(t, a, n, label)
      PROVE  AccountInv'
  BY <1>2 DEF Account!BeginSingle, Account!Begin, Account!Calls, Account!BookedWhenMoved, ServiceHeld, CallsInFlight
<1>3. ASSUME NEW t \in Callers, NEW n \in AccountAmounts, NEW src \in Account!Names, NEW dst \in Account!Names, NEW k \in AccountKeys,
             Account!TransferAmount(t, src, dst, n, k)
      PROVE  AccountInv'
  BY <1>3 DEF Account!TransferAmount, Account!Names, Account!Begin, Account!Calls, Account!BookedWhenMoved, ServiceHeld, CallsInFlight
<1>4. ASSUME NEW t \in Callers, Account!Deposit(t) \/ Account!Withdraw(t) \/ Account!RefuseWithdraw(t) PROVE AccountInv'
  <2>1. aCall[t].src \in Accounts /\ aCall[t].amount \in Int /\ aPc[t] \notin Transferring /\ aPc[t] # "idle"
    BY <1>4 DEF Account!Deposit, Account!Withdraw, Account!RefuseWithdraw, Account!Goto, CallsInFlight, Account!Calls
  <2>2. aBalance' \in [Accounts -> Int]
    BY <1>4, <2>1 DEF Account!Deposit, Account!Withdraw, Account!RefuseWithdraw
  <2>3. /\ aPc' = [aPc EXCEPT ![t] = "idle"] /\ aCall' = [aCall EXCEPT ![t] = Null]
        /\ UNCHANGED <<aCreated, aCalls, aBooked, aService, aLock, aMoved>>
    BY <1>4 DEF Account!Deposit, Account!Withdraw, Account!RefuseWithdraw, Account!Goto
  <2> QED
    BY <2>1, <2>2, <2>3 DEF Account!BookedWhenMoved, ServiceHeld, CallsInFlight
<1>5. ASSUME NEW t \in Callers, Account!AcquireFirst(t) \/ Account!AcquireSecond(t) PROVE AccountInv'
  <2>1. PICK a \in Accounts :
          /\ aLock[a] = Null /\ aLock' = [aLock EXCEPT ![a] = t]
          /\ \/ aPc[t] = "first" /\ a = Account!FirstLock(aCall[t]) /\ aPc' = [aPc EXCEPT ![t] = "second"]
             \/ aPc[t] = "second" /\ a = Account!SecondLock(aCall[t]) /\ aPc' = [aPc EXCEPT ![t] = "locked"]
    BY <1>5 DEF Account!AcquireFirst, Account!AcquireSecond, Account!Acquire, Account!Goto, Account!FirstLock, Account!SecondLock, CallsInFlight, Account!Calls
  <2>2. UNCHANGED <<aCreated, aBalance, aBooked, aService, aCall, aCalls, aMoved>>
    BY <1>5 DEF Account!AcquireFirst, Account!AcquireSecond, Account!Acquire, Account!Goto
  <2>3. Account!TypeOK' /\ Account!BookedWhenMoved' /\ ServiceHeld'
    BY <2>1, <2>2 DEF Account!BookedWhenMoved, ServiceHeld
  <2>4. \A u \in Callers : u # t => aPc'[u] = aPc[u] /\ aPc[u] \notin Transferring
    BY <2>1 DEF ServiceHeld
  <2>5. CallsInFlight'
    BY <2>1, <2>2, <2>4 DEF CallsInFlight, Account!FirstLock, Account!SecondLock, Account!Calls
  <2> QED
    BY <2>3, <2>5
<1>6. ASSUME NEW t \in Callers, Account!RefuseTransfer(t) PROVE AccountInv'
  <2>1. \A u \in Callers : u # t => aPc'[u] = aPc[u] /\ aPc[u] \notin Transferring
    BY <1>6 DEF Account!RefuseTransfer, Account!Goto, ServiceHeld
  <2>2. aService = t /\ aPc'[t] = "idle" /\ aService' = Null
    BY <1>6 DEF Account!RefuseTransfer, Account!Goto, Account!ReleaseAll, ServiceHeld
  <2>3. Account!TypeOK' /\ Account!BookedWhenMoved'
    BY <1>6 DEF Account!RefuseTransfer, Account!Goto, Account!ReleaseAll, Account!BookedWhenMoved
  <2>4. ServiceHeld' /\ CallsInFlight'
    BY <1>6, <2>1, <2>2 DEF Account!RefuseTransfer, Account!Goto, ServiceHeld, CallsInFlight
  <2> QED
    BY <2>3, <2>4
<1>7. ASSUME NEW t \in Callers, Account!Debit(t) PROVE AccountInv'
  <2>1. aCall[t].src \in Accounts /\ aCall[t].amount \in Int
    BY <1>7 DEF Account!Debit, Account!Goto, CallsInFlight, Account!Calls
  <2>2. aBalance' \in [Accounts -> Int]
    <3>1. aBalance[aCall[t].src] \in Int
      BY <2>1
    <3>2. aBalance[aCall[t].src] - aCall[t].amount \in Int
      BY <2>1, <3>1
    <3> QED
      BY <1>7, <2>1, <3>2 DEF Account!Debit
  <2> QED
    BY <1>7, <2>2 DEF Account!Debit, Account!Goto, Account!BookedWhenMoved, ServiceHeld, CallsInFlight
<1>8. ASSUME NEW t \in Callers, Account!Credit(t) PROVE AccountInv'
  <2> DEFINE c == aCall[t]
             made == [src |-> c.src, dst |-> c.dst, amount |-> c.amount]
  <2>1. /\ c.dst \in Accounts /\ c.amount \in Int /\ c.key \in AccountKeys /\ aBooked[c.key] = Null
        /\ made \in Account!Transfers
    BY <1>8 DEF Account!Credit, Account!Goto, CallsInFlight, Account!Calls, Account!Transfers
  <2>2. aBalance' \in [Accounts -> Int]
    <3>1. aBalance[c.dst] \in Int
      BY <2>1
    <3>2. aBalance[c.dst] + c.amount \in Int
      BY <2>1, <3>1
    <3> QED
      BY <1>8, <2>1, <3>2 DEF Account!Credit
  <2>3. aBooked' = [aBooked EXCEPT ![c.key] = made] /\ aMoved' = [aMoved EXCEPT ![c.key] = @ + 1]
    BY <1>8 DEF Account!Credit
  <2>4. Account!BookedWhenMoved' /\ aBooked' \in [AccountKeys -> Account!Transfers \cup {Null}] /\ aMoved' \in [AccountKeys -> Nat]
    BY <2>1, <2>3 DEF Account!BookedWhenMoved
  <2>5. \A u \in Callers : u # t => aPc'[u] = aPc[u] /\ aCall'[u] = aCall[u] /\ aPc[u] \notin Transferring
    BY <1>8 DEF Account!Credit, Account!Goto, ServiceHeld
  <2>6. aService = t /\ aPc'[t] = "idle" /\ aService' = Null /\ aCreated' = aCreated
    BY <1>8 DEF Account!Credit, Account!Goto, Account!ReleaseAll, ServiceHeld
  <2>7. Account!TypeOK'
    BY <1>8, <2>2, <2>4, <2>6 DEF Account!Credit, Account!Goto, Account!ReleaseAll
  <2>8. ServiceHeld' /\ CallsInFlight'
    BY <2>5, <2>6 DEF ServiceHeld, CallsInFlight
  <2> QED
    BY <2>4, <2>7, <2>8
<1>9. CASE UNCHANGED accountVars
  BY <1>9 DEF accountVars, Account!BookedWhenMoved, ServiceHeld, CallsInFlight
<1> QED
  BY <1>1, <1>2, <1>3, <1>4, <1>5, <1>6, <1>7, <1>8, <1>9 DEF Account!Next, Account!Arrive, Account!Step

LEMMA AccountIsBank ==
  ASSUME AccountInv, AccountInv', FundsShape, FundsShape', [Account!Next]_accountVars
  PROVE  [Account!Bank!Next]_(Account!Bank!bankVars)
<1> USE WalletAssumption, AccountAssumption DEF AccountInv, Account!TypeOK
<1>1. ASSUME NEW a \in Accounts, NEW b \in InitialBalances, Account!CreateAccount(a, b)
      PROVE  Account!Bank!Open(a, b)
  <2>1. Account!Debited = {} /\ Account!Debited' = {}
    BY <1>1 DEF Account!CreateAccount, ServiceHeld, Account!Debited, Transferring
  <2>2. Account!BankFunds = aBalance /\ Account!BankFunds' = aBalance'
    BY <2>1 DEF Account!BankFunds
  <2>3. Account!BankSettled' = Account!BankSettled
    BY <1>1, <2>1 DEF Account!CreateAccount, Account!BankSettled
  <2> QED
    BY <1>1, <2>2, <2>3 DEF Account!CreateAccount, Account!Bank!Open
<1>2. ASSUME NEW t \in Callers, Account!Arrive(t) PROVE UNCHANGED Account!Bank!bankVars
  <2>1. aPc[t] = "idle" /\ UNCHANGED <<aCreated, aBalance, aBooked>>
    BY <1>2 DEF Account!Arrive, Account!BeginSingle, Account!TransferAmount, Account!Begin
  <2>2. Account!Debited' = Account!Debited /\ \A u \in Account!Debited : aCall'[u] = aCall[u]
    BY <1>2, <2>1 DEF Account!Arrive, Account!BeginSingle, Account!TransferAmount, Account!Begin, Account!Debited
  <2> QED
    BY <2>1, <2>2, Unseen
<1>3. ASSUME NEW t \in Callers,
             Account!RefuseWithdraw(t) \/ Account!AcquireFirst(t) \/ Account!AcquireSecond(t) \/ Account!RefuseTransfer(t)
      PROVE  UNCHANGED Account!Bank!bankVars
  <2>1. UNCHANGED <<aCreated, aBalance, aBooked>>
    BY <1>3 DEF Account!RefuseWithdraw, Account!AcquireFirst, Account!AcquireSecond, Account!Acquire, Account!RefuseTransfer, Account!Goto
  <2>2. Account!Debited' = Account!Debited /\ \A u \in Account!Debited : aCall'[u] = aCall[u]
    BY <1>3 DEF Account!RefuseWithdraw, Account!AcquireFirst, Account!AcquireSecond, Account!Acquire, Account!RefuseTransfer, Account!Goto, Account!Debited
  <2> QED
    BY <2>1, <2>2, Unseen
<1>4. ASSUME NEW t \in Callers, Account!Deposit(t) \/ Account!Withdraw(t)
      PROVE  \E a \in Accounts, n \in AccountAmounts : Account!Bank!Deposit(a, n) \/ Account!Bank!Withdraw(a, n)
  <2> DEFINE a == aCall[t].src
             n == aCall[t].amount
  <2>1. a \in Accounts /\ a \in aCreated /\ n \in AccountAmounts /\ aLock[a] = Null
    BY <1>4 DEF Account!Deposit, Account!Withdraw, Account!Goto, CallsInFlight, Account!Calls
  <2>2. Account!Debited' = Account!Debited /\ (\A u \in Account!Debited : aCall'[u] = aCall[u]) /\ aCreated' = aCreated /\ aBooked' = aBooked
    BY <1>4 DEF Account!Deposit, Account!Withdraw, Account!Goto, Account!Debited
  <2>3. \A u \in Account!Debited : aCall[u].dst # a
    BY <2>1 DEF CallsInFlight, Account!Debited
  <2>4. Account!BankFunds[a] = aBalance[a] /\ Account!BankFunds'[a] = aBalance'[a]
    <3>1. \A u \in Account!Debited' : aCall'[u].dst # a
      BY <2>2, <2>3
    <3> QED
      BY <2>1, <2>3, <3>1 DEF FundsShape
  <2>5. \A x \in Accounts : x # a => aBalance'[x] = aBalance[x]
    BY <1>4 DEF Account!Deposit, Account!Withdraw
  <2>6. \A x \in Accounts : x # a => Account!BankFunds'[x] = Account!BankFunds[x]
    BY <2>2, <2>5, BankFollows
  <2>7. Account!BankFunds' = [Account!BankFunds EXCEPT ![a] = aBalance'[a]]
    <3> HIDE DEF AccountInv, Account!TypeOK
    <3>1. \A x \in Accounts : Account!BankFunds'[x] = IF x = a THEN aBalance'[a] ELSE Account!BankFunds[x]
      BY <2>1, <2>4, <2>6
    <3> QED
      BY <2>1, <3>1 DEF Account!BankFunds
  <2>8. Account!BankSettled' = Account!BankSettled
    BY <2>2, BankFollows
  <2>9. CASE Account!Deposit(t)
    <3>1. aBalance'[a] = aBalance[a] + n
      BY <2>1, <2>9 DEF Account!Deposit
    <3>2. Account!BankFunds' = [Account!BankFunds EXCEPT ![a] = @ + n]
      BY <2>4, <2>7, <3>1
    <3> QED
      BY <2>1, <2>2, <2>4, <2>8, <3>1, <3>2 DEF Account!Bank!Deposit
  <2>10. CASE Account!Withdraw(t)
    <3>1. aBalance'[a] = aBalance[a] - n /\ n <= aBalance[a]
      BY <2>1, <2>10 DEF Account!Withdraw, Account!Enough
    <3>2. Account!BankFunds' = [Account!BankFunds EXCEPT ![a] = @ - n]
      BY <2>4, <2>7, <3>1
    <3> QED
      BY <2>1, <2>2, <2>4, <2>8, <3>1, <3>2 DEF Account!Bank!Withdraw
  <2> QED
    BY <1>4, <2>9, <2>10
<1>5. ASSUME NEW t \in Callers, Account!Debit(t)
      PROVE  \E s, d \in Accounts, n \in AccountAmounts, k \in AccountKeys : Account!Bank!Transfer(s, d, n, k)
  <2> DEFINE c == aCall[t]
  <2>1. /\ c.src \in Accounts /\ c.dst \in Accounts /\ c.src # c.dst /\ {c.src, c.dst} \subseteq aCreated
        /\ c.amount \in AccountAmounts /\ c.key \in AccountKeys /\ aBooked[c.key] = Null
    BY <1>5 DEF Account!Debit, Account!Goto, CallsInFlight, Account!Calls, Transferring
  <2>2. Account!Debited = {} /\ Account!Debited' = {t}
    BY <1>5 DEF Account!Debit, Account!Goto, ServiceHeld, Account!Debited, Transferring
  <2>3. /\ c.amount <= aBalance[c.src] /\ aBalance' = [aBalance EXCEPT ![c.src] = @ - c.amount]
        /\ aCreated' = aCreated /\ aBooked' = aBooked /\ aCall'[t] = c
    BY <1>5 DEF Account!Debit, Account!Goto, Account!Enough
  <2>4. Account!BankFunds = aBalance
    BY <2>2 DEF Account!BankFunds
  <2>5. /\ Account!BankFunds'[c.dst] = aBalance[c.dst] + c.amount
        /\ \A a \in Accounts : a # c.dst => Account!BankFunds'[a] = aBalance'[a]
    <3>1. \A u \in Account!Debited' : aCall'[u] = c
      BY <2>2, <2>3
    <3>2. Account!BankFunds'[c.dst] = aBalance'[c.dst] + c.amount
      BY <2>1, <2>2, <3>1 DEF FundsShape
    <3>3. \A a \in Accounts : a # c.dst => Account!BankFunds'[a] = aBalance'[a]
      BY <2>1, <2>2, <3>1 DEF FundsShape
    <3> QED
      BY <2>1, <2>3, <3>2, <3>3
  <2>6. Account!BankFunds' = [Account!BankFunds EXCEPT ![c.src] = @ - c.amount, ![c.dst] = @ + c.amount]
    <3> DEFINE F == Account!BankFunds
    <3>1. F = [a \in Accounts |-> F[a]] /\ F' = [a \in Accounts |-> F'[a]]
      BY DEF Account!BankFunds
    <3>2. F'[c.src] = F[c.src] - c.amount /\ F'[c.dst] = F[c.dst] + c.amount
      BY <2>1, <2>3, <2>4, <2>5
    <3>3. \A a \in Accounts : a \notin {c.src, c.dst} => F'[a] = F[a]
      BY <2>1, <2>3, <2>4, <2>5
    <3> HIDE DEF F, c
    <3> QED
      BY <2>1, <3>1, <3>2, <3>3 DEF F
  <2>7. Account!BankSettled' = [Account!BankSettled EXCEPT ![c.src] = @ \cup {c.key}, ![c.dst] = @ \cup {c.key}]
    <3>1. \A a \in Accounts :
            Account!BankSettled'[a] = IF a \in {c.src, c.dst} THEN Account!BankSettled[a] \cup {c.key} ELSE Account!BankSettled[a]
      BY <2>2, <2>3 DEF Account!BankSettled
    <3> QED
      BY <2>1, <3>1 DEF Account!BankSettled
  <2>8. c.key \notin Account!BankSettled[c.src]
    BY <2>1, <2>2 DEF Account!BankSettled
  <2>9. Account!Bank!Transfer(c.src, c.dst, c.amount, c.key)
    BY <2>1, <2>3, <2>4, <2>6, <2>7, <2>8 DEF Account!Bank!Transfer
  <2> QED
    BY <2>1, <2>9
<1>6. ASSUME NEW t \in Callers, Account!Credit(t) PROVE UNCHANGED Account!Bank!bankVars
  <2> DEFINE c == aCall[t]
  <2>1. /\ c.src \in Accounts /\ c.dst \in Accounts /\ c.amount \in Int
        /\ c.key \in AccountKeys /\ aBooked[c.key] = Null
    BY <1>6 DEF Account!Credit, Account!Goto, CallsInFlight, Account!Calls, Transferring
  <2>2. Account!Debited = {t} /\ Account!Debited' = {}
    BY <1>6 DEF Account!Credit, Account!Goto, ServiceHeld, Account!Debited, Transferring
  <2>3. /\ aBalance' = [aBalance EXCEPT ![c.dst] = @ + c.amount] /\ aCreated' = aCreated
        /\ aBooked' = [aBooked EXCEPT ![c.key] = [src |-> c.src, dst |-> c.dst, amount |-> c.amount]]
    BY <1>6 DEF Account!Credit, Account!Goto
  <2>4. [src |-> c.src, dst |-> c.dst, amount |-> c.amount] # Null
    BY <1>6 DEF Account!Credit, Account!Goto, CallsInFlight, Account!Calls, Account!Transfers
  <2>5. \A a \in Accounts : Account!BankFunds'[a] = Account!BankFunds[a]
    BY <2>1, <2>2, <2>3 DEF FundsShape
  <2>6. \A a \in Accounts : Account!BankSettled'[a] = Account!BankSettled[a]
    BY <2>1, <2>2, <2>3, <2>4 DEF Account!BankSettled
  <2> QED
    BY <2>3, <2>5, <2>6 DEF Account!Bank!bankVars, Account!BankFunds, Account!BankSettled
<1>7. CASE UNCHANGED accountVars
  BY <1>7, Unseen DEF accountVars, Account!Debited
<1> QED
  BY <1>1, <1>2, <1>3, <1>4, <1>5, <1>6, <1>7 DEF Account!Next, Account!Step, Account!Bank!Next, Account!Bank!OpenOrTransfer

--------------------------------------------------------------------------------
(* The refinement for every set of connections, accounts and amounts.  The *)
(* commit writes what an earlier statement computed; RowsInFlight says why *)
(* that is still right: the rows were locked in between, and only the      *)
(* connection that locked a row writes it.                                 *)
Holds(t, i) == i \in exists /\ rowLock[i] = t

RowsInFlight ==
  \A t \in Threads : rPc[t] # "idle" =>
    /\ rCall[t] \in Rows!Calls /\ rCall[t].src # rCall[t].dst
    /\ rPc[t] # "first" => Holds(t, Rows!FirstAccount(rCall[t]))
    /\ rPc[t] \in {"debit", "commit"} => Holds(t, Rows!SecondAccount(rCall[t]))
    /\ rPc[t] = "commit" =>
         /\ rCall[t].amount <= rBalance[rCall[t].src]
         /\ debited[t] = rBalance[rCall[t].src] - rCall[t].amount

RowInv == Rows!TypeOK /\ RowsInFlight

LEMMA RowInit == Rows!Init => RowInv
  BY WalletAssumption, RowAssumption DEF Rows!Init, RowInv, Rows!TypeOK, RowsInFlight

\* A transaction that ends leaves alone what the others rely on.
LEMMA FinishSound ==
  ASSUME RowInv, NEW t \in Threads, Rows!Finish(t), exists' = exists,
         rBalance' \in [Ids -> Nat], rTransfers' \in [TransferIds -> Rows!Calls \cup {Null}],
         \A i \in Ids : rBalance'[i] # rBalance[i] => rowLock[i] = t
  PROVE  RowInv'
<1> USE WalletAssumption, RowAssumption DEF RowInv, Rows!TypeOK
<1>1. Rows!TypeOK'
  BY DEF Rows!Finish
<1>2. RowsInFlight'
  <2> SUFFICES ASSUME NEW u \in Threads, rPc'[u] # "idle"
               PROVE  /\ rCall'[u] \in Rows!Calls /\ rCall'[u].src # rCall'[u].dst
                      /\ rPc'[u] # "first" => Holds(u, Rows!FirstAccount(rCall[u]))'
                      /\ rPc'[u] \in {"debit", "commit"} => Holds(u, Rows!SecondAccount(rCall[u]))'
                      /\ rPc'[u] = "commit" =>
                           /\ rCall'[u].amount <= rBalance'[rCall'[u].src]
                           /\ debited'[u] = rBalance'[rCall'[u].src] - rCall'[u].amount
    BY DEF RowsInFlight
  <2>1. u # t /\ rPc'[u] = rPc[u] /\ rCall'[u] = rCall[u] /\ debited'[u] = debited[u]
    BY DEF Rows!Finish
  <2>2. rCall[u] \in Rows!Calls /\ rCall[u].src \in Ids /\ rCall[u].dst \in Ids
    BY <2>1 DEF RowsInFlight, Rows!Calls
  <2>3. \A i \in Ids : Holds(u, i) => rowLock'[i] = u /\ i \in exists' /\ rBalance'[i] = rBalance[i]
    BY <2>1 DEF Holds, Rows!Finish
  <2>4. rPc[u] = "commit" => Holds(u, rCall[u].src)
    BY <2>1, <2>2 DEF RowsInFlight, Rows!FirstAccount, Rows!SecondAccount
  <2>5. Rows!FirstAccount(rCall[u]) \in Ids /\ Rows!SecondAccount(rCall[u]) \in Ids
    BY <2>2 DEF Rows!FirstAccount, Rows!SecondAccount
  <2>6. /\ rPc[u] # "first" => Holds(u, Rows!FirstAccount(rCall[u]))
        /\ rPc[u] \in {"debit", "commit"} => Holds(u, Rows!SecondAccount(rCall[u]))
    BY <2>1 DEF RowsInFlight
  <2>7. /\ rPc'[u] # "first" => Holds(u, Rows!FirstAccount(rCall[u]))'
        /\ rPc'[u] \in {"debit", "commit"} => Holds(u, Rows!SecondAccount(rCall[u]))'
    BY <2>1, <2>3, <2>5, <2>6 DEF Holds, Rows!FirstAccount, Rows!SecondAccount
  <2>8. rPc'[u] = "commit" =>
          /\ rCall'[u].amount <= rBalance'[rCall'[u].src]
          /\ debited'[u] = rBalance'[rCall'[u].src] - rCall'[u].amount
    <3> SUFFICES ASSUME rPc'[u] = "commit"
                 PROVE  /\ rCall'[u].amount <= rBalance'[rCall'[u].src]
                        /\ debited'[u] = rBalance'[rCall'[u].src] - rCall'[u].amount
      OBVIOUS
    <3>1. /\ rCall[u].amount <= rBalance[rCall[u].src]
          /\ debited[u] = rBalance[rCall[u].src] - rCall[u].amount
      BY <2>1 DEF RowsInFlight
    <3>2. rBalance'[rCall[u].src] = rBalance[rCall[u].src]
      BY <2>1, <2>2, <2>3, <2>4
    <3> HIDE DEF RowInv, Rows!TypeOK
    <3> QED
      BY <2>1, <3>1, <3>2
  <2> QED
    BY <2>1, <2>2, <2>7, <2>8 DEF RowsInFlight
<1> QED
  BY <1>1, <1>2

\* What the commit writes is a transfer of the bank.
LEMMA CommitIsTransfer ==
  ASSUME RowInv, NEW t \in Threads, Rows!Commit(t)
  PROVE  /\ RowInv'
         /\ \E x \in TransferIds :
              Rows!Bank!Transfer(rCall[t].src, rCall[t].dst, rCall[t].amount, x)
         /\ rCall[t].src \in Ids /\ rCall[t].dst \in Ids /\ rCall[t].amount \in Amounts
<1> USE WalletAssumption, RowAssumption DEF RowInv, Rows!TypeOK
<1> DEFINE c == rCall[t]
<1>1. c \in Rows!Calls /\ c.src \in Ids /\ c.dst \in Ids /\ c.amount \in Amounts /\ c.src # c.dst
  BY DEF Rows!Commit, RowsInFlight, Rows!Calls
<1>2. Holds(t, c.src) /\ Holds(t, c.dst)
  BY <1>1 DEF Rows!Commit, RowsInFlight, Rows!FirstAccount, Rows!SecondAccount
<1>3. c.amount <= rBalance[c.src] /\ debited[t] = rBalance[c.src] - c.amount
  BY DEF Rows!Commit, RowsInFlight
<1>4. /\ rBalance' = [rBalance EXCEPT ![c.src] = debited[t], ![c.dst] = @ + c.amount]
      /\ Rows!Finish(t) /\ exists' = exists
  BY DEF Rows!Commit
<1>5. PICK x \in TransferIds : rTransfers[x] = Null /\ rTransfers' = [rTransfers EXCEPT ![x] = c]
  BY DEF Rows!Commit
<1>6. rBalance' = [rBalance EXCEPT ![c.src] = @ - c.amount, ![c.dst] = @ + c.amount]
  BY <1>1, <1>3, <1>4
<1>7. rBalance' \in [Ids -> Nat]
  <2>1. rBalance[c.src] \in Nat /\ rBalance[c.dst] \in Nat /\ c.amount \in Nat
    BY <1>1
  <2>2. rBalance[c.src] - c.amount \in Nat /\ rBalance[c.dst] + c.amount \in Nat
    BY <1>3, <2>1
  <2> QED
    BY <1>1, <1>6, <2>2
<1>8. Rows!Settled' = [Rows!Settled EXCEPT ![c.src] = @ \cup {x}, ![c.dst] = @ \cup {x}]
  <2>1. \A i \in Ids : Rows!Settled'[i] = IF i \in {c.src, c.dst} THEN Rows!Settled[i] \cup {x} ELSE Rows!Settled[i]
    BY <1>1, <1>5 DEF Rows!Settled
  <2> QED
    BY <1>1, <2>1 DEF Rows!Settled
<1>9. x \notin Rows!Settled[c.src]
  BY <1>1, <1>5 DEF Rows!Settled
<1>10. Rows!Bank!Transfer(c.src, c.dst, c.amount, x)
  BY <1>1, <1>2, <1>3, <1>4, <1>6, <1>8, <1>9 DEF Rows!Bank!Transfer, Holds
<1>11. RowInv'
  <2>1. \A i \in Ids : rBalance'[i] # rBalance[i] => rowLock[i] = t
    BY <1>1, <1>2, <1>6 DEF Holds
  <2>2. rTransfers' \in [TransferIds -> Rows!Calls \cup {Null}]
    BY <1>1, <1>5
  <2> QED
    BY <1>4, <1>7, <2>1, <2>2, FinishSound
<1> QED
  BY <1>1, <1>10, <1>11

LEMMA LocksTaken ==
  ASSUME RowInv, NEW t \in Threads, Rows!LockFirst(t) \/ Rows!LockSecond(t)
  PROVE  RowInv' /\ UNCHANGED <<exists, rBalance, rTransfers>>
<1> USE WalletAssumption, RowAssumption DEF RowInv, Rows!TypeOK
<1>1. PICK i \in Ids :
        \/ rPc[t] = "first" /\ i = Rows!FirstAccount(rCall[t]) /\ Rows!LockRow(t, i, "first", "second")
        \/ rPc[t] = "second" /\ i = Rows!SecondAccount(rCall[t]) /\ Rows!LockRow(t, i, "second", "debit")
  BY DEF Rows!LockFirst, Rows!LockSecond, Rows!LockRow
<1>2. /\ i \in exists /\ rowLock[i] = Null /\ rowLock' = [rowLock EXCEPT ![i] = t]
      /\ UNCHANGED <<exists, rBalance, rTransfers, rCall, debited>>
  BY <1>1 DEF Rows!LockRow
<1>3. \/ /\ rPc[t] = "first" /\ i = Rows!FirstAccount(rCall[t])
         /\ rPc' = [rPc EXCEPT ![t] = "second"]
      \/ /\ rPc[t] = "second" /\ i = Rows!SecondAccount(rCall[t])
         /\ rPc' = [rPc EXCEPT ![t] = "debit"]
  BY <1>1 DEF Rows!LockRow
<1>4. Rows!TypeOK'
  BY <1>2, <1>3
<1>5. \A u \in Threads, j \in exists : Holds(u, j) => Holds(u, j)'
  BY <1>2 DEF Holds
<1>6. Holds(t, i)'
  BY <1>2 DEF Holds
<1>7. RowsInFlight'
  <2>1. ASSUME NEW u \in Threads, u # t PROVE rPc'[u] = rPc[u] /\ rCall'[u] = rCall[u]
    BY <1>2, <1>3, <2>1
  <2> QED
    BY <1>2, <1>3, <1>5, <1>6, <2>1 DEF RowsInFlight, Holds, Rows!FirstAccount, Rows!SecondAccount
<1> QED
  BY <1>2, <1>4, <1>7

LEMMA DebitSound ==
  ASSUME RowInv, NEW t \in Threads, Rows!UpdateFrom(t)
  PROVE  RowInv' /\ UNCHANGED <<exists, rBalance, rTransfers>>
<1> USE WalletAssumption, RowAssumption DEF RowInv, Rows!TypeOK, Rows!UpdateFrom
<1>1. rCall[t] \in Rows!Calls /\ rCall[t].src \in Ids /\ rCall[t].amount \in Nat
  BY DEF RowsInFlight, Rows!Calls
<1>2. debited' = [debited EXCEPT ![t] = rBalance[rCall[t].src] - rCall[t].amount]
  OBVIOUS
<1>3. rBalance[rCall[t].src] - rCall[t].amount \in Nat
  <2>1. rBalance[rCall[t].src] \in Nat /\ rCall[t].amount <= rBalance[rCall[t].src]
    BY <1>1
  <2> QED
    BY <1>1, <2>1
<1>4. Rows!TypeOK'
  BY <1>2, <1>3
<1>5. RowsInFlight'
  BY <1>1 DEF RowsInFlight, Holds
<1> QED
  BY <1>4, <1>5

\* Every statement is a step of the bank or nothing that it sees.
LEMMA RowsAreBank ==
  ASSUME RowInv, [Rows!Next]_rowVars
  PROVE  RowInv' /\ [Rows!Bank!OpenOrTransfer]_(Rows!Bank!bankVars)
<1> USE WalletAssumption, RowAssumption DEF Rows!Bank!bankVars
<1>1. ASSUME NEW i \in Ids, NEW b \in Balances, Rows!CreateAccount(i, b)
      PROVE  RowInv' /\ Rows!Bank!Open(i, b)
  <2>1. Rows!TypeOK'
    BY <1>1 DEF Rows!CreateAccount, RowInv, Rows!TypeOK
  <2>2. RowsInFlight'
    <3>1. \A t \in Threads : rPc[t] = "commit" => Holds(t, rCall[t].src)
      BY DEF RowInv, RowsInFlight, Rows!FirstAccount, Rows!SecondAccount
    <3> QED
      BY <1>1, <3>1 DEF Rows!CreateAccount, RowInv, Rows!TypeOK, RowsInFlight, Holds
  <2> QED
    BY <1>1, <2>1, <2>2 DEF Rows!CreateAccount, RowInv, Rows!Bank!Open, Rows!Settled
<1>2. ASSUME NEW t \in Threads, NEW c \in Rows!Calls, Rows!Transfer(t, c)
      PROVE  RowInv' /\ UNCHANGED Rows!Bank!bankVars
  BY <1>2 DEF Rows!Transfer, RowInv, Rows!TypeOK, RowsInFlight, Holds, Rows!Settled
<1>3. ASSUME NEW t \in Threads, Rows!LockFirst(t) \/ Rows!LockSecond(t) \/ Rows!UpdateFrom(t)
      PROVE  RowInv' /\ UNCHANGED Rows!Bank!bankVars
  BY <1>3, LocksTaken, DebitSound DEF Rows!Settled
<1>4. ASSUME NEW t \in Threads, Rows!AccountNotFound(t) \/ Rows!NotEnoughBalance(t) \/ Rows!LoseConnection(t)
      PROVE  RowInv' /\ UNCHANGED Rows!Bank!bankVars
  <2>1. Rows!Finish(t) /\ UNCHANGED <<exists, rBalance, rTransfers>>
    BY <1>4 DEF Rows!AccountNotFound, Rows!NotEnoughBalance, Rows!LoseConnection
  <2> QED
    BY <2>1, FinishSound DEF Rows!Settled, RowInv, Rows!TypeOK
<1>5. ASSUME NEW t \in Threads, Rows!Commit(t)
      PROVE  RowInv' /\ Rows!Bank!OpenOrTransfer
  BY <1>5, CommitIsTransfer DEF Rows!Bank!OpenOrTransfer
<1>6. CASE UNCHANGED rowVars
  BY <1>6 DEF rowVars, RowInv, Rows!TypeOK, RowsInFlight, Holds, Rows!Settled
<1> QED
  BY <1>1, <1>2, <1>3, <1>4, <1>5, <1>6 DEF Rows!Next, Rows!Step, Rows!Bank!OpenOrTransfer

--------------------------------------------------------------------------------
(* The record of the transfers in memory.  An object has at most one id,   *)
(* and a transfer goes on with the objects it found; while every object    *)
(* that was made still has its id, those are the objects of its ids.       *)
OnceGiven == \A o \in Memory!Made : \E i \in Ids : at[i] = o

IdsSound ==
  /\ \A i \in Ids : at[i] # Null => at[i] \in Memory!Made
  /\ \A i, j \in Ids : at[i] # Null /\ at[i] = at[j] => i = j

CallsFound ==
  \A t \in Callers : mPc[t] # "idle" =>
    /\ mCall[t] \in Memory!Calls
    /\ mCall[t].src # mCall[t].dst /\ mCall[t].from # mCall[t].to
    /\ mCall[t].from \in Memory!Made /\ mCall[t].to \in Memory!Made
    /\ at[mCall[t].src] # Null /\ at[mCall[t].dst] # Null
    /\ OnceGiven => at[mCall[t].src] = mCall[t].from /\ at[mCall[t].dst] = mCall[t].to

RecordKnown ==
  \A c \in Memory!Transfers : recorded[c] # 0 => at[c.src] # Null /\ at[c.dst] # Null

CountsFinite ==
  /\ IsFiniteSet(Memory!Money(mBalance)) /\ IsFiniteSet(Memory!Money(opening))
  /\ IsFiniteSet(Memory!OnRecord(Memory!Transfers)) /\ IsFiniteSet(Memory!ToRecord(Memory!Transfers))

MemoryInv ==
  /\ Memory!TypeOK /\ IdsSound /\ CallsFound /\ RecordKnown
  /\ CountsFinite /\ Memory!RecordExplains

\* Cardinality is the same operator wherever it is declared.
LEMMA MemoryCounts == \A S : Memory!Cardinality(S) = Cardinality(S)
  BY DEF Memory!Cardinality, Cardinality

LEMMA MoneyInUnits == \A f : Memory!Money(f) = Units(Memory!Made, f)
  BY DEF Memory!Money, Units

Pending(C) == {t \in Callers : mPc[t] = "record" /\ Memory!Asked(t) \in C}

LEMMA InToRecord ==
  \A C : \A z : z \in Memory!ToRecord(C) <=>
                  \E t \in Pending(C) : \E n \in 1 .. mCall[t].amount : z = <<t, n>>
  BY DEF Memory!ToRecord, Pending

LEMMA InOnRecord ==
  \A C : \A z : z \in Memory!OnRecord(C) <=>
                  \E c \in C : \E k \in 1 .. recorded[c] : \E n \in 1 .. c.amount : z = <<<<c, k>>, n>>
  BY DEF Memory!OnRecord

LEMMA CountsOfMoved ==
  ASSUME CountsFinite, NEW C \in SUBSET Memory!Transfers
  PROVE  /\ IsFiniteSet(Memory!OnRecord(C)) /\ IsFiniteSet(Memory!ToRecord(C))
         /\ Cardinality(Memory!OnRecord(C)) \in Nat /\ Cardinality(Memory!ToRecord(C)) \in Nat
         /\ Memory!Moved(C) = Cardinality(Memory!OnRecord(C)) + Cardinality(Memory!ToRecord(C))
<1>1. Memory!OnRecord(C) \in SUBSET Memory!OnRecord(Memory!Transfers)
  BY InOnRecord
<1>2. Memory!ToRecord(C) \in SUBSET Memory!ToRecord(Memory!Transfers)
  BY InToRecord DEF Pending
<1>3. IsFiniteSet(Memory!OnRecord(C)) /\ IsFiniteSet(Memory!ToRecord(C))
  BY <1>1, <1>2, FS_Subset DEF CountsFinite
<1>4. Cardinality(Memory!OnRecord(C)) \in Nat /\ Cardinality(Memory!ToRecord(C)) \in Nat
  BY <1>3, FS_CardinalityType
<1> QED
  BY <1>3, <1>4, MemoryCounts DEF Memory!Moved

LEMMA MemoryInit == Memory!Init => MemoryInv
<1> SUFFICES ASSUME Memory!Init PROVE MemoryInv
  OBVIOUS
<1> USE WalletAssumption, RowAssumption, OpeningAssumption
<1>1. Memory!TypeOK
  BY DEF Memory!Init, Memory!TypeOK
<1>2. \A o : o \notin Memory!Made
  BY DEF Memory!Init, Memory!Made
<1>3. IdsSound /\ CallsFound /\ RecordKnown
  BY DEF Memory!Init, IdsSound, CallsFound, RecordKnown
<1>4. \A z : z \notin Memory!Money(mBalance) /\ z \notin Memory!Money(opening)
  BY <1>2, MoneyInUnits, InUnits
<1>5. \A z : z \notin Memory!OnRecord(Memory!Transfers)
  BY InOnRecord DEF Memory!Init
<1>6. \A z : z \notin Memory!ToRecord(Memory!Transfers)
  BY InToRecord DEF Memory!Init, Pending
<1>7. CountsFinite
  BY <1>4, <1>5, <1>6, NoneCounted DEF CountsFinite
<1>8. Cardinality(Memory!Money(mBalance)) = 0 /\ Cardinality(Memory!Money(opening)) = 0
  BY <1>4, NoneCounted
<1>9. \A i \in Ids : at[i] = Null
  BY DEF Memory!Init
<1>10. Memory!RecordExplains
  BY <1>8, <1>9, MemoryCounts DEF Memory!RecordExplains
<1> QED
  BY <1>1, <1>3, <1>7, <1>10 DEF MemoryInv

\* What the transfers come to changes only when a record is written or comes due.
LEMMA MovedStays ==
  ASSUME recorded' = recorded,
         \A t \in Callers : mPc'[t] = "record" <=> mPc[t] = "record",
         \A t \in Callers : mPc[t] = "record" => mCall'[t] = mCall[t]
  PROVE  \A C : /\ Memory!OnRecord(C)' = Memory!OnRecord(C)
                /\ Memory!ToRecord(C)' = Memory!ToRecord(C)
                /\ Memory!Moved(C)' = Memory!Moved(C)
<1>1. \A C : Memory!OnRecord(C)' = Memory!OnRecord(C)
  BY DEF Memory!OnRecord
<1>2. ASSUME NEW C PROVE Memory!ToRecord(C)' = Memory!ToRecord(C)
  <2>1. \A t : t \in Pending(C)' <=> t \in Pending(C)
    BY DEF Pending, Memory!Asked
  <2>2. \A t \in Pending(C) : mCall'[t] = mCall[t]
    BY DEF Pending
  <2>3. ASSUME NEW z
        PROVE  z \in Memory!ToRecord(C)' <=>
                 \E t \in Pending(C)' : \E n \in 1 .. mCall'[t].amount : z = <<t, n>>
    BY DEF Memory!ToRecord, Pending
  <2>4. \A z : z \in Memory!ToRecord(C)' <=> z \in Memory!ToRecord(C)
    BY <2>1, <2>2, <2>3, InToRecord
  <2> QED
    BY <2>4
<1> QED
  BY <1>1, <1>2 DEF Memory!Moved

LEMMA MemoryCreate ==
  ASSUME MemoryInv, NEW i \in Ids, NEW o \in Objects, NEW b \in Balances, Memory!CreateAccount(i, o, b)
  PROVE  MemoryInv'
<1> USE RowAssumption, OpeningAssumption DEF MemoryInv
<1>1. /\ opening[o] = Null /\ opening' = [opening EXCEPT ![o] = b] /\ b \in Nat /\ b # Null
      /\ at' = [at EXCEPT ![i] = o] /\ o # Null
      /\ mBalance' = [mBalance EXCEPT ![o] = b]
      /\ UNCHANGED <<mLock, recorded, mPc, mCall, mCalls>>
  BY DEF Memory!CreateAccount
<1>2. Memory!TypeOK'
  BY <1>1 DEF Memory!TypeOK
<1>3. o \notin Memory!Made /\ Memory!Made' = Memory!Made \cup {o}
  BY <1>1 DEF Memory!Made, Memory!TypeOK
<1>4. at'[i] = o /\ \A j \in Ids : j # i => at'[j] = at[j]
  BY <1>1 DEF Memory!TypeOK
<1>5. IdsSound'
  BY <1>1, <1>3, <1>4 DEF IdsSound
<1>6. ASSUME OnceGiven' PROVE at[i] = Null /\ OnceGiven
  <2>1. \A p \in Memory!Made : \E j \in Ids : at'[j] = p /\ j # i
    BY <1>3, <1>4, <1>6 DEF OnceGiven
  <2>2. \A p \in Memory!Made : \E j \in Ids : at[j] = p /\ j # i
    BY <1>4, <2>1
  <2> QED
    BY <2>2 DEF OnceGiven, IdsSound
<1>7. CallsFound'
  <2> SUFFICES ASSUME NEW t \in Callers, mPc'[t] # "idle"
               PROVE  /\ mCall'[t] \in Memory!Calls
                      /\ mCall'[t].src # mCall'[t].dst /\ mCall'[t].from # mCall'[t].to
                      /\ mCall'[t].from \in Memory!Made' /\ mCall'[t].to \in Memory!Made'
                      /\ at'[mCall'[t].src] # Null /\ at'[mCall'[t].dst] # Null
                      /\ OnceGiven' => at'[mCall'[t].src] = mCall'[t].from /\ at'[mCall'[t].dst] = mCall'[t].to
    BY DEF CallsFound
  <2> DEFINE c == mCall[t]
  <2>1. /\ c \in Memory!Calls /\ c.src \in Ids /\ c.dst \in Ids
        /\ c.src # c.dst /\ c.from # c.to
        /\ c.from \in Memory!Made /\ c.to \in Memory!Made
        /\ at[c.src] # Null /\ at[c.dst] # Null
        /\ OnceGiven => at[c.src] = c.from /\ at[c.dst] = c.to
    BY <1>1 DEF CallsFound, Memory!Calls
  <2>2. mCall'[t] = c
    BY <1>1
  <2> HIDE DEF c, MemoryInv
  <2>3. at'[c.src] # Null /\ at'[c.dst] # Null
    BY <1>1, <1>4, <2>1
  <2>4. ASSUME OnceGiven' PROVE at'[c.src] = c.from /\ at'[c.dst] = c.to
    BY <1>4, <1>6, <2>1, <2>4
  <2> QED
    BY <1>3, <2>1, <2>2, <2>3, <2>4
<1>8. RecordKnown'
  BY <1>1, <1>4 DEF RecordKnown
<1>9. \A C : /\ Memory!OnRecord(C)' = Memory!OnRecord(C)
             /\ Memory!ToRecord(C)' = Memory!ToRecord(C)
             /\ Memory!Moved(C)' = Memory!Moved(C)
  BY <1>1, MovedStays
<1>10. ASSUME NEW f, NEW g, g[o] = b, \A p \in Memory!Made : g[p] = f[p], IsFiniteSet(Memory!Money(f))
       PROVE  /\ IsFiniteSet(Units(Memory!Made', g))
              /\ Cardinality(Units(Memory!Made', g)) = Cardinality(Memory!Money(f)) + b
  <2>1. Memory!Money(f) = Units(Memory!Made, f)
    BY MoneyInUnits
  <2>2. /\ IsFiniteSet(Units(Memory!Made \cup {o}, g))
        /\ Cardinality(Units(Memory!Made \cup {o}, g)) = Cardinality(Units(Memory!Made, f)) + b
    <3>1. IsFiniteSet(Units(Memory!Made, f))
      BY <1>10, <2>1, Zenon
    <3>2. o \notin Memory!Made /\ g[o] \in Nat /\ \A p \in Memory!Made : g[p] = f[p]
      BY <1>1, <1>3, <1>10
    <3> HIDE DEF MemoryInv
    <3>3. /\ IsFiniteSet(Units(Memory!Made \cup {o}, g))
          /\ Cardinality(Units(Memory!Made \cup {o}, g)) = Cardinality(Units(Memory!Made, f)) + g[o]
      BY <3>1, <3>2, AddUnits
    <3> QED
      BY <1>10, <3>3, Zenon
  <2>3. Memory!Made' = Memory!Made \cup {o}
    BY <1>3, Zenon
  <2> QED
    BY <2>1, <2>2, <2>3, Zenon
<1>11. /\ Memory!Money(mBalance)' = Units(Memory!Made', mBalance')
       /\ Memory!Money(opening)' = Units(Memory!Made', opening')
  BY DEF Memory!Money, Units
<1>12. /\ mBalance'[o] = b /\ opening'[o] = b
       /\ \A p \in Memory!Made : mBalance'[p] = mBalance[p] /\ opening'[p] = opening[p]
  BY <1>1, <1>3 DEF Memory!TypeOK, Memory!Made
<1>13. /\ IsFiniteSet(Memory!Money(mBalance)') /\ IsFiniteSet(Memory!Money(opening)')
       /\ Cardinality(Memory!Money(mBalance)') = Cardinality(Memory!Money(mBalance)) + b
       /\ Cardinality(Memory!Money(opening)') = Cardinality(Memory!Money(opening)) + b
  BY <1>10, <1>11, <1>12 DEF CountsFinite
<1>14. CountsFinite'
  BY <1>9, <1>13 DEF CountsFinite
<1>15. Cardinality(Memory!Money(mBalance)') = Cardinality(Memory!Money(opening)')
  BY <1>13, MemoryCounts DEF Memory!RecordExplains
<1>16. ASSUME OnceGiven', NEW j \in Ids, at'[j] # Null
       PROVE  mBalance'[at'[j]] + Memory!Moved(Memory!From(j))'
                = opening'[at'[j]] + Memory!Moved(Memory!To(j))'
  <2>1. CASE j # i
    <3>1. at'[j] = at[j] /\ at[j] \in Memory!Made
      BY <1>4, <1>16, <2>1 DEF IdsSound
    <3>2. mBalance[at[j]] + Memory!Moved(Memory!From(j)) = opening[at[j]] + Memory!Moved(Memory!To(j))
      BY <1>6, <1>16, <3>1 DEF Memory!RecordExplains, OnceGiven
    <3> QED
      BY <1>9, <1>12, <3>1, <3>2
  <2>2. CASE j = i
    <3>1. at[i] = Null
      BY <1>6, <1>16
    <3>2. \A C \in {Memory!From(i), Memory!To(i)} : C \in SUBSET Memory!Transfers
      BY DEF Memory!From, Memory!To
    <3>3. \A C \in {Memory!From(i), Memory!To(i)} : \A z : z \notin Memory!OnRecord(C)
      <4>1. \A c \in Memory!From(i) \cup Memory!To(i) : recorded[c] = 0
        BY <3>1 DEF RecordKnown, Memory!From, Memory!To
      <4> QED
        BY <4>1, InOnRecord
    <3>4. \A C \in {Memory!From(i), Memory!To(i)} : \A z : z \notin Memory!ToRecord(C)
      <4>1. \A C \in {Memory!From(i), Memory!To(i)} : \A t : t \notin Pending(C)
        BY <3>1 DEF Pending, CallsFound, Memory!From, Memory!To, Memory!Asked
      <4> QED
        BY <4>1, InToRecord
    <3>5. \A C \in {Memory!From(i), Memory!To(i)} : Memory!Moved(C) = 0
      <4> SUFFICES ASSUME NEW C \in {Memory!From(i), Memory!To(i)} PROVE Memory!Moved(C) = 0
        OBVIOUS
      <4>1. Cardinality(Memory!OnRecord(C)) = 0 /\ Cardinality(Memory!ToRecord(C)) = 0
        BY <3>3, <3>4, NoneCounted
      <4> QED
        BY <3>2, <4>1, CountsOfMoved
    <3>6. Memory!Moved(Memory!From(i))' = 0 /\ Memory!Moved(Memory!To(i))' = 0
      BY <1>9, <3>5
    <3> HIDE DEF MemoryInv
    <3> QED
      BY <1>4, <1>12, <2>2, <3>6
  <2> QED
    BY <2>1, <2>2
<1>17. Memory!RecordExplains'
  BY <1>15, <1>16, MemoryCounts DEF Memory!RecordExplains, OnceGiven
<1> QED
  BY <1>2, <1>5, <1>7, <1>8, <1>14, <1>17

\* The steps that move nothing and record nothing.
LEMMA MemoryQuiet ==
  ASSUME MemoryInv, UNCHANGED <<at, opening, mBalance, recorded>>,
         Memory!TypeOK', CallsFound',
         \A t \in Callers : mPc'[t] = "record" <=> mPc[t] = "record",
         \A t \in Callers : mPc[t] = "record" => mCall'[t] = mCall[t]
  PROVE  MemoryInv'
<1> USE DEF MemoryInv
<1>1. \A C : /\ Memory!OnRecord(C)' = Memory!OnRecord(C)
             /\ Memory!ToRecord(C)' = Memory!ToRecord(C)
             /\ Memory!Moved(C)' = Memory!Moved(C)
  BY MovedStays
<1>2. /\ Memory!Made' = Memory!Made
      /\ Memory!Money(mBalance)' = Memory!Money(mBalance)
      /\ Memory!Money(opening)' = Memory!Money(opening)
  BY DEF Memory!Made, Memory!Money
<1>3. IdsSound' /\ RecordKnown'
  BY <1>2 DEF IdsSound, RecordKnown
<1>4. CountsFinite'
  BY <1>1, <1>2 DEF CountsFinite
<1>5. Memory!RecordExplains'
  BY <1>1, <1>2, MemoryCounts DEF Memory!RecordExplains
<1> QED
  BY <1>3, <1>4, <1>5

LEMMA MemoryTransfer ==
  ASSUME MemoryInv, NEW t \in Callers, NEW i \in Ids, NEW j \in Ids, NEW n \in Amounts,
         Memory!Transfer(t, i, j, n)
  PROVE  MemoryInv'
<1> USE WalletAssumption, RowAssumption, OpeningAssumption DEF MemoryInv
<1> DEFINE c == [src |-> i, dst |-> j, amount |-> n, from |-> at[i], to |-> at[j]]
<1>1. /\ mPc[t] = "idle" /\ mCalls[t] < MaxCalls /\ i # j /\ at[i] # Null /\ at[j] # Null
      /\ mPc' = [mPc EXCEPT ![t] = "first"] /\ mCall' = [mCall EXCEPT ![t] = c]
      /\ mCalls' = [mCalls EXCEPT ![t] = @ + 1]
      /\ UNCHANGED <<at, opening, mBalance, mLock, recorded>>
  BY DEF Memory!Transfer
<1>2. at[i] \in Memory!Made /\ at[j] \in Memory!Made /\ at[i] # at[j] /\ Memory!Made' = Memory!Made
      /\ Memory!Made \subseteq Objects
  BY <1>1 DEF IdsSound, Memory!Made
<1>3. c \in Memory!Calls
  BY <1>2 DEF Memory!Calls
<1>4. Memory!TypeOK'
  <2>1. mCalls' \in [Callers -> 0 .. MaxCalls]
    <3>1. mCalls[t] \in 0 .. MaxCalls /\ mCalls[t] + 1 \in 0 .. MaxCalls
      BY <1>1 DEF Memory!TypeOK
    <3> QED
      BY <1>1, <3>1 DEF Memory!TypeOK
  <2> HIDE DEF c
  <2> QED
    BY <1>1, <1>3, <2>1 DEF Memory!TypeOK
<1>5. CallsFound'
  <2>1. OnceGiven' = OnceGiven
    BY <1>1, <1>2 DEF OnceGiven
  <2>2. /\ c.src = i /\ c.dst = j /\ c.from = at[i] /\ c.to = at[j]
    OBVIOUS
  <2>3. mCall'[t] = c /\ \A u \in Callers : u # t => mPc'[u] = mPc[u] /\ mCall'[u] = mCall[u]
    BY <1>1 DEF Memory!TypeOK
  <2> HIDE DEF c
  <2> QED
    BY <1>1, <1>2, <1>3, <2>1, <2>2, <2>3 DEF CallsFound
<1>6. \A u \in Callers : (mPc'[u] = "record" <=> mPc[u] = "record") /\ (mPc[u] = "record" => mCall'[u] = mCall[u])
  BY <1>1 DEF Memory!TypeOK
<1> QED
  BY <1>1, <1>4, <1>5, <1>6, MemoryQuiet

LEMMA MemoryAcquire ==
  ASSUME MemoryInv, NEW t \in Callers,
         Memory!AcquireFirst(t) \/ Memory!AcquireSecond(t) \/ Memory!RefuseTransfer(t)
  PROVE  MemoryInv'
<1> USE WalletAssumption, RowAssumption, OpeningAssumption DEF MemoryInv
<1>1. /\ UNCHANGED <<at, opening, mBalance, recorded, mCalls>>
      /\ mLock' \in [Objects -> Callers \cup {Null}]
      /\ mPc[t] \in {"first", "second", "locked"}
      /\ \E to \in {"second", "locked", "idle"} :
           /\ mPc' = [mPc EXCEPT ![t] = to]
           /\ mCall' = [mCall EXCEPT ![t] = IF to = "idle" THEN Null ELSE @]
  <2>1. CASE Memory!AcquireFirst(t)
    BY <2>1 DEF Memory!AcquireFirst, Memory!Goto, Memory!TypeOK
  <2>2. CASE Memory!AcquireSecond(t)
    BY <2>2 DEF Memory!AcquireSecond, Memory!Goto, Memory!TypeOK
  <2>3. CASE Memory!RefuseTransfer(t)
    BY <2>3 DEF Memory!RefuseTransfer, Memory!ReleaseBoth, Memory!Goto, Memory!TypeOK
  <2> QED
    BY <2>1, <2>2, <2>3
<1>2. PICK to \in {"second", "locked", "idle"} :
        /\ mPc' = [mPc EXCEPT ![t] = to]
        /\ mCall' = [mCall EXCEPT ![t] = IF to = "idle" THEN Null ELSE @]
  BY <1>1
<1>3. Memory!TypeOK'
  <2>1. mCall' \in [Callers -> Memory!Calls \cup {Null}]
    BY <1>2 DEF Memory!TypeOK
  <2> QED
    BY <1>1, <1>2, <2>1 DEF Memory!TypeOK
<1>4. \A u \in Callers : u # t => mPc'[u] = mPc[u] /\ mCall'[u] = mCall[u]
  BY <1>2 DEF Memory!TypeOK
<1>5. mPc'[t] = to /\ (to # "idle" => mCall'[t] = mCall[t]) /\ mPc[t] # "idle"
  BY <1>1, <1>2 DEF Memory!TypeOK
<1>6. CallsFound'
  <2>1. Memory!Made' = Memory!Made /\ OnceGiven' = OnceGiven /\ at' = at
    BY <1>1 DEF Memory!Made, OnceGiven
  <2> QED
    BY <1>4, <1>5, <2>1 DEF CallsFound
<1>7. \A u \in Callers : (mPc'[u] = "record" <=> mPc[u] = "record") /\ (mPc[u] = "record" => mCall'[u] = mCall[u])
  BY <1>1, <1>4, <1>5
<1> QED
  BY <1>1, <1>3, <1>6, <1>7, MemoryQuiet

\* When the money has moved, the transfer has its record to write.
LEMMA RecordDue ==
  ASSUME MemoryInv, NEW t \in Callers, mPc[t] = "locked", mPc' = [mPc EXCEPT ![t] = "record"],
         \A u \in Callers : mCall'[u] = mCall[u], recorded' = recorded,
         mCall[t].amount \in Nat, NEW C \in SUBSET Memory!Transfers
  PROVE  /\ IsFiniteSet(Memory!ToRecord(C)')
         /\ Memory!OnRecord(C)' = Memory!OnRecord(C)
         /\ Memory!Moved(C)' = Memory!Moved(C) + (IF Memory!Asked(t) \in C THEN mCall[t].amount ELSE 0)
<1> USE DEF MemoryInv
<1>1. Memory!OnRecord(C)' = Memory!OnRecord(C)
  BY DEF Memory!OnRecord
<1> DEFINE due == [u \in Callers |-> mCall[u].amount]
<1>2. /\ \A S \in SUBSET Callers : Units(S, due) = UNION {{u} \X (1 .. mCall[u].amount) : u \in S}
  BY DEF Units
<1>3. Memory!ToRecord(C) = Units(Pending(C), due)
  BY <1>2 DEF Memory!ToRecord, Pending
<1>4. Memory!ToRecord(C)' = Units(Pending(C)', due)
  <2>1. Memory!ToRecord(C)' = UNION {{u} \X (1 .. mCall'[u].amount) : u \in Pending(C)'}
    BY DEF Memory!ToRecord, Pending
  <2>2. Pending(C)' \in SUBSET Callers
    BY DEF Pending
  <2>3. UNION {{u} \X (1 .. mCall'[u].amount) : u \in Pending(C)'}
          = UNION {{u} \X (1 .. mCall[u].amount) : u \in Pending(C)'}
    BY <2>2
  <2> QED
    BY <1>2, <2>1, <2>2, <2>3, Zenon
<1>5. t \notin Pending(C)
  BY DEF Pending
<1>6. Pending(C)' = IF Memory!Asked(t) \in C THEN Pending(C) \cup {t} ELSE Pending(C)
  <2>1. \A u : u \in Pending(C)' <=>
                 u \in (IF Memory!Asked(t) \in C THEN Pending(C) \cup {t} ELSE Pending(C))
    BY DEF Pending, Memory!Asked, Memory!TypeOK
  <2> QED
    BY <2>1
<1>7. due[t] = mCall[t].amount
  OBVIOUS
<1>8. /\ IsFiniteSet(Memory!ToRecord(C)) /\ Cardinality(Memory!OnRecord(C)) \in Nat
      /\ Cardinality(Memory!ToRecord(C)) \in Nat
      /\ Memory!Moved(C) = Cardinality(Memory!OnRecord(C)) + Cardinality(Memory!ToRecord(C))
  BY CountsOfMoved
<1>9. Memory!Moved(C)' = Cardinality(Memory!OnRecord(C)') + Cardinality(Memory!ToRecord(C)')
  BY MemoryCounts DEF Memory!Moved
<1> HIDE DEF due, MemoryInv
<1>10. CASE Memory!Asked(t) \in C
  <2>1. Memory!ToRecord(C)' = Units(Pending(C) \cup {t}, due)
    BY <1>4, <1>6, <1>10, Zenon
  <2>2. IsFiniteSet(Units(Pending(C), due))
    BY <1>3, <1>8, Zenon
  <2>3. /\ IsFiniteSet(Units(Pending(C) \cup {t}, due))
        /\ Cardinality(Units(Pending(C) \cup {t}, due)) = Cardinality(Units(Pending(C), due)) + due[t]
    <3>1. due[t] \in Nat
      BY <1>7
    <3> QED
      BY <1>5, <2>2, <3>1, MoreUnits, Zenon
  <2>4. /\ IsFiniteSet(Memory!ToRecord(C)')
        /\ Cardinality(Memory!ToRecord(C)') = Cardinality(Memory!ToRecord(C)) + mCall[t].amount
    BY <1>3, <1>7, <2>1, <2>3, Zenon
  <2>5. Memory!Moved(C)' = Cardinality(Memory!OnRecord(C)) + Cardinality(Memory!ToRecord(C)')
    BY <1>1, <1>9, Zenon
  <2> QED
    BY <1>1, <1>8, <1>10, <2>4, <2>5
<1>11. CASE Memory!Asked(t) \notin C
  <2>1. Memory!ToRecord(C)' = Memory!ToRecord(C)
    BY <1>3, <1>4, <1>6, <1>11, Zenon
  <2>2. Memory!Moved(C)' = Memory!Moved(C)
    BY <1>1, <1>8, <1>9, <2>1, Zenon
  <2>3. Memory!Moved(C) \in Nat
    BY <1>8
  <2> QED
    BY <1>1, <1>8, <1>11, <2>1, <2>2, <2>3
<1> QED
  BY <1>10, <1>11

LEMMA MemoryMove ==
  ASSUME MemoryInv, NEW t \in Callers, Memory!TransferTo(t)
  PROVE  MemoryInv'
<1> USE WalletAssumption, RowAssumption, OpeningAssumption DEF MemoryInv
<1> DEFINE c == mCall[t]
           taken == [mBalance EXCEPT ![c.from] = @ - c.amount]
<1>1. /\ mPc[t] = "locked" /\ mPc' = [mPc EXCEPT ![t] = "record"] /\ mCall' = [mCall EXCEPT ![t] = @]
      /\ c.amount <= mBalance[c.from]
      /\ mBalance' = [mBalance EXCEPT ![c.from] = @ - c.amount, ![c.to] = @ + c.amount]
      /\ mLock' = [o \in Objects |-> IF mLock[o] = t THEN Null ELSE mLock[o]]
      /\ UNCHANGED <<at, opening, recorded, mCalls>>
  BY DEF Memory!TransferTo, Memory!Goto, Memory!ReleaseBoth
<1>2. /\ c \in Memory!Calls /\ c.src \in Ids /\ c.dst \in Ids /\ c.src # c.dst /\ c.amount \in Nat
      /\ c.amount \in Amounts
      /\ c.from \in Objects /\ c.to \in Objects /\ c.from # c.to
      /\ c.from \in Memory!Made /\ c.to \in Memory!Made
      /\ at[c.src] # Null /\ at[c.dst] # Null
      /\ OnceGiven => at[c.src] = c.from /\ at[c.dst] = c.to
  BY <1>1 DEF CallsFound, Memory!Calls
<1>3. \A u \in Callers : mCall'[u] = mCall[u] /\ (u # t => mPc'[u] = mPc[u])
  BY <1>1 DEF Memory!TypeOK
<1>4. mCall' = mCall
  BY <1>1 DEF Memory!TypeOK
<1>5. /\ mBalance[c.from] \in Nat /\ mBalance[c.to] \in Nat
      /\ mBalance[c.from] - c.amount \in Nat /\ mBalance[c.to] + c.amount \in Nat
  <2>1. mBalance[c.from] \in Nat /\ mBalance[c.to] \in Nat
    BY <1>2 DEF Memory!TypeOK
  <2> QED
    BY <1>1, <1>2, <2>1
<1>6. /\ mBalance'[c.from] = mBalance[c.from] - c.amount
      /\ mBalance'[c.to] = mBalance[c.to] + c.amount
      /\ \A o \in Objects : o \notin {c.from, c.to} => mBalance'[o] = mBalance[o]
  BY <1>1, <1>2 DEF Memory!TypeOK
<1>7. /\ taken[c.from] = mBalance[c.from] - c.amount /\ taken[c.to] = mBalance[c.to]
      /\ \A o \in Objects : o # c.from => taken[o] = mBalance[o]
      /\ \A o \in Objects : o # c.to => mBalance'[o] = taken[o]
  BY <1>1, <1>2 DEF Memory!TypeOK
<1> HIDE DEF c, taken
<1>8. Memory!TypeOK'
  <2>1. mBalance' \in [Objects -> Nat]
    BY <1>1, <1>2, <1>5 DEF Memory!TypeOK
  <2>2. mLock' \in [Objects -> Callers \cup {Null}]
    BY <1>1 DEF Memory!TypeOK
  <2> QED
    BY <1>1, <1>4, <2>1, <2>2 DEF Memory!TypeOK
<1>9. Memory!Made' = Memory!Made /\ OnceGiven' = OnceGiven /\ Memory!Made \subseteq Objects
  BY <1>1 DEF Memory!Made, OnceGiven
<1>10. IdsSound' /\ RecordKnown'
  BY <1>1, <1>9 DEF IdsSound, RecordKnown
<1>11. CallsFound'
  BY <1>1, <1>3, <1>9 DEF CallsFound, Memory!TypeOK
<1>12. /\ IsFiniteSet(Memory!Money(mBalance)')
       /\ Cardinality(Memory!Money(mBalance)') = Cardinality(Memory!Money(mBalance))
  <2> DEFINE M == Memory!Made
  <2>1. Memory!Money(mBalance) = Units(M, mBalance)
    BY MoneyInUnits
  <2>2. Memory!Money(mBalance)' = Units(M, mBalance')
    BY <1>9 DEF Memory!Money, Units
  <2>3. IsFiniteSet(Units(M, mBalance))
    BY <2>1 DEF CountsFinite
  <2>4. c.from \in M /\ c.to \in M /\ M \subseteq Objects
    BY <1>2, <1>9
  <2>5. taken[c.from] \in Nat /\ taken[c.to] \in Nat /\ mBalance'[c.to] \in Nat
    BY <1>5, <1>6, <1>7
  <2>6. (\A o \in M : o # c.from => taken[o] = mBalance[o]) /\ (\A o \in M : o # c.to => mBalance'[o] = taken[o])
    BY <1>7, <2>4
  <2> HIDE DEF M, MemoryInv
  <2>7. /\ IsFiniteSet(Units(M, taken))
        /\ Cardinality(Units(M, mBalance)) \in Nat /\ Cardinality(Units(M, taken)) \in Nat
        /\ Cardinality(Units(M, taken)) + mBalance[c.from] = Cardinality(Units(M, mBalance)) + taken[c.from]
    BY <1>5, <2>3, <2>4, <2>5, <2>6, ChangeUnits
  <2>8. /\ IsFiniteSet(Units(M, mBalance')) /\ Cardinality(Units(M, mBalance')) \in Nat
        /\ Cardinality(Units(M, mBalance')) + taken[c.to] = Cardinality(Units(M, taken)) + mBalance'[c.to]
    BY <2>4, <2>5, <2>6, <2>7, ChangeUnits
  <2>9. Cardinality(Units(M, mBalance')) = Cardinality(Units(M, mBalance))
    BY <1>2, <1>5, <1>6, <1>7, <2>7, <2>8
  <2> QED
    BY <2>1, <2>2, <2>8, <2>9, Zenon
<1>13. Memory!Money(opening)' = Memory!Money(opening)
  BY <1>1, <1>9 DEF Memory!Money
<1>14. ASSUME NEW C \in SUBSET Memory!Transfers
       PROVE  /\ IsFiniteSet(Memory!ToRecord(C)')
              /\ Memory!OnRecord(C)' = Memory!OnRecord(C)
              /\ Memory!Moved(C)' = Memory!Moved(C) + (IF Memory!Asked(t) \in C THEN c.amount ELSE 0)
              /\ Memory!Moved(C) \in Nat
  <2>1. /\ IsFiniteSet(Memory!ToRecord(C)')
        /\ Memory!OnRecord(C)' = Memory!OnRecord(C)
        /\ Memory!Moved(C)' = Memory!Moved(C) + (IF Memory!Asked(t) \in C THEN c.amount ELSE 0)
    BY <1>1, <1>2, <1>3, RecordDue DEF c
  <2>2. Memory!Moved(C) \in Nat
    BY CountsOfMoved
  <2> QED
    BY <2>1, <2>2
<1>15. CountsFinite'
  <2>1. IsFiniteSet(Memory!ToRecord(Memory!Transfers)') /\ IsFiniteSet(Memory!OnRecord(Memory!Transfers)')
    BY <1>14 DEF CountsFinite
  <2> QED
    BY <1>12, <1>13, <2>1 DEF CountsFinite
<1>16. ASSUME NEW i \in Ids
       PROVE  /\ Memory!From(i) \in SUBSET Memory!Transfers /\ Memory!To(i) \in SUBSET Memory!Transfers
              /\ Memory!Asked(t) \in Memory!From(i) <=> i = c.src
              /\ Memory!Asked(t) \in Memory!To(i) <=> i = c.dst
  BY <1>2 DEF Memory!From, Memory!To, Memory!Asked, Memory!Transfers, c
<1>17. ASSUME OnceGiven, NEW i \in Ids, at[i] # Null
       PROVE  mBalance'[at[i]] + Memory!Moved(Memory!From(i))' = opening[at[i]] + Memory!Moved(Memory!To(i))'
  <2> DEFINE from == Memory!Moved(Memory!From(i))
             to == Memory!Moved(Memory!To(i))
  <2>1. from \in Nat /\ to \in Nat
    BY <1>14, <1>16
  <2>2. from' = from + (IF i = c.src THEN c.amount ELSE 0)
    BY <1>14, <1>16
  <2>3. to' = to + (IF i = c.dst THEN c.amount ELSE 0)
    BY <1>14, <1>16
  <2>4. at[i] \in Memory!Made /\ at[i] \in Objects
    BY <1>9, <1>17 DEF IdsSound
  <2>5. mBalance[at[i]] + from = opening[at[i]] + to
    BY <1>17 DEF Memory!RecordExplains, OnceGiven
  <2>6. opening[at[i]] \in Nat /\ mBalance[at[i]] \in Nat
    BY <2>4 DEF Memory!Made, Memory!TypeOK
  <2>7. (at[i] = c.from => i = c.src) /\ (at[i] = c.to => i = c.dst)
    BY <1>2, <1>17 DEF IdsSound
  <2> HIDE DEF from, to, MemoryInv
  <2>8. CASE i = c.src
    <3>1. at[i] = c.from /\ i # c.dst
      BY <1>2, <1>17, <2>8
    <3>2. mBalance'[at[i]] = mBalance[at[i]] - c.amount /\ from' = from + c.amount /\ to' = to
      BY <1>6, <2>1, <2>2, <2>3, <2>8, <3>1
    <3>3. mBalance'[at[i]] + from' = opening[at[i]] + to'
      BY <1>2, <2>1, <2>5, <2>6, <3>2
    <3> QED
      BY <3>3 DEF from, to
  <2>9. CASE i = c.dst
    <3>1. at[i] = c.to /\ i # c.src
      BY <1>2, <1>17, <2>9
    <3>2. mBalance'[at[i]] = mBalance[at[i]] + c.amount /\ from' = from /\ to' = to + c.amount
      BY <1>6, <2>1, <2>2, <2>3, <2>9, <3>1
    <3>3. mBalance'[at[i]] + from' = opening[at[i]] + to'
      BY <1>2, <2>1, <2>5, <2>6, <3>2
    <3> QED
      BY <3>3 DEF from, to
  <2>10. CASE i # c.src /\ i # c.dst
    <3>1. mBalance'[at[i]] = mBalance[at[i]]
      BY <1>6, <2>4, <2>7, <2>10
    <3>2. from' = from /\ to' = to
      BY <2>1, <2>2, <2>3, <2>10
    <3> QED
      BY <2>5, <3>1, <3>2 DEF from, to
  <2> QED
    BY <2>8, <2>9, <2>10
<1>18. Memory!RecordExplains'
  BY <1>1, <1>9, <1>12, <1>13, <1>17, MemoryCounts DEF Memory!RecordExplains, OnceGiven
<1> QED
  BY <1>8, <1>10, <1>11, <1>15, <1>18

\* A record counts as much as the transfer did while its record was due.
LEMMA RecordWritten ==
  ASSUME MemoryInv, NEW t \in Callers, Memory!Record(t),
         mCall[t].amount \in Nat, Memory!Asked(t) \in Memory!Transfers,
         NEW C \in SUBSET Memory!Transfers
  PROVE  /\ IsFiniteSet(Memory!OnRecord(C)') /\ IsFiniteSet(Memory!ToRecord(C)')
         /\ Memory!Moved(C)' = Memory!Moved(C)
<1> DEFINE c == mCall[t]
           a == Memory!Asked(t)
           block == {<<a, recorded[a] + 1>>} \X (1 .. c.amount)
           due == {t} \X (1 .. c.amount)
<1> USE DEF MemoryInv
<1>1. /\ mPc[t] = "record" /\ mPc' = [mPc EXCEPT ![t] = "idle"] /\ mCall' = [mCall EXCEPT ![t] = Null]
      /\ recorded' = [recorded EXCEPT ![a] = @ + 1]
  BY DEF Memory!Record, Memory!Goto
<1>2. a \in Memory!Transfers /\ a.amount = c.amount /\ recorded[a] \in Nat
  BY DEF Memory!Asked, Memory!TypeOK
<1>3. \A d \in Memory!Transfers : recorded'[d] = IF d = a THEN recorded[a] + 1 ELSE recorded[d]
  BY <1>1, <1>2 DEF Memory!TypeOK
<1>4. mPc'[t] = "idle" /\ \A u \in Callers : u # t => mPc'[u] = mPc[u] /\ mCall'[u] = mCall[u]
  BY <1>1 DEF Memory!TypeOK
<1>5. /\ IsFiniteSet(Memory!OnRecord(C)) /\ IsFiniteSet(Memory!ToRecord(C))
      /\ Cardinality(Memory!OnRecord(C)) \in Nat /\ Cardinality(Memory!ToRecord(C)) \in Nat
      /\ Memory!Moved(C) = Cardinality(Memory!OnRecord(C)) + Cardinality(Memory!ToRecord(C))
  BY CountsOfMoved
<1>6. \A z : z \in Memory!OnRecord(C)' <=>
               \E d \in C : \E k \in 1 .. recorded'[d] : \E n \in 1 .. d.amount : z = <<<<d, k>>, n>>
  BY DEF Memory!OnRecord
<1>7. \A z : z \in Memory!ToRecord(C)' <=>
               \E u \in Pending(C)' : \E n \in 1 .. mCall'[u].amount : z = <<u, n>>
  BY DEF Memory!ToRecord, Pending
<1>8. Pending(C)' \subseteq Callers /\ t \notin Pending(C)'
      /\ \A u : u \in Pending(C)' <=> u \in Pending(C) /\ u # t
  BY <1>1, <1>4 DEF Pending, Memory!Asked
<1>9. t \in Pending(C) <=> a \in C
  BY <1>1 DEF Pending
<1>10. Memory!Moved(C)' = Cardinality(Memory!OnRecord(C)') + Cardinality(Memory!ToRecord(C)')
  BY MemoryCounts DEF Memory!Moved
<1> HIDE DEF MemoryInv, a, c
<1>11. CASE a \in C
  <2>1. \A z : z \in Memory!OnRecord(C)' <=> z \in Memory!OnRecord(C) \/ z \in block
    <3>1. \A d \in C : \A k : k \in 1 .. recorded'[d] <=>
            k \in 1 .. recorded[d] \/ (d = a /\ k = recorded[a] + 1)
      BY <1>2, <1>3
    <3>2. \A z : z \in block <=> \E n \in 1 .. a.amount : z = <<<<a, recorded[a] + 1>>, n>>
      BY <1>2
    <3> QED
      BY <1>6, <1>11, <3>1, <3>2, InOnRecord
  <2>2. Memory!OnRecord(C)' = Memory!OnRecord(C) \cup block
    BY <2>1
  <2>3. \A k \in 1 .. c.amount : <<<<a, recorded[a] + 1>>, k>> \notin Memory!OnRecord(C)
    BY <1>2, InOnRecord
  <2>4. c.amount \in Nat
    BY DEF c
  <2>5. /\ IsFiniteSet(Memory!OnRecord(C) \cup block)
        /\ Cardinality(Memory!OnRecord(C) \cup block) = Cardinality(Memory!OnRecord(C)) + c.amount
    BY <1>5, <2>3, <2>4, AddBlock, Zenon
  <2>6. \A z : z \in Memory!ToRecord(C) <=> z \in Memory!ToRecord(C)' \/ z \in due
    <3>1. \A z : z \in due <=> \E n \in 1 .. mCall[t].amount : z = <<t, n>>
      BY DEF c
    <3> QED
      BY <1>4, <1>7, <1>8, <1>9, <1>11, <3>1, InToRecord
  <2>7. Memory!ToRecord(C) = Memory!ToRecord(C)' \cup due
    BY <2>6
  <2>8. IsFiniteSet(Memory!ToRecord(C)')
    <3>1. Memory!ToRecord(C)' \in SUBSET Memory!ToRecord(C)
      BY <2>6
    <3> QED
      BY <1>5, <3>1, FS_Subset
  <2>9. \A k \in 1 .. c.amount : <<t, k>> \notin Memory!ToRecord(C)'
    BY <1>7, <1>8
  <2> HIDE DEF block, due
  <2>10. /\ Cardinality(Memory!ToRecord(C)') \in Nat
         /\ Cardinality(Memory!ToRecord(C)' \cup due) = Cardinality(Memory!ToRecord(C)') + c.amount
    BY <2>4, <2>8, <2>9, AddBlock, Zenon DEF due
  <2>11. /\ IsFiniteSet(Memory!OnRecord(C)')
         /\ Cardinality(Memory!OnRecord(C)') = Cardinality(Memory!OnRecord(C)) + c.amount
         /\ Cardinality(Memory!ToRecord(C)) = Cardinality(Memory!ToRecord(C)') + c.amount
    BY <2>2, <2>5, <2>7, <2>10, Zenon
  <2> QED
    BY <1>5, <1>10, <2>4, <2>8, <2>10, <2>11
<1>12. CASE a \notin C
  <2>1. \A z : z \in Memory!OnRecord(C)' <=> z \in Memory!OnRecord(C)
    <3>1. \A d \in C : recorded'[d] = recorded[d]
      BY <1>3, <1>12
    <3> QED
      BY <1>6, <3>1, InOnRecord
  <2>2. \A z : z \in Memory!ToRecord(C)' <=> z \in Memory!ToRecord(C)
    BY <1>4, <1>7, <1>8, <1>9, <1>12, InToRecord
  <2>3. Memory!OnRecord(C)' = Memory!OnRecord(C) /\ Memory!ToRecord(C)' = Memory!ToRecord(C)
    BY <2>1, <2>2
  <2> QED
    BY <1>5, <1>10, <2>3, Zenon
<1> QED
  BY <1>11, <1>12

LEMMA MemoryRecord ==
  ASSUME MemoryInv, NEW t \in Callers, Memory!Record(t)
  PROVE  MemoryInv'
<1> USE WalletAssumption, RowAssumption, OpeningAssumption DEF MemoryInv
<1>1. /\ mPc[t] = "record" /\ mPc' = [mPc EXCEPT ![t] = "idle"] /\ mCall' = [mCall EXCEPT ![t] = Null]
      /\ recorded' = [recorded EXCEPT ![Memory!Asked(t)] = @ + 1]
      /\ UNCHANGED <<at, opening, mBalance, mLock, mCalls>>
  BY DEF Memory!Record, Memory!Goto
<1>2. /\ mCall[t] \in Memory!Calls /\ mCall[t].src \in Ids /\ mCall[t].dst \in Ids
      /\ mCall[t].amount \in Amounts /\ mCall[t].amount \in Nat
      /\ at[mCall[t].src] # Null /\ at[mCall[t].dst] # Null
  BY <1>1 DEF CallsFound, Memory!Calls
<1>3. /\ Memory!Asked(t) \in Memory!Transfers
      /\ Memory!Asked(t).src = mCall[t].src /\ Memory!Asked(t).dst = mCall[t].dst
  BY <1>2 DEF Memory!Asked, Memory!Transfers
<1>4. Memory!TypeOK'
  <2>1. recorded' \in [Memory!Transfers -> Nat]
    BY <1>1, <1>3 DEF Memory!TypeOK
  <2> QED
    BY <1>1, <2>1 DEF Memory!TypeOK
<1>5. Memory!Made' = Memory!Made /\ OnceGiven' = OnceGiven
  BY <1>1 DEF Memory!Made, OnceGiven
<1>6. /\ Memory!Money(mBalance)' = Memory!Money(mBalance)
      /\ Memory!Money(opening)' = Memory!Money(opening)
  BY <1>1, <1>5 DEF Memory!Money
<1>7. IdsSound'
  BY <1>1, <1>5 DEF IdsSound
<1>8. RecordKnown'
  <2>1. \A c \in Memory!Transfers : c # Memory!Asked(t) => recorded'[c] = recorded[c]
    BY <1>1, <1>3 DEF Memory!TypeOK
  <2> QED
    BY <1>1, <1>2, <1>3, <2>1 DEF RecordKnown
<1>9. CallsFound'
  <2>1. mPc'[t] = "idle" /\ \A u \in Callers : u # t => mPc'[u] = mPc[u] /\ mCall'[u] = mCall[u]
    BY <1>1 DEF Memory!TypeOK
  <2> QED
    BY <1>1, <1>5, <2>1 DEF CallsFound
<1>10. \A C \in SUBSET Memory!Transfers :
         /\ IsFiniteSet(Memory!OnRecord(C)') /\ IsFiniteSet(Memory!ToRecord(C)')
         /\ Memory!Moved(C)' = Memory!Moved(C)
  BY <1>2, <1>3, RecordWritten
<1>11. CountsFinite'
  BY <1>6, <1>10 DEF CountsFinite
<1>12. Memory!RecordExplains'
  <2>1. \A i \in Ids : /\ Memory!Moved(Memory!From(i))' = Memory!Moved(Memory!From(i))
                       /\ Memory!Moved(Memory!To(i))' = Memory!Moved(Memory!To(i))
    BY <1>10 DEF Memory!From, Memory!To
  <2> QED
    BY <1>1, <1>5, <1>6, <2>1, MemoryCounts DEF Memory!RecordExplains
<1> QED
  BY <1>4, <1>7, <1>8, <1>9, <1>11, <1>12

LEMMA MemoryStep == MemoryInv /\ [Memory!Next]_memoryVars => MemoryInv'
<1> SUFFICES ASSUME MemoryInv, [Memory!Next]_memoryVars PROVE MemoryInv'
  OBVIOUS
<1>1. CASE UNCHANGED memoryVars
  <2>1. Memory!TypeOK' /\ CallsFound'
    BY <1>1 DEF memoryVars, MemoryInv, Memory!TypeOK, CallsFound, OnceGiven, Memory!Made
  <2> QED
    BY <1>1, <2>1, MemoryQuiet DEF memoryVars
<1> QED
  BY <1>1, MemoryCreate, MemoryTransfer, MemoryAcquire, MemoryMove, MemoryRecord
  DEF Memory!Next, Memory!Step
--------------------------------------------------------------------------------
(* The logs of points.  Whatever is appended to a log adds its points, and *)
(* itself, to what the log says; the points of a log are finitely many.    *)
AllTypes == {Points!EARN, Points!REDEEM, Points!TRANSFER_TO, Points!TRANSFER_FROM}
Debits == {Points!REDEEM, Points!TRANSFER_TO}
Credits == {Points!EARN, Points!TRANSFER_FROM}

Logs == {log \in Seq(Points!Operations) : IsFiniteSet(Points!PointsOf(log, AllTypes))}

LEMMA PointCounts == \A S : Points!Cardinality(S) = Cardinality(S)
  BY DEF Points!Cardinality, Cardinality

LEMMA InPointsOf ==
  \A log, types : \A z : z \in Points!PointsOf(log, types) <=>
    \E i \in DOMAIN log : log[i].type \in types /\ \E k \in 1 .. log[i].points : z = <<i, k>>
  BY DEF Points!PointsOf

LEMMA PointsFinite ==
  ASSUME NEW log \in Logs, NEW types \in SUBSET AllTypes
  PROVE  IsFiniteSet(Points!PointsOf(log, types)) /\ Cardinality(Points!PointsOf(log, types)) \in Nat
<1>1. Points!PointsOf(log, types) \in SUBSET Points!PointsOf(log, AllTypes)
  BY InPointsOf
<1>2. IsFiniteSet(Points!PointsOf(log, types))
  BY <1>1, FS_Subset DEF Logs
<1> QED
  BY <1>2, FS_CardinalityType

LEMMA EmptyLog ==
  /\ <<>> \in Logs
  /\ \A types : Cardinality(Points!PointsOf(<<>>, types)) = 0
<1>1. \A types : \A z : z \notin Points!PointsOf(<<>>, types)
  BY InPointsOf
<1>2. \A types : IsFiniteSet(Points!PointsOf(<<>>, types)) /\ Cardinality(Points!PointsOf(<<>>, types)) = 0
  BY <1>1, NoneCounted
<1>3. <<>> \in Seq(Points!Operations)
  OBVIOUS
<1> QED
  BY <1>2, <1>3 DEF Logs

LEMMA AppendPoints ==
  ASSUME NEW log \in Seq(Points!Operations), NEW op \in Points!Operations, op.points \in Nat,
         NEW types, IsFiniteSet(Points!PointsOf(log, types))
  PROVE  /\ IsFiniteSet(Points!PointsOf(Append(log, op), types))
         /\ Cardinality(Points!PointsOf(Append(log, op), types))
              = Cardinality(Points!PointsOf(log, types)) + (IF op.type \in types THEN op.points ELSE 0)
<1> DEFINE new == Append(log, op)
           l == Len(log)
           P == Points!PointsOf(log, types)
           Q == Points!PointsOf(new, types)
           n == op.points
<1>1. /\ l \in Nat /\ DOMAIN log = 1 .. l /\ DOMAIN new = 1 .. l + 1
      /\ new[l + 1] = op /\ \A i \in 1 .. l : new[i] = log[i]
  OBVIOUS
<1> HIDE DEF new, l
<1>2. \A z : z \in P <=> \E i \in 1 .. l : log[i].type \in types /\ \E k \in 1 .. log[i].points : z = <<i, k>>
  BY <1>1, InPointsOf
<1>3. \A z : z \in Q <=> \E i \in 1 .. l + 1 : new[i].type \in types /\ \E k \in 1 .. new[i].points : z = <<i, k>>
  BY <1>1, InPointsOf
<1>4. Cardinality(P) \in Nat
  BY FS_CardinalityType
<1> HIDE DEF P, Q
<1>5. CASE op.type \in types
  <2>1. \A z : z \in Q <=> z \in P \/ z \in {l + 1} \X (1 .. n)
    <3>1. \A z : z \in {l + 1} \X (1 .. n) <=> \E k \in 1 .. op.points : z = <<l + 1, k>>
      OBVIOUS
    <3> QED
      BY <1>1, <1>2, <1>3, <1>5, <3>1
  <2>2. Q = P \cup ({l + 1} \X (1 .. n))
    BY <2>1
  <2>3. \A k \in 1 .. n : <<l + 1, k>> \notin P
    BY <1>1, <1>2
  <2>4. IsFiniteSet(P)
    BY DEF P
  <2> HIDE DEF n
  <2>5. n \in Nat
    BY DEF n
  <2>6. /\ IsFiniteSet(P \cup ({l + 1} \X (1 .. n)))
        /\ Cardinality(P \cup ({l + 1} \X (1 .. n))) = Cardinality(P) + n
    BY <2>3, <2>4, <2>5, AddBlock
  <2>7. IsFiniteSet(Q) /\ Cardinality(Q) = Cardinality(P) + n
    BY <2>2, <2>6, Zenon
  <2> QED
    BY <1>5, <2>7 DEF P, Q, n, new
<1>6. CASE op.type \notin types
  <2>1. \A z : z \in Q <=> z \in P
    BY <1>1, <1>2, <1>3, <1>6
  <2>2. Q = P
    BY <2>1
  <2>3. IsFiniteSet(Q) /\ Cardinality(Q) = Cardinality(P) + 0
    BY <1>4, <2>2 DEF P
  <2> QED
    BY <1>6, <2>3 DEF P, Q, new
<1> QED
  BY <1>5, <1>6

LEMMA AppendTimes ==
  ASSUME NEW log \in Seq(Points!Operations), NEW op \in Points!Operations, NEW o
  PROVE  /\ Points!Times(log, o) \in Nat
         /\ Points!Times(Append(log, op), o) = Points!Times(log, o) + (IF o = op THEN 1 ELSE 0)
<1> DEFINE new == Append(log, op)
           l == Len(log)
           P == {i \in DOMAIN log : log[i] = o}
           Q == {i \in DOMAIN new : new[i] = o}
<1>1. /\ l \in Nat /\ DOMAIN log = 1 .. l /\ DOMAIN new = 1 .. l + 1
      /\ new[l + 1] = op /\ \A i \in 1 .. l : new[i] = log[i]
  OBVIOUS
<1> HIDE DEF new, l
<1>2. IsFiniteSet(P)
  <2>1. IsFiniteSet(1 .. l)
    <3>1. l \in Int /\ 1 \in Int
      BY <1>1
    <3> QED
      BY <3>1, FS_Interval, Zenon
  <2>2. P \in SUBSET (1 .. l)
    BY <1>1
  <2> QED
    BY <2>1, <2>2, FS_Subset
<1>3. Cardinality(P) \in Nat
  BY <1>2, FS_CardinalityType
<1>4. l + 1 \notin P
  BY <1>1
<1>5. Cardinality(Q) = Cardinality(P) + (IF o = op THEN 1 ELSE 0)
  <2>1. CASE o = op
    <3>1. \A i : i \in Q <=> i \in P \cup {l + 1}
      BY <1>1, <2>1
    <3>2. Q = P \cup {l + 1}
      BY <3>1
    <3> HIDE DEF P, Q
    <3>3. Cardinality(P \cup {l + 1}) = Cardinality(P) + 1
      BY <1>2, <1>4, FS_AddElement
    <3>4. Cardinality(Q) = Cardinality(P) + 1
      BY <3>2, <3>3, Zenon
    <3> QED
      BY <2>1, <3>4
  <2>2. CASE o # op
    <3>1. \A i : i \in Q <=> i \in P
      BY <1>1, <2>2
    <3>2. Q = P
      BY <3>1
    <3> HIDE DEF P, Q
    <3>3. Cardinality(Q) = Cardinality(P)
      BY <3>2, Zenon
    <3> QED
      BY <1>3, <2>2, <3>3
  <2> QED
    BY <2>1, <2>2
<1>6. Points!Times(log, o) = Cardinality(P) /\ Points!Times(new, o) = Cardinality(Q)
  BY PointCounts DEF Points!Times
<1> HIDE DEF P, Q
<1> QED
  BY <1>3, <1>5, <1>6 DEF new

\* How the logs change when something is appended to one of them.
Grown(logs, new, a, op) ==
  /\ new[a] = Append(logs[a], op)
  /\ \A e \in PointAccounts : e # a => new[e] = logs[e]

LEMMA GrownLogs ==
  ASSUME NEW logs \in [PointAccounts -> Logs], NEW a \in PointAccounts,
         NEW op \in Points!Operations, op.points \in Nat,
         NEW new, Grown(logs, new, a, op), NEW e \in PointAccounts
  PROVE  new[e] \in Logs /\ logs[e] \in Logs
<1>1. logs[a] \in Logs /\ logs[e] \in Logs
  BY Zenon
<1>2. Append(logs[a], op) \in Logs
  <2>1. Append(logs[a], op) \in Seq(Points!Operations)
    BY <1>1 DEF Logs
  <2>2. IsFiniteSet(Points!PointsOf(Append(logs[a], op), AllTypes))
    BY <1>1, AppendPoints DEF Logs
  <2> QED
    BY <2>1, <2>2 DEF Logs
<1> QED
  BY <1>1, <1>2, Zenon DEF Grown

LEMMA GrownPoints ==
  ASSUME NEW logs \in [PointAccounts -> Logs], NEW a \in PointAccounts,
         NEW op \in Points!Operations, op.points \in Nat,
         NEW new, Grown(logs, new, a, op),
         NEW e \in PointAccounts, NEW types \in SUBSET AllTypes
  PROVE  /\ Cardinality(Points!PointsOf(logs[e], types)) \in Nat
         /\ Cardinality(Points!PointsOf(new[e], types))
              = Cardinality(Points!PointsOf(logs[e], types))
                  + (IF e = a /\ op.type \in types THEN op.points ELSE 0)
<1>1. logs[e] \in Logs /\ logs[e] \in Seq(Points!Operations)
  BY DEF Logs
<1>2. /\ IsFiniteSet(Points!PointsOf(logs[e], types))
      /\ Cardinality(Points!PointsOf(logs[e], types)) \in Nat
  BY <1>1, PointsFinite
<1>3. CASE e = a
  <2>1. Cardinality(Points!PointsOf(Append(logs[e], op), types))
          = Cardinality(Points!PointsOf(logs[e], types)) + (IF op.type \in types THEN op.points ELSE 0)
    BY <1>1, <1>2, AppendPoints
  <2>2. new[e] = Append(logs[e], op)
    BY <1>3 DEF Grown
  <2>3. Cardinality(Points!PointsOf(new[e], types))
          = Cardinality(Points!PointsOf(logs[e], types)) + (IF op.type \in types THEN op.points ELSE 0)
    BY <2>1, <2>2, Zenon
  <2> QED
    BY <1>2, <1>3, <2>3
<1>4. CASE e # a
  <2>1. new[e] = logs[e]
    BY <1>4 DEF Grown
  <2>2. Cardinality(Points!PointsOf(new[e], types)) = Cardinality(Points!PointsOf(logs[e], types))
    BY <2>1, Zenon
  <2> QED
    BY <1>2, <1>4, <2>2
<1> QED
  BY <1>3, <1>4

LEMMA GrownTimes ==
  ASSUME NEW logs \in [PointAccounts -> Logs], NEW a \in PointAccounts,
         NEW op \in Points!Operations, NEW new, Grown(logs, new, a, op),
         NEW e \in PointAccounts, NEW o
  PROVE  /\ Points!Times(logs[e], o) \in Nat
         /\ e # a \/ o # op => Points!Times(new[e], o) = Points!Times(logs[e], o)
         /\ e = a /\ o = op => Points!Times(new[e], o) = Points!Times(logs[e], o) + 1
<1>1. logs[e] \in Seq(Points!Operations)
  BY DEF Logs
<1>2. /\ Points!Times(logs[e], o) \in Nat
      /\ Points!Times(Append(logs[e], op), o) = Points!Times(logs[e], o) + (IF o = op THEN 1 ELSE 0)
  BY <1>1, AppendTimes
<1>3. CASE e = a
  <2>1. new[e] = Append(logs[e], op)
    BY <1>3 DEF Grown
  <2>2. Points!Times(new[e], o) = Points!Times(Append(logs[e], op), o)
    BY <2>1, Zenon
  <2> QED
    BY <1>2, <1>3, <2>2
<1>4. CASE e # a
  <2>1. new[e] = logs[e]
    BY <1>4 DEF Grown
  <2>2. Points!Times(new[e], o) = Points!Times(logs[e], o)
    BY <2>1, Zenon
  <2> QED
    BY <1>2, <1>4, <2>2
<1> QED
  BY <1>3, <1>4

PointInv ==
  /\ Points!TypeOK /\ Points!LogsExplain
  /\ operations \in [PointAccounts -> Logs]
  /\ \A a \in PointAccounts : pOpening[a] = Null => operations[a] = <<>>

\* The explanation of a balance by its log, and of two logs by each other.
Explained(funds, logs, a) ==
  funds[a] + Cardinality(Points!PointsOf(logs[a], Debits))
    = pOpening[a] + Cardinality(Points!PointsOf(logs[a], Credits))

Paired(logs) ==
  \A a, d \in PointAccounts, p \in Amounts :
    Points!Times(logs[a], [type |-> Points!TRANSFER_TO, points |-> p, with |-> d])
      = Points!Times(logs[d], [type |-> Points!TRANSFER_FROM, points |-> p, with |-> a])

LEMMA Explanation ==
  Points!LogsExplain <=>
    /\ \A a \in PointAccounts : pBalance[a] >= 0
    /\ \A a \in PointAccounts : pOpening[a] # Null => Explained(pBalance, operations, a)
    /\ Paired(operations)
  BY PointCounts DEF Points!LogsExplain, Explained, Paired, Debits, Credits

LEMMA PointInit == Points!Init => PointInv
<1> SUFFICES ASSUME Points!Init PROVE PointInv
  OBVIOUS
<1>1. Points!TypeOK
  BY DEF Points!Init, Points!TypeOK
<1>2. /\ \A a \in PointAccounts : pOpening[a] = Null /\ pBalance[a] = 0 /\ operations[a] = <<>>
      /\ operations \in [PointAccounts -> {<<>>}]
  BY DEF Points!Init
<1>3. operations \in [PointAccounts -> Logs]
  <2> HIDE DEF Logs
  <2> QED
    BY <1>2, EmptyLog
<1>4. \A o : Points!Times(<<>>, o) = 0
  <2>1. \A o : \A i : i \notin {j \in DOMAIN <<>> : <<>>[j] = o}
    OBVIOUS
  <2> QED
    BY <2>1, NoneCounted, PointCounts DEF Points!Times
<1>5. Paired(operations)
  BY <1>2, <1>4 DEF Paired
<1>6. Points!LogsExplain
  BY <1>2, <1>5, Explanation
<1> QED
  BY <1>1, <1>2, <1>3, <1>6 DEF PointInv

LEMMA PointCreate ==
  ASSUME PointInv, NEW a \in PointAccounts, NEW b \in Balances, Points!CreateAccount(a, b)
  PROVE  PointInv'
<1> USE RowAssumption, OpeningAssumption
<1>1. /\ pOpening[a] = Null /\ operations[a] = <<>> /\ operations' = operations
      /\ pOpening' = [pOpening EXCEPT ![a] = b] /\ pBalance' = [pBalance EXCEPT ![a] = b]
      /\ b \in Nat /\ b # Null
  BY DEF Points!CreateAccount, PointInv
<1>2. Points!TypeOK'
  BY <1>1 DEF PointInv, Points!TypeOK
<1>3. /\ pOpening'[a] = b /\ pBalance'[a] = b
      /\ \A e \in PointAccounts : e # a => pOpening'[e] = pOpening[e] /\ pBalance'[e] = pBalance[e]
  BY <1>1 DEF PointInv, Points!TypeOK
<1>4. /\ \A e \in PointAccounts : pBalance[e] >= 0
      /\ \A e \in PointAccounts : pOpening[e] # Null => Explained(pBalance, operations, e)
      /\ Paired(operations)
  BY Explanation DEF PointInv
<1>5. \A e \in PointAccounts : pBalance'[e] >= 0
  BY <1>1, <1>3, <1>4
<1>6. ASSUME NEW e \in PointAccounts, pOpening'[e] # Null PROVE Explained(pBalance, operations, e)'
  <2>1. CASE e = a
    <3>1. Cardinality(Points!PointsOf(operations[a], Debits)) = 0
      BY <1>1, EmptyLog, Zenon
    <3>2. Cardinality(Points!PointsOf(operations[a], Credits)) = 0
      BY <1>1, EmptyLog, Zenon
    <3> QED
      BY <1>1, <1>3, <2>1, <3>1, <3>2 DEF Explained
  <2>2. CASE e # a
    BY <1>1, <1>3, <1>4, <1>6, <2>2 DEF Explained
  <2> QED
    BY <2>1, <2>2
<1>7. Paired(operations)'
  BY <1>1, <1>4 DEF Paired
<1>8. Points!LogsExplain'
  BY <1>5, <1>6, <1>7, PointCounts DEF Points!LogsExplain, Explained, Paired, Debits, Credits
<1>9. operations' \in [PointAccounts -> Logs] /\ \A e \in PointAccounts : pOpening'[e] = Null => operations'[e] = <<>>
  BY <1>1, <1>3 DEF PointInv
<1> QED
  BY <1>2, <1>8, <1>9 DEF PointInv

\* One operation of an account: what goes out of it, or comes into it, is in its log.
LEMMA PointSingle ==
  ASSUME PointInv, NEW a \in PointAccounts, NEW p \in Amounts,
         Points!EarnPoints(a, p) \/ Points!RedeemPoints(a, p)
  PROVE  PointInv'
<1> USE WalletAssumption, RowAssumption, OpeningAssumption
<1> DEFINE type == IF Points!EarnPoints(a, p) THEN Points!EARN ELSE Points!REDEEM
           entry == [type |-> type, points |-> p, with |-> Null]
<1>1. /\ entry \in Points!Operations /\ entry.points = p /\ p \in Nat /\ entry.type = type
      /\ type \in {Points!EARN, Points!REDEEM}
  BY DEF Points!Operations
<1>2. /\ pOpening[a] # Null /\ pOpening' = pOpening
      /\ operations' = [operations EXCEPT ![a] = Append(operations[a], entry)]
  BY DEF Points!EarnPoints, Points!RedeemPoints, Points!Record
<1>3. Grown(operations, operations', a, entry)
  BY <1>2 DEF Grown, PointInv
<1>4. pBalance[a] \in Int /\ pBalance[a] >= 0 /\ pOpening[a] \in Nat
  BY <1>2, Explanation DEF PointInv, Points!TypeOK
<1>5. /\ pBalance' = [pBalance EXCEPT ![a] = @ + (IF type = Points!EARN THEN p ELSE 0 - p)]
      /\ pBalance[a] + (IF type = Points!EARN THEN p ELSE 0 - p) >= 0
  <2>1. CASE Points!EarnPoints(a, p)
    BY <1>1, <1>4, <2>1 DEF Points!EarnPoints
  <2>2. CASE ~Points!EarnPoints(a, p)
    <3>1. type = Points!REDEEM /\ type # Points!EARN
      BY <2>2 DEF Points!REDEEM, Points!EARN
    <3>2. /\ pBalance' = [pBalance EXCEPT ![a] = @ - p] /\ p <= pBalance[a]
      BY <2>2 DEF Points!RedeemPoints
    <3>3. pBalance[a] - p = pBalance[a] + (0 - p) /\ pBalance[a] - p >= 0
      BY <1>1, <1>4, <3>2
    <3> QED
      BY <3>1, <3>2, <3>3
  <2> QED
    BY <2>1, <2>2
<1> HIDE DEF type, entry
<1>6. /\ pBalance'[a] = pBalance[a] + (IF type = Points!EARN THEN p ELSE 0 - p)
      /\ \A e \in PointAccounts : e # a => pBalance'[e] = pBalance[e]
      /\ pBalance' \in [PointAccounts -> Int]
  BY <1>1, <1>4, <1>5 DEF PointInv, Points!TypeOK
<1>7. operations \in [PointAccounts -> Logs]
  BY DEF PointInv
<1>8. /\ entry \in Points!Operations /\ entry.points \in Nat
      /\ operations' \in [PointAccounts -> Logs]
  <2>1. entry \in Points!Operations /\ entry.points \in Nat
    BY <1>1
  <2>2. operations'[a] \in Logs
    BY <1>3, <1>7, <2>1, GrownLogs
  <2>3. operations' = [operations EXCEPT ![a] = operations'[a]]
    BY <1>2, <1>7
  <2> HIDE DEF Logs
  <2> QED
    BY <1>7, <2>1, <2>2, <2>3
<1>9. /\ \A e \in PointAccounts : pBalance[e] >= 0 /\ pBalance[e] \in Int
      /\ \A e \in PointAccounts : pOpening[e] # Null => Explained(pBalance, operations, e)
      /\ Paired(operations)
  BY Explanation DEF PointInv, Points!TypeOK
<1>10. Points!TypeOK'
  BY <1>2, <1>6, <1>8 DEF PointInv, Points!TypeOK, Logs
<1>11. \A e \in PointAccounts : pBalance'[e] >= 0
  BY <1>5, <1>6, <1>9
<1>12. ASSUME NEW e \in PointAccounts, pOpening'[e] # Null PROVE Explained(pBalance, operations, e)'
  <2>1. Debits \in SUBSET AllTypes /\ Credits \in SUBSET AllTypes
    BY DEF Debits, Credits, AllTypes
  <2>2. operations[e] \in Logs
    BY <1>7
  <2>3. /\ Cardinality(Points!PointsOf(operations[e], Debits)) \in Nat
        /\ Cardinality(Points!PointsOf(operations[e], Credits)) \in Nat
    BY <2>1, <2>2, PointsFinite
  <2>4. pBalance[e] + Cardinality(Points!PointsOf(operations[e], Debits))
          = pOpening[e] + Cardinality(Points!PointsOf(operations[e], Credits))
    BY <1>2, <1>9, <1>12 DEF Explained
  <2>5. pOpening'[e] = pOpening[e] /\ pOpening[e] \in Nat /\ pBalance[e] \in Int
    BY <1>2, <1>9, <1>12 DEF PointInv, Points!TypeOK
  <2>6. /\ Cardinality(Points!PointsOf(operations'[e], Debits))
             = Cardinality(Points!PointsOf(operations[e], Debits))
                 + (IF e = a /\ type \in Debits THEN p ELSE 0)
        /\ Cardinality(Points!PointsOf(operations'[e], Credits))
             = Cardinality(Points!PointsOf(operations[e], Credits))
                 + (IF e = a /\ type \in Credits THEN p ELSE 0)
    <3>1. ASSUME NEW types \in SUBSET AllTypes
          PROVE  Cardinality(Points!PointsOf(operations'[e], types))
                   = Cardinality(Points!PointsOf(operations[e], types))
                       + (IF e = a /\ entry.type \in types THEN entry.points ELSE 0)
      BY <1>3, <1>7, <1>8, GrownPoints
    <3> QED
      BY <1>1, <2>1, <3>1
  <2>7. /\ type \in Credits <=> type = Points!EARN
        /\ type \in Debits <=> type # Points!EARN
    BY <1>1 DEF Debits, Credits, Points!EARN, Points!REDEEM, Points!TRANSFER_TO, Points!TRANSFER_FROM
  <2> HIDE DEF PointInv
  <2>8. pBalance'[e] + Cardinality(Points!PointsOf(operations'[e], Debits))
          = pOpening'[e] + Cardinality(Points!PointsOf(operations'[e], Credits))
    <3>1. CASE e # a
      BY <1>6, <2>3, <2>4, <2>5, <2>6, <3>1
    <3>2. CASE e = a /\ type = Points!EARN
      BY <1>1, <1>6, <2>3, <2>4, <2>5, <2>6, <2>7, <3>2
    <3>3. CASE e = a /\ type # Points!EARN
      BY <1>1, <1>6, <2>3, <2>4, <2>5, <2>6, <2>7, <3>3
    <3> QED
      BY <3>1, <3>2, <3>3
  <2> QED
    BY <2>8 DEF Explained
<1>13. Paired(operations)'
  <2> SUFFICES ASSUME NEW e \in PointAccounts, NEW d \in PointAccounts, NEW q \in Amounts
               PROVE  Points!Times(operations'[e], [type |-> Points!TRANSFER_TO, points |-> q, with |-> d])
                        = Points!Times(operations'[d], [type |-> Points!TRANSFER_FROM, points |-> q, with |-> e])
    BY DEF Paired
  <2>1. /\ [type |-> Points!TRANSFER_TO, points |-> q, with |-> d] # entry
        /\ [type |-> Points!TRANSFER_FROM, points |-> q, with |-> e] # entry
    BY <1>1 DEF Points!EARN, Points!REDEEM, Points!TRANSFER_TO, Points!TRANSFER_FROM
  <2>2. \A f \in PointAccounts : \A o : o # entry => Points!Times(operations'[f], o) = Points!Times(operations[f], o)
    <3> SUFFICES ASSUME NEW f \in PointAccounts, NEW o, o # entry
                 PROVE  Points!Times(operations'[f], o) = Points!Times(operations[f], o)
      OBVIOUS
    <3>1. entry \in Points!Operations
      BY <1>8
    <3>2. ASSUME NEW new, Grown(operations, new, a, entry)
          PROVE  Points!Times(new[f], o) = Points!Times(operations[f], o)
      BY <1>7, <3>1, <3>2, GrownTimes
    <3> QED
      BY <1>3, <3>2
  <2> QED
    BY <1>9, <2>1, <2>2 DEF Paired
<1>14. Points!LogsExplain'
  BY <1>11, <1>12, <1>13, PointCounts DEF Points!LogsExplain, Explained, Paired, Debits, Credits
<1>15. \A e \in PointAccounts : pOpening'[e] = Null => operations'[e] = <<>>
  <2>1. \A e \in PointAccounts : e # a => operations'[e] = operations[e]
    BY <1>2, <1>7
  <2> QED
    BY <1>2, <2>1 DEF PointInv
<1> QED
  BY <1>8, <1>10, <1>14, <1>15 DEF PointInv

\* A transfer is an operation of the source, and then one of the destination, which
\* may be the same account.
LEMMA PointTransfer ==
  ASSUME PointInv, NEW s \in PointAccounts, NEW d \in PointAccounts, NEW p \in Amounts,
         Points!TransferPoints(s, d, p)
  PROVE  PointInv'
<1> USE WalletAssumption, RowAssumption, OpeningAssumption
<1> DEFINE out == [type |-> Points!TRANSFER_TO, points |-> p, with |-> d]
           in == [type |-> Points!TRANSFER_FROM, points |-> p, with |-> s]
           mid == [operations EXCEPT ![s] = Append(@, out)]
<1>1. /\ out \in Points!Operations /\ out.points = p /\ out.type = Points!TRANSFER_TO
      /\ in \in Points!Operations /\ in.points = p /\ in.type = Points!TRANSFER_FROM
      /\ p \in Nat /\ p > 0
  BY DEF Points!Operations
<1>2. operations \in [PointAccounts -> Logs]
  BY DEF PointInv
<1>3. operations' = [mid EXCEPT ![d] = Append(@, in)]
  <2>1. operations' = [operations EXCEPT ![s] = Append(@, out), ![d] = Append(@, in)]
    BY DEF Points!TransferPoints
  <2> HIDE DEF out, in
  <2>2. DOMAIN operations = PointAccounts
    BY <1>2
  <2>3. CASE s = d
    BY <2>1, <2>2, <2>3
  <2>4. CASE s # d
    BY <2>1, <2>2, <2>4
  <2> QED
    BY <2>3, <2>4
<1>4. Grown(operations, mid, s, out) /\ mid = [operations EXCEPT ![s] = mid[s]]
  BY <1>2 DEF Grown
<1>5. Grown(mid, operations', d, in) /\ operations' = [mid EXCEPT ![d] = operations'[d]]
  BY <1>2, <1>3 DEF Grown
<1>6. /\ out # in
      /\ \A q \in Amounts, a \in PointAccounts, e \in PointAccounts :
           /\ [type |-> Points!TRANSFER_TO, points |-> q, with |-> a] # in
           /\ [type |-> Points!TRANSFER_FROM, points |-> q, with |-> a] # out
           /\ [type |-> Points!TRANSFER_TO, points |-> q, with |-> a] = out <=> q = p /\ a = d
           /\ [type |-> Points!TRANSFER_FROM, points |-> q, with |-> a] = in <=> q = p /\ a = s
  BY DEF Points!TRANSFER_TO, Points!TRANSFER_FROM
<1> HIDE DEF out, in, mid
<1>7. mid \in [PointAccounts -> Logs]
  <2>1. mid[s] \in Logs
    <3>1. out \in Points!Operations /\ out.points \in Nat
      BY <1>1
    <3> QED
      BY <1>2, <1>4, <3>1, GrownLogs
  <2> HIDE DEF Logs
  <2> QED
    BY <1>2, <1>4, <2>1
<1>8. operations' \in [PointAccounts -> Logs]
  <2>1. operations'[d] \in Logs
    <3>1. in \in Points!Operations /\ in.points \in Nat
      BY <1>1
    <3> QED
      BY <1>5, <1>7, <3>1, GrownLogs
  <2> HIDE DEF Logs
  <2> QED
    BY <1>5, <1>7, <2>1
<1>9. /\ pOpening[s] # Null /\ pOpening[d] # Null /\ pOpening' = pOpening
      /\ p <= pBalance[s]
      /\ pBalance' = [pBalance EXCEPT ![s] = @ - p, ![d] = @ + p]
  BY DEF Points!TransferPoints
<1>10. /\ \A e \in PointAccounts : pBalance[e] >= 0 /\ pBalance[e] \in Int
       /\ \A e \in PointAccounts : pOpening[e] # Null => Explained(pBalance, operations, e)
       /\ Paired(operations)
  BY Explanation DEF PointInv, Points!TypeOK
<1>11. /\ pBalance' \in [PointAccounts -> Int]
       /\ \A e \in PointAccounts :
            pBalance'[e] = pBalance[e] - (IF e = s THEN p ELSE 0) + (IF e = d THEN p ELSE 0)
  <2>1. pBalance \in [PointAccounts -> Int] /\ pBalance[s] \in Int /\ pBalance[d] \in Int
    BY DEF PointInv, Points!TypeOK
  <2>2. CASE s = d
    <3>1. pBalance' = [pBalance EXCEPT ![s] = pBalance[s] - p + p]
      BY <1>9, <2>1, <2>2
    <3>2. pBalance[s] - p + p \in Int
      BY <1>1, <2>1
    <3> QED
      BY <1>1, <2>1, <2>2, <3>1, <3>2
  <2>3. CASE s # d
    <3>1. pBalance' = [pBalance EXCEPT ![s] = pBalance[s] - p, ![d] = pBalance[d] + p]
      BY <1>9, <2>1, <2>3
    <3>2. pBalance[s] - p \in Int /\ pBalance[d] + p \in Int
      BY <1>1, <2>1
    <3> QED
      BY <1>1, <2>1, <2>3, <3>1, <3>2
  <2> QED
    BY <2>2, <2>3
<1>12. Points!TypeOK'
  BY <1>8, <1>9, <1>11 DEF PointInv, Points!TypeOK, Logs
<1>13. \A e \in PointAccounts : pBalance'[e] >= 0
  BY <1>1, <1>9, <1>10, <1>11
<1>14. ASSUME NEW e \in PointAccounts, pOpening'[e] # Null PROVE Explained(pBalance, operations, e)'
  <2> DEFINE out0 == Cardinality(Points!PointsOf(operations[e], Debits))
             out1 == Cardinality(Points!PointsOf(mid[e], Debits))
             out2 == Cardinality(Points!PointsOf(operations'[e], Debits))
             in0 == Cardinality(Points!PointsOf(operations[e], Credits))
             in1 == Cardinality(Points!PointsOf(mid[e], Credits))
             in2 == Cardinality(Points!PointsOf(operations'[e], Credits))
  <2>1. ASSUME NEW types \in SUBSET AllTypes
        PROVE  /\ Cardinality(Points!PointsOf(operations[e], types)) \in Nat
               /\ Cardinality(Points!PointsOf(mid[e], types))
                    = Cardinality(Points!PointsOf(operations[e], types))
                        + (IF e = s /\ out.type \in types THEN out.points ELSE 0)
    <3>1. out \in Points!Operations /\ out.points \in Nat
      BY <1>1
    <3>2. ASSUME NEW new, Grown(operations, new, s, out)
          PROVE  /\ Cardinality(Points!PointsOf(operations[e], types)) \in Nat
                 /\ Cardinality(Points!PointsOf(new[e], types))
                      = Cardinality(Points!PointsOf(operations[e], types))
                          + (IF e = s /\ out.type \in types THEN out.points ELSE 0)
      BY <1>2, <3>1, <3>2, GrownPoints
    <3> QED
      BY <1>4, <3>2
  <2>2. ASSUME NEW types \in SUBSET AllTypes
        PROVE  Cardinality(Points!PointsOf(operations'[e], types))
                 = Cardinality(Points!PointsOf(mid[e], types))
                     + (IF e = d /\ in.type \in types THEN in.points ELSE 0)
    <3>1. in \in Points!Operations /\ in.points \in Nat
      BY <1>1
    <3>2. ASSUME NEW new, Grown(mid, new, d, in)
          PROVE  Cardinality(Points!PointsOf(new[e], types))
                   = Cardinality(Points!PointsOf(mid[e], types))
                       + (IF e = d /\ in.type \in types THEN in.points ELSE 0)
      BY <1>7, <3>1, <3>2, GrownPoints
    <3> QED
      BY <1>5, <3>2
  <2>3. /\ Debits \in SUBSET AllTypes /\ Credits \in SUBSET AllTypes
        /\ out.type \in Debits /\ out.type \notin Credits
        /\ in.type \notin Debits /\ in.type \in Credits
    BY <1>1 DEF Debits, Credits, AllTypes,
                Points!EARN, Points!REDEEM, Points!TRANSFER_TO, Points!TRANSFER_FROM
  <2>4. /\ out0 \in Nat /\ in0 \in Nat
        /\ out1 = out0 + (IF e = s THEN p ELSE 0) /\ in1 = in0
    BY <1>1, <2>1, <2>3
  <2>5. out2 = out1 /\ in2 = in1 + (IF e = d THEN p ELSE 0)
    BY <1>1, <2>2, <2>3, <2>4
  <2>6. pBalance[e] + out0 = pOpening[e] + in0
    BY <1>9, <1>10, <1>14 DEF Explained
  <2>7. pBalance[e] \in Int /\ pOpening[e] \in Nat
    BY <1>9, <1>10, <1>14 DEF PointInv, Points!TypeOK
  <2> HIDE DEF out0, out1, out2, in0, in1, in2
  <2>8. pBalance'[e] + out2 = pOpening'[e] + in2
    <3>1. out2 = out0 + (IF e = s THEN p ELSE 0) /\ in2 = in0 + (IF e = d THEN p ELSE 0)
      BY <2>4, <2>5
    <3>2. pBalance'[e] = pBalance[e] - (IF e = s THEN p ELSE 0) + (IF e = d THEN p ELSE 0)
      BY <1>11
    <3> QED
      BY <1>1, <1>9, <2>4, <2>6, <2>7, <3>1, <3>2
  <2> QED
    BY <2>8 DEF Explained, out2, in2
<1>15. Paired(operations)'
  <2> SUFFICES ASSUME NEW a \in PointAccounts, NEW e \in PointAccounts, NEW q \in Amounts
               PROVE  Points!Times(operations'[a], [type |-> Points!TRANSFER_TO, points |-> q, with |-> e])
                        = Points!Times(operations'[e], [type |-> Points!TRANSFER_FROM, points |-> q, with |-> a])
    BY DEF Paired
  <2> DEFINE to == [type |-> Points!TRANSFER_TO, points |-> q, with |-> e]
             from == [type |-> Points!TRANSFER_FROM, points |-> q, with |-> a]
  <2>1. /\ to # in /\ from # out
        /\ to = out <=> q = p /\ e = d
        /\ from = in <=> q = p /\ a = s
    BY <1>6
  <2>2. Points!Times(operations[a], to) = Points!Times(operations[e], from)
    BY <1>10 DEF Paired
  <2> HIDE DEF to, from
  <2>3. ASSUME NEW f \in PointAccounts, NEW o
        PROVE  /\ f # s \/ o # out => Points!Times(mid[f], o) = Points!Times(operations[f], o)
               /\ f = s /\ o = out => Points!Times(mid[f], o) = Points!Times(operations[f], o) + 1
    <3>1. out \in Points!Operations
      BY <1>1
    <3>2. ASSUME NEW new, Grown(operations, new, s, out)
          PROVE  /\ f # s \/ o # out => Points!Times(new[f], o) = Points!Times(operations[f], o)
                 /\ f = s /\ o = out => Points!Times(new[f], o) = Points!Times(operations[f], o) + 1
      BY <1>2, <3>1, <3>2, GrownTimes
    <3> QED
      BY <1>4, <3>2
  <2>4. ASSUME NEW f \in PointAccounts, NEW o
        PROVE  /\ f # d \/ o # in => Points!Times(operations'[f], o) = Points!Times(mid[f], o)
               /\ f = d /\ o = in => Points!Times(operations'[f], o) = Points!Times(mid[f], o) + 1
    <3>1. in \in Points!Operations
      BY <1>1
    <3>2. ASSUME NEW new, Grown(mid, new, d, in)
          PROVE  /\ f # d \/ o # in => Points!Times(new[f], o) = Points!Times(mid[f], o)
                 /\ f = d /\ o = in => Points!Times(new[f], o) = Points!Times(mid[f], o) + 1
      BY <1>7, <3>1, <3>2, GrownTimes
    <3> QED
      BY <1>5, <3>2
  <2>5. /\ Points!Times(operations'[a], to) = Points!Times(mid[a], to)
        /\ Points!Times(mid[e], from) = Points!Times(operations[e], from)
    BY <2>1, <2>3, <2>4
  <2>6. CASE q = p /\ e = d /\ a = s
    BY <2>1, <2>2, <2>3, <2>4, <2>5, <2>6 DEF to, from
  <2>7. CASE ~(q = p /\ e = d /\ a = s)
    <3>1. (a # s \/ to # out) /\ (e # d \/ from # in)
      BY <2>1, <2>7
    <3>2. Points!Times(mid[a], to) = Points!Times(operations[a], to)
      BY <2>3, <3>1
    <3>3. Points!Times(operations'[e], from) = Points!Times(mid[e], from)
      BY <2>4, <3>1
    <3> QED
      BY <2>2, <2>5, <3>2, <3>3 DEF to, from
  <2> QED
    BY <2>6, <2>7
<1>16. Points!LogsExplain'
  BY <1>13, <1>14, <1>15, PointCounts DEF Points!LogsExplain, Explained, Paired, Debits, Credits
<1>17. \A e \in PointAccounts : pOpening'[e] = Null => operations'[e] = <<>>
  <2>1. \A e \in PointAccounts : e # s /\ e # d => operations'[e] = operations[e]
    BY <1>4, <1>5 DEF Grown
  <2> QED
    BY <1>9, <2>1 DEF PointInv
<1> QED
  BY <1>8, <1>12, <1>16, <1>17 DEF PointInv

LEMMA PointStep == PointInv /\ [Points!Next]_pointVars => PointInv'
<1> SUFFICES ASSUME PointInv, [Points!Next]_pointVars PROVE PointInv'
  OBVIOUS
<1>1. CASE UNCHANGED pointVars
  BY <1>1 DEF pointVars, PointInv, Points!TypeOK, Points!LogsExplain
<1> QED
  BY <1>1, PointCreate, PointSingle, PointTransfer DEF Points!Next

--------------------------------------------------------------------------------
(* The services together.  Each takes its own steps or none.               *)
BanksInv == AccountInv /\ RowInv /\ MemoryInv /\ PointInv

bankVars == <<subject, vars, accountVars, memoryVars, rowVars, pointVars>>

LEMMA StepsOfServices ==
  ASSUME [MCNext]_bankVars
  PROVE  /\ [Account!Next]_accountVars
         /\ [Memory!Next]_memoryVars
         /\ [Rows!Next]_rowVars
         /\ [Points!Next]_pointVars
  BY DEF MCNext, bankVars

LEMMA BanksInit == MCInit => BanksInv
  BY AccountInit, RowInit, MemoryInit, PointInit DEF MCInit, BanksInv

LEMMA BanksStep == BanksInv /\ [MCNext]_bankVars => BanksInv'
  BY StepsOfServices, AccountStep, RowsAreBank, MemoryStep, PointStep DEF BanksInv

LEMMA BanksSound == MCSpec => []BanksInv
  BY BanksInit, BanksStep, PTL DEF MCSpec, bankVars

\* The variables of all four services keep their types: no committed balance of the
\* rows and no account of the transfers in memory is ever below zero.
THEOREM BankTypesCorrect == MCSpec => []BankTypes
<1>1. BanksInv => BankTypes
  BY DEF BanksInv, AccountInv, RowInv, MemoryInv, PointInv, BankTypes
<1> QED
  BY <1>1, BanksSound, PTL

\* A key is booked just when it has moved money, and moves it once; the recorded
\* transfers and those that have still to write their record explain what every account
\* holds, and no money comes or goes whatever is replaced under a transfer; and the
\* logs of points explain their balances and one another, also when an account
\* transfers to itself.
THEOREM MovesAreRecorded == MCSpec => []MovesRecorded
<1>1. BanksInv => MovesRecorded
  BY DEF BanksInv, AccountInv, MemoryInv, PointInv, MovesRecorded
<1> QED
  BY <1>1, BanksSound, PTL

\* Every step of the account service is a step of the bank or invisible to it, though a
\* transfer writes twice; and whatever interleaves and whatever connection is lost, what
\* the rows have committed is a bank that pays nothing out.
THEOREM BanksAreBanks == MCSpec => BanksImplementBank
<1>1. Account!Init => Account!Bank!Init
  <2> SUFFICES ASSUME Account!Init PROVE Account!Bank!Init
    OBVIOUS
  <2>1. Account!Debited = {}
    BY DEF Account!Init, Account!Debited
  <2> QED
    BY <2>1 DEF Account!Init, Account!Bank!Init, Account!BankFunds, Account!BankSettled
<1>2. Rows!Init => Rows!Bank!Init
  BY WalletAssumption, RowAssumption DEF Rows!Init, Rows!Bank!Init, Rows!Settled
<1>3. MCInit => Account!Bank!Init /\ Rows!Bank!Init
  BY <1>1, <1>2 DEF MCInit
<1>4. BanksInv => FundsShape
  BY FundsHaveShape DEF BanksInv
<1>5. BanksInv /\ BanksInv' /\ FundsShape /\ FundsShape' /\ [MCNext]_bankVars
        => /\ [Account!Bank!Next]_(Account!Bank!bankVars)
           /\ [Rows!Bank!OpenOrTransfer]_(Rows!Bank!bankVars)
  BY StepsOfServices, AccountIsBank, RowsAreBank DEF BanksInv
<1> QED
  BY <1>3, <1>4, <1>5, BanksSound, PTL
  DEF MCSpec, bankVars, BanksImplementBank, Account!ImplementsBank, Account!Bank!Spec,
      Rows!ImplementsBank, Rows!Bank!ClosedSpec
=================================================================================
