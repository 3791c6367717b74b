# Formal models of the katas

This directory holds TLA+ models of the services under `src/`, the TLC
configurations that check them on small instances, and TLAPS proofs of the
properties that matter most for every value of the constants.

The repository is a set of small, independent Python services ("katas"). Each
lives in one directory as `main.py`, with its tests; the `*-focused` ones add a
`postgres_service.py` that does the same work in SQL. The services do not call
each other. What they share is a style: dictionaries guarded by
`threading.Lock`s, dataclasses that are mutated in place, heaps from `heapq`
used as priority queues, and time read from the wall clock.

## 1. Inventory

| Component | State | Operations | What is hard | What makes it correct |
|---|---|---|---|---|
| build-it: library | copies per book, borrowers per book, loans per member, one lock | add book, borrow, return, add copies, available copies | two records of one loan, updated by different operations | the two records agree; a copy is lent once |
| kata-001: merchant caps | cap and spend per merchant in one dictionary, a lock per merchant in another | register, charge, get cap | charge racing charge at the cap, or the registration | the spend stays within the cap |
| kata-002, kata-009: stock reservations | available count, reservations, a lock per product | reserve, release, confirm | release racing confirm | available + reserved is constant |
| kata-003, kata-025: coupons, promo codes | global and per-customer counters | create, redeem | two limits in one step, a time read before the lock | neither limit is passed |
| kata-004: wallets | balance and transfers per wallet, a lock per wallet | create, deposit, withdraw, transfer with idempotency key, get balance | two locks per transfer, reads without the wallet's lock, retried keys | no deadlock, no overdraft, money conserved, a key debits once |
| kata-005: client quotas | request times per client | create, record, get | sliding window edges | at most quota requests per window |
| kata-006: payments | payments by id and by idempotency key | create (idempotent) | retry racing the first call, arguments compared after the lock | one payment per key |
| kata-007, kata-007-rewrite: room bookings | bookings per room, per user, by id | create, cancel | three indexes updated in three critical sections | no overlap in a room; a booking with an id is listed, one that its owner cancelled is not |
| kata-008: accounts | balance per account, a lock per account and one for the service | create, transfer | locks nested under the service lock, ids compared as strings | no deadlock, money conserved |
| kata-010: subscriptions | subscriptions by id, the active one per user | create, cancel, get | an index and the records it indexes change in different sections | one active subscription per user |
| kata-011: points | balance and operation log, one lock | earn, redeem, transfer | log and balance | the log explains the balance |
| kata-012: jobs | status per job, a lock per job, a registry | schedule, cancel, process due | cancel racing execution | a cancelled job does not run |
| kata-013: notifications | heap by due time, cancelled set | schedule, cancel, get next due | lazy deletion from a heap | no pending notification is lost or delivered twice |
| kata-014: documents | documents by id | create, get, delete | ownership | only owner or admin deletes |
| kata-015: flash sale | stock and version per SKU, purchases | create, purchase | compare-and-swap with a bounded number of retries | sold + stock is constant |
| kata-016: account transfers | balances, transfer log | create, transfer | two ordered locks, log written after release | money conserved |
| kata-017: rate limiter | tokens and last time per client | allow | the clock is read before the lock | never more than the rate allows |
| kata-018: retry queue | heap by next attempt, attempts per item | schedule, cancel, poll | rescheduling leaves old heap entries | one delivery per attempt, at most five attempts |
| kata-019, 020, 021: algorithms | heap of tickets; bit array; graph | add, get most urgent, resolve, list; add, might be blocked; add, cheapest path | tickets resolved inside the heap; early exits, negative loops | agrees with its definition |
| kata-022: card events | heap of events whose keys change in place, cards | add card, freeze, unfreeze, claim, mark delivered | lease expiry, keys mutated inside a heap | a deliverable event is delivered; one live lease per event |
| kata-023: support cases | heap of cases whose keys change in place | add, claim, complete | the same | a claimable case is claimed |
| kata-024: ticket assignment | ticket heap, agents with capacity | register agent, create, assign, resolve | pop, then fail | no ticket is lost |
| kata-026: seat reservations | seats with holds that expire, reservations | hold, release, status | expiry racing release, several seats at once | one live holder per seat; all seats or none |
| kata-027, 028, 029: inventory, parking, register | a dictionary, a counter, a set, under one lock each | simple | little | the counters agree |
| `postgres_service.py` (013 to 023), templates | rows and row locks | the same operations in SQL | isolation, SKIP LOCKED, missing rollback | as above |
| `db.py`, docker-compose, notes, coaching, feedback | none | none | pure I/O and prose | |

Components that do not share a process share nothing: two services are never
composed in the code. What interacts is inside a service: threads through the
locks and dictionaries of one service object, a caller's retries with the calls
it retries, workers with the leases of other workers, and, in the
`postgres_service.py` files, connections with the rows and row locks of
PostgreSQL. Those interactions are what the modules are about.

## 2. Plan

The order is that of how much can go wrong and how hard a test is to write:

1. **Money** (done): wallets (kata-004) with their abstract specification
   `AtomicBank`, then the same promise for accounts (008), transfers (016) in
   memory and over rows, and points (011).
2. **Leases on heaps** (done): card events (022) and support cases (023) with
   `heapq` itself, since both change keys inside the heap; their rows.
3. **Timers** (done): notifications (013) and retries (018), in memory and over rows.
4. **Cancels and indexes** (done): subscriptions (010), jobs (012), room
   bookings (007) and their rewrite.
5. **Compare-and-swap** (done): the flash sale (015), in memory and over rows,
   with its abstract specification `Sale`.
6. **Limits** (done): seats (026), library (build-it), tickets (024), stock
   (002, 009), coupons (003), promo codes (025), merchant caps (001), quotas (005),
   rate limiter (017) in memory and over rows.
7. **Keys and algorithms** (done): payments (006); the heap of tickets (019), the
   Bloom filter (020) and the cheapest paths (021) beside reference definitions.
8. **Proofs** (done but for liveness): the wallets; then, service by service, the
   invariants and refinements of `MCBanks`, `MCTimers`, `MCHolds`, `MCBookings`,
   `MCSales` and `MCLeases`, each composed into the properties its run checks; what
   `heapq` does to a list of any length, and that it is a priority queue; that the
   searches for paths, the list of tickets and the filter are right on every input.

Conventions of every module: the name of a variable, action or constant is the
source's where TLA+ allows it; one action per section of code that no other
thread can look into (the body of a `with lock:` that takes no other lock, a
statement of SQL), one action per step where another thread can; arguments that
a validator refuses and calls that only read are left out, because they change
nothing; a call that ends in an exception is an action when it leaves something
behind or releases something, and otherwise the absence of a step. A definition
whose name is `Of_How`, under a comment that begins with "Mutant", is a faulty
variant of the definition `Of`; no specification uses it, and every property
has one that it is known to catch.

## 3. Modules

### Money

`AtomicBank` is what the services promise with no lock and no thread: `Open`,
`Deposit`, `Withdraw` and `Transfer` are indivisible, and a source settles a key
once. `ClosedSpec` is the same bank without deposits and withdrawals, for a
service that has none: against the open bank a lost debit would look like a
deposit.

| Module | Models | State and actions |
|---|---|---|
| `WalletService` | kata-004 `main.py` | `created`, `balance`, `transfers` (the keys), `lock` per wallet; `pc` and `call` are where a thread is in `transfer_to` and what it was asked. Both locks are taken one by one in the order of the ids, the credit and the debit are two steps. `debits` is history: how often a key took money out of a wallet |
| `AccountService` | kata-008 | the same with `service`, the lock that a transfer keeps while it takes those of the accounts, and accounts named by spellings of their ids |
| `TransferService` | kata-016 `main.py` | accounts are objects and `at` says which object an id names, because `create_account` replaces; the transfer is recorded after the locks are released |
| `TransferRows` | kata-016 `postgres_service.py` | rows with `rowLock`; two `SELECT ... FOR UPDATE` in the order of the ids, two updates, the check of the balance, commit; a connection may be lost at any step |
| `PointsService` | kata-011 | one lock, so one action per operation; balances and the logs of operations |
| `MCBanks_proofs` | | the theorems of section 5 |

`WalletService`, `AccountService` and `TransferRows` implement `AtomicBank`
(the property `ImplementsBank` of each) under a refinement mapping that is the
interesting part: the indivisible transfer happens at the *debit* for wallets
and accounts (the credit that was already written is subtracted from the
destination until then), and at the commit for rows.

### Leases on heaps and rows

| Module | Models | State and actions |
|---|---|---|
| `Externals` | `heapq.heappush`, `heappop`; PostgreSQL | sift-down and sift-up on a sequence, under an order, a set of pairs, that is passed because it may have changed since the elements were pushed. Which row `FOR UPDATE SKIP LOCKED` locks: sorted by the snapshot, locked rows passed over, the condition tested again on what was committed since |
| `Algorithms` | kata-019, 020, 021, and `heapq` under a fixed order | a graph of `edges`, tickets in a heap with the `resolved` ones among them, the bits of a filter, a heap beside the counts of a bag; each with its reference: all simple paths, the pending tickets in order, the added cards, the smallest of the heap. A loop of the code is a recursive function of how often it has gone round (`Dijkstra`, `Relax`) or of the edges it has gone through (`PopEntry`, `Pass`) |
| `CardStatusService` | kata-022 `main.py` | the heap of event ids, their status and claim time; `now[w]` is the time a worker read before it took the lock |
| `CaseService` | kata-023 `main.py` | the same for cases with priorities and workers |
| `CaseRows`, `CardStatusRows` | the `postgres_service.py` of 023 and 022 | the snapshot, the lock, the update seen at the commit, lost connections; the claim of 022 is that of 023 with one priority |
| `Paths_proofs`, `MCLeases_proofs` | | the theorems of section 5, on the searches for paths and on the instance; those on the rows by themselves are at the end of `CaseRows` |

### Timers

| Module | Models | State and actions |
|---|---|---|
| `ScheduledNotificationService` | kata-013 `main.py` | the queue (a set: keys are frozen and distinct), a status per notification with its own lock; `get_next_due` is a loop of pops and claims with cancels in between |
| `RetryQueue` | kata-018 `main.py` | deliveries, and heap entries that a rescheduling leaves behind |
| `NotificationRows`, `RetryRows` | their `postgres_service.py` | transactions as above; `RetryRows` fails exhausted deliveries on the way, in the same transaction |
| `MCTimers_proofs` | | the theorems of section 5, those on jobs and subscriptions among them |

### Cancels, bookings, sales

| Module | Models | State and actions |
|---|---|---|
| `SubscriptionService` | kata-010 | subscriptions and the index of each user's active one, which a cancel changes in two critical sections |
| `JobManager` | kata-012 | the copy of the jobs, the look without a lock, the execution under the job's lock, bodies that raise |
| `RoomBookingService` | kata-007 | the three records of a booking; a create and a cancel are three sections each, and the cancel works on the lists of whatever room and user it names; user lists are objects that may be replaced |
| `BookingService` | kata-007-rewrite | one lock, idempotency keys |
| `PaymentService` | kata-006 | the key's payment is found or made under the lock, compared after it |
| `Sale` | | what a flash sale promises: units sold one at a time, never more than there are |
| `FlashSaleService`, `FlashSaleRows` | kata-015 `main.py` and `postgres_service.py` | compare-and-swap on a version with retries; both are shown to implement `Sale`. `begun` and `offered` are history: the version a call read first, the stock an object began with |
| `MCBookings_proofs`, `MCSales_proofs` | | the theorems of section 5 |

### Limits

| Module | Models | State and actions |
|---|---|---|
| `ReservationSeatService` | kata-026 | seats and reservations with the times of their holds; expiry is worked out, not stored; a refused hold frees what its loop had held |
| `LibraryService` | build-it | copies, borrowers and the loans of members, which different operations update |
| `SupportService` | kata-024 | the ticket heap (a set), agents with load and capacity; a pull that is refused after the pop |
| `StockService` | kata-002, kata-009 | `available` and the reservations; `NextWithoutConfirm` is kata-009, which has no statuses |
| `CouponService` | kata-003 | two limits in one step |
| `PromoService` | kata-025 | a limit, one redemption for each user, days; `now[t]` is the time read before the lock |
| `MerchantService` | kata-001 | `cap` and `spent` of the one dictionary, `locks` of the other; a registration writes them in two steps, a charge is two sections |
| `ClientQuotaService` | kata-005 | the times of a client's requests in a window |
| `RateLimiterService` | kata-017 `main.py` and `postgres_service.py` | a bucket and the time read before its lock; `RowsNext` is the port: upsert, update and commit under the row lock, connections that may be lost; a call without a time (`naive`) raises between the statements and leaves transaction and lock behind |
| `MCHolds_proofs` | | the theorems of section 5 |

### Instances

The services share no state, so an instance for TLC holds several of them and a
variable `subject`, chosen at the beginning, that says which one a behaviour
runs; the variables of the others stay as they began. The reachable states are
the disjoint union of the services' reachable states, never a product, and each
property is a conjunction with one part per service it is asked of. The
instances are `MCBanks`, `MCLeases`, `MCTimers` (with the jobs and the
subscriptions), `MCHolds`, `MCBookings` and `MCSales`; the wallets have a run of their own on
`WalletService` itself. `MCLeases` also has two shapes, since the two hazards of a mutable heap need different sizes: two
workers on three entries for the leases, and one worker on four entries, the
least that give the heap an inner path.

## 4. Runs

| Run | Instance | What it shows |
|---|---|---|
| `wallet_safety` | `WalletService` | two threads with two calls each, two wallets, one key: locks held exactly through their `with` blocks, no overdraft, a key debits once, and `AtomicBank` is implemented |
| `bank_calls` | `MCBanks` | three threads and three wallets (the least for a circle of transfers); two threads with two calls each on accounts, with amounts below zero too; two transfers while accounts are replaced; three connections over rows; points. Every call returns, what moved is on record once, the accounts and the rows implement the bank |
| `leases` | `MCLeases` | no entry is lost or queued twice; an entry changes hands only past its lease; only a key written in place disturbs the heap, never a claim; the heap as modelled is a priority queue, also for tickets resolved inside it; on every graph of three conversions between three currencies both searches find the cheapest path, or the negative loop; a filter clears no card that was added |
| `timers` | `MCTimers` | handed out once, when due, never after a cancel came back; retried at most so often; what is scheduled is queued; the one way a notification is dropped is the one below; every poll ends. The index of subscriptions never holds what it should not, but for the gap below; jobs run once, under their lock, never after a cancel; calls end even behind a job that raises |
| `holds` | `MCHolds` | a live hold ends by a release only, and by whose; a refused hold leaves no trace; loans and loads stay within limits; stock, redemptions and charges add up; no window of time lets more through than quota or bucket allow, whatever connection is lost |
| `bookings` | `MCBookings` | no room is booked twice for overlapping times; in kata-007 a booking that has an id and is not being cancelled is listed (not the other way round), and one that is cancelled under its own room and user is out of the lists before its id goes; in its rewrite ids and bookings agree both ways; no list has another user's booking, a key books once and pays once |
| `sales` | `MCSales` | both flash sales implement `Sale`, what was sold is recorded; a buyer gives up only if `RETRIES` units were sold since the first read of that call, and hears "out of stock" only if all the units of the object are sold; every purchase ends, whatever conflicts and whatever connection is lost with the row locked |
| `account_self_deadlock` | `MCBanks` | **violated**: kata-008 compares ids as strings and uses them as UUIDs; a transfer between two spellings of one id waits for its own lock |
| `case_starvation` | `MCLeases` | **violated**: kata-023 answers that no case is left while one can be claimed |
| `subscription_orphan` | `MCTimers` | **violated**: kata-010, cancelling an old subscription clears the index entry of the new one |
| `room_double_cancel` | `MCBookings` | **violated**: kata-007, two concurrent cancels of one booking both succeed |
| `merchant_exact_cap` | `MCHolds` | **violated**: kata-001 refuses a charge of exactly what is left of the cap |

### Bounds, and why they are enough

What is unbounded in the code is bounded by a guard on a constant whose comment
says "bound", or by the size of a set of ids; only the shapes of `MCLeases` cut
steps off otherwise (`InShape`).

- *Threads*: two, three where a circle of waiting threads or a third party to a
  compare-and-swap is the question. No handler reads how many threads there are.
- *Entries*: three of what is queued (one in hand, one before and one after it),
  four where the heap must have an inner path.
- *Time*: the shortest lease, hold or window is one tick, and the clock runs far
  enough for a lease to run out twice. Times are compared and shifted by
  constants, never divided, so only their order and the two sides of each
  boundary matter.
- *Amounts, stocks and limits*: one or two, with balances from zero, so that both
  sides of every comparison and equality at the boundary occur; kata-008, which tests
  no amount, is also given one below zero. In `sales` a sku has no units or
  three, and a call two attempts: so a call can begin after a unit was sold, give up while
  one is left, and find none.
- *Graphs*: three conversions between three currencies, with one weight below
  zero: the least in which the cheaper path has two steps, is found second, or is
  found only by the second pass, and in which a loop of two or three is negative.
- *Hashes*: eleven bits, so that the last byte is not full, and cards whose hashes
  coincide with each other and with those of another card.
- *Versions and retries*: `RETRIES` and `MAX_RETRIES` are 1 or 2 here, where the
  code has larger numbers: the loops are the same, and exhausting them is reached.
- *Symmetry* is used for ids that are only compared for equality, and in no run
  with a liveness property.

### Fairness, and why the code justifies it

- In memory, *weak fairness of each thread's steps inside a call*: a thread that
  can go on is eventually scheduled, and a step that waits for a
  `threading.Lock` is enabled when the lock is free. Weak fairness is enough
  where a lock's holders always release it and callers do not come back for
  ever; nothing is assumed about *starting* calls, about the clock, or about
  clients.
- In `TransferRows` and `FlashSaleRows`, *strong fairness of a transaction's
  steps*: a row lock of PostgreSQL is handed to its waiters in order, so a
  transaction that waits is not passed over for ever.
- The polls over rows (`NotificationRows`, `RetryRows`) need only weak fairness:
  `SKIP LOCKED` waits for nobody.
- No fairness is given to lost connections, ticks, cancels or new calls.

## 5. Proofs

Eight modules hold the proofs, which TLAPS checks. What they prove holds for every set of
threads, ids, users, seats and keys, every amount, lease, stock and limit, and every
bound on calls and the clock. Six of them are about an instance module (the other two
hold what `MCLeases_proofs` cites): they prove the invariant of each service it holds,
and a last section composes them
(`StepsOf...`: a step of the instance is a step of each service or leaves its
variables alone), so the theorems are about the very formulas that the runs check.
The constants are constrained only by named `ASSUME`s, which TLC evaluates on every
run: ids that the code compares are numbers, limits and times are not negative, what
the code counts is finite, a filter has at least one bit, and `Null` (or `Nobody`) is
no value it is compared with.

Four ways of reasoning recur.

- *What a thread relies on between two steps*: the invariant says that what it read
  or compared still holds when it acts on it, and is preserved because a step of
  another thread that touches the same data needs a lock the invariant says is taken.
- *Counting*: a sum over a function is the number of its units (`{x} \X (1 .. f[x])`
  for every `x`), so that sums change by the lemmas on finite sets and no induction
  over data is needed; a multiset of records is counted the same way.
- *Refinement*: the initial states map to initial states, and under the invariant
  every step maps to a step or a stutter.
- *Loops*: a recursive function of a number has its defining equation because `<` is
  well founded on the numbers, and what holds before its first round and through every
  round holds after any number of rounds, since a least round that breaks it would
  follow one that does not (first section of `Paths_proofs`).

### Wallets (`MCBanks_proofs`, first section)

| Theorem | States |
|---|---|
| `TypeCorrect` | `Spec => []TypeOK` |
| `LockDiscipline` | `Spec => []LocksHeld`: a lock is held exactly through the `with` block that took it |
| `NoLockCycle` | `Spec => []LocksAscend`: a thread waits only for a lock above all it holds, so no circle of threads waits |
| `NeverOverdrawn` | `Spec => []NoOverdraft` |
| `IdempotentDebits` | `Spec => []DebitedOnce` |
| `ServiceIsAtomicBank` | `Spec => ImplementsBank`: the refinement itself |

None of the safety properties is inductive. `IInv` adds to the types and locks
what a thread between its two writes relies on (`InFlightSound`): what it
compared under the two locks, the source's balance and the absence of the key,
is still so when it acts on it. Hence the order of the lemmas: `ShapeKept` (types and
calls), `LocksKept`, `BothHeld`, then `MoneyKept`. The refinement adds that a wallet is
the source of at most one transfer in flight (`InFlightExclusive`), which makes
the mapped balance change at the debit only.

### Accounts, transfers and points (`MCBanks_proofs`)

| Theorem | States |
|---|---|
| `BankTypesCorrect` | `MCSpec => []BankTypes` |
| `MovesAreRecorded` | `MCSpec => []MovesRecorded`: a key is on record just when it has moved money, and moves it once; the record of transfers explains every account; the logs of points explain their balances and one another |
| `BanksAreBanks` | `MCSpec => BanksImplementBank`: the accounts, with amounts below zero too, and the rows implement the bank |

- *Accounts* (`AccountInv`): the service lock is kept from the test of the key to the
  record of it (`ServiceHeld`), so at most one thread is between its two writes and the
  choice in the refinement mapping is of one. `CallsInFlight` says what it relies on:
  its key is not on record, and both account locks are its own from `locked` on, which
  is why a deposit or a withdrawal cannot come between its comparison and its debit.
  The accounts are different by then, or the thread would still wait for itself (run
  `account_self_deadlock`).
- *Transfers over rows* (`RowInv`): the commit writes what an earlier statement
  computed. `RowsInFlight` says that this is still the balance less the amount, and
  that a transaction that ends, however it ends (`FinishSound`), leaves alone what the
  others rely on.
- *Transfers in memory* (`MemoryInv`): a transfer goes on with the objects it found
  while their ids may be given to others, so money is conserved over objects
  (`RecordExplains`, second part), and per id as long as no id was given twice: then
  the objects in flight are those of their ids (`CallsFound`, `IdsSound`).
- *Points* (`PointInv`): appending to a log adds the points of the operation to what
  the log says and one to how often it says it, also when both logs are the same one.

### Leases and algorithms (`MCLeases_proofs`, `CaseRows`, `Paths_proofs`)

| Theorem | States |
|---|---|
| `LeaseTypesCorrect` | `MCSpec => []LeaseTypes` |
| `OpenStaysQueuedOnce` | `MCSpec => []QueuedOnce`: an event that is not delivered, a case that is not completed, is in the heap, and no entry is in it twice |
| `LeasesAreRespected` | `MCSpec => LeasesRespected`: in the heaps and in the rows an entry changes hands only past its lease, and no more once it is done |
| `HeapsUndisturbed` | `MCSpec => []OnlyDoneDisturbs`: an entry that is out of order with its parent in the heap is one that was delivered or completed |
| `HeapqIsPriorityQueue` | `MCSpec => HeapIsPriorityQueue`: under a fixed order `heapq` is a bag of which the smallest is taken, and tickets are handed out once, the most urgent pending one first |
| `AlgorithmsAreRight` | `MCSpec => []AlgorithmsAgree`: both searches, the list of pending tickets and the filter agree with their references |
| `PathsRight`, `NegativePathsRight` | the same of the two searches, for any list of edges between whole numbers: a cheapest path, infinity when there is none, and a negative loop just when the source reaches one |
| `BlockedStaysBlocked` | `MCSpec => []Alg!NoFalseNegatives`: the filter has room for every hash and clears no card that was added |
| `LocksAreClaims` | `Spec => []LockedIsClaimable`: what a worker has locked it may still claim when it writes, and it locks one case at most |
| `LeasesRunOut` | `Spec => LeaseRespected`: a case changes hands only past its lease |

- *heapq*: both sifts rearrange the list (`SiftDownRearranges`, `SiftUpRearranges`),
  whatever the order and whether or not the list is a heap; so `heappush` adds its item,
  `heappop` takes the first one, and the loop of a claim drops only what is done
  (`PushList`, `PopList`, `PopWhileList`). The places above a place and the path of
  `_siftup` are orbits of a step along which a measure falls (`OrbitFalls`): that is
  the induction these lemmas need, over the numbers and not over data.
- *Order*: if the order sorts (`Sorts`: it is asymmetric, and when one item comes before
  another, any third comes after the one or before the other), both sifts keep a list
  `Tidy`: an item that comes before its parent is one of a given set (`PushTidy`,
  `PopTidy`). The set is needed because the keys of what is done change in place.
  `SiftDownPlaces` and `SiftUpPlaces` say what is where afterwards, and `TidyPaths` what
  order there is along the way from a place to the root.
- *Keys that change* (`HeapTidy`, `CaseHeapTidy`): a claim changes the key of what it
  has popped and pushes it back, so the others keep their order (`RequeuedTidy`); a
  delivery or a completion changes a key in place, and only what is done since can be
  out of order then (`StaysTidy`). Pushing back is safe because what is done never comes
  after what is not.
- *heapq by itself* (`HeapqInv`): a rearrangement keeps how often an item is in the list
  (`CountRearranged`), so a push adds one to one count and a pop takes one from the
  root's (`PushCounts`, `PopCounts`); in a tidy heap nothing comes before the root
  (`RootIsFirst`).
- *Tickets* (`TriageInv`): every ticket is in the heap, handed out or resolved, and none
  is both in the heap and handed out. A resolved ticket keeps its key, so the heap stays
  in order (`Tidy` with no exceptions) and its root, once the resolved ones are popped,
  is the most urgent of those pending.
- *What is pending* (`PendingIsListed`): a copy of that heap is emptied by as many pops as
  it has tickets. What was listed, then what is left in the copy, is always what was
  there; and everything listed comes before everything left (`Listed`, `ListedStep`).
- *Both searches* (`Paths_proofs`) keep two dictionaries. A node with a distance, other
  than the source, was reached by an edge from a node whose distance may have fallen
  since (`Known`). What vouches for the distances is a potential, a number for every node
  that no edge raises by more than its weight (`Feasible`): distances cannot fall below
  it, and no circle of predecessors can close (`Above`, `AboveAfter`), so the walk back
  repeats no node and arrives at the source (`WalkIs`). No path costs less than a
  potential rises along it (`PricesRise`), and the walk costs no more than its distance
  (`BacktrackCosts`): a distance that equals a potential is that of a cheapest path
  (`AnswerIsCheapest`). The paths of the reference are functions on `1 .. n` that no loop
  of the code builds; `PathsAre` says that none is missing.
- *The search over the heap* (`DijkstraIs`, `DijkstraRight`): the potential is zero while
  it runs. Its invariant is the `Frontier`: what was popped is no further than anything
  open, and all its conversions but those yet to be looked at are relaxed. At the end the
  distances, cut off at that of the target, are a potential themselves, though the loop
  stops at the target and passes stale entries over. A turn takes an entry off the heap,
  and every conversion pushes one at most, so `Size`, the entries and the conversions
  that may still be pushed, falls: one turn for each edge, and one, are enough.
- *The passes* (`RelaxKeeps`, `PassesBound`): a pass that changes nothing leaves distances
  that are a potential (`StableIsFeasible`), so there is no negative loop to be reached
  (`StableHasNoLoop`) and the answer is a cheapest path. If there is no such loop, every
  distance is at least what some path costs (`Covered`; `RouteExtends` leaves out the way
  round when an edge comes back to its path) and after `k` passes at most what any path of
  `k` edges costs; a path that repeats no node has fewer edges than there are nodes, so
  that one pass more changes nothing (`NoLoopIsStable`).
- *The filter* (`FilterInv`): bits are only ever set, and every hash of a card has its
  byte (`HashesFit`).
- *The heaps* (`CardInv`, `CaseInv`): the heap has no item twice, what is open is in it,
  and what is in it was created, which is why a new event is not in it yet. No claim
  needs the heap to be in order for that.
- *The rows*: a worker chooses from a snapshot and writes in another statement.
  `LockedIsClaimable` is inductive, with `InCall` (a transaction has a time), because
  PostgreSQL tests the condition again on the row it locks and only the holder of the
  lock writes the row. Every step of `CardStatusRows` is one of `CaseRows` with one
  priority (`CardRowsAreClaims`), so the theorems of `CaseRows` are about both. Those
  assume, in their statements, a lease and a clock that are natural numbers and that
  `Null` is no worker.

### Timers (`MCTimers_proofs`)

| Theorem | States |
|---|---|
| `TimerTypesCorrect` | `MCSpec => []TimerTypes` |
| `NothingScheduledIsLost` | `MCSpec => ScheduledIsQueued` |
| `NotificationsHandedOutOnce` | `MCSpec => HandedOutOnce` |
| `RetriesAttemptedWhenDue` | `MCSpec => AttemptedWhenDue` |
| `CancelsKeepIndex` | `MCSpec => []IndexHoldsLive`: what the index holds for a user is that user's, active, and not about to be canceled |
| `JobsRunOnce` | `MCSpec => RunsOnceUnderLock` |

In memory a popped notification stays the first of all (`PoppedFirst`), since the heap
grows only while no poller is inside the lock (`OnePolls`), and it can be canceled but
not handed out meanwhile. A retry that was put off leaves stale entries:
`ScheduledIsQueued` is inductive with the types, because an entry with the current
time of its delivery leaves the heap only to be attempted or to fail a delivery whose
attempts are used up. In rows, what a transaction has locked keeps the status that made
it lock it (`LockedMatches`, `LockedIsDue`), and what a poll has marked is still used up
when it commits (`FailingIsUsedUp`).

The index could go wrong if a cancel on its way met a subscription made later under the
same id: `CancelsExisting` says that a cancel past its checks is of a subscription that
exists, and no id is made twice. A job's status is looked at again under its lock, which
is free when the job starts (`RunningUnderLock`); that the jobs a thread goes through
have a first one is a well-founded minimum.

### Limits (`MCHolds_proofs`)

| Theorem | States |
|---|---|
| `HoldTypesCorrect`, `SeatsTypeCorrect` | `MCSpec => []HoldTypes`, and `Spec => []TypeOK` for the seats |
| `NothingBeyondLimits` | `MCSpec => []WithinLimits`: copies, loads, caps, redemptions, requests in a window and tokens stay within their limits |
| `CountsAddUp` | `MCSpec => []CountsHold`: stock, coupons and charges add up |
| `HeldSeatsAreReserved`, `HoldsAreSafe`, `RefusalsLeaveNothing`, `HoldsKeepSeats` | what shows as held has a live reservation of its holder; a live hold ends only with the release of a reservation of the seat, its holder's or one no newer; a refused hold leaves no trace; for `Spec` of the seats and for `MCSpec` |
| `LiveTicketsStay`, `HoldsKeepTickets` | only a refusal after the pop takes a live ticket out of the queue |

- *Seats* (`SeatInv`): a live hold is safe from the release of a newer reservation
  because there is none (`NoneNewer`): a reservation is made together with the holds of
  its seats, and whoever holds one again does so later.
- *Library, tickets, stock, coupons*: the number that the code compares is the size of
  a set the invariant names: a member's record, an agent's `Load`, the units that the
  live reservations hold, the redemptions of a customer.
- *Merchants* (`MerchantInv`): a merchant with an entry has its lock, or is the one that
  a thread registers, whoever charges meanwhile.
- *Promo codes* (`PromoInv`): one redemption for each user, whatever the order of the
  times the threads came with.
- *Quotas and rates*: the quota follows from the requests kept inside any window. For
  the bucket (`BucketInv`), what was let through from any time on and the tokens left
  are at most a full bucket, the time passed, and the time that a late caller made the
  bucket count again; in rows there is a row for whoever holds its lock (`RowsInv`), also
  while the transaction of a call that raised stays open.

### Bookings and payments (`MCBookings_proofs`)

| Theorem | States |
|---|---|
| `BookingTypesCorrect`, `ListsTypeCorrect` | `MCSpec => []BookingTypes`, and `Spec => []TypeOK` for kata-007 |
| `RoomsNeverDoubleBooked`, `RoomsAreBookedOnce` | `Spec => []NoDoubleBooking`, and for both katas `MCSpec => []RoomsBookedOnce` |
| `ListsAgree`, `KnownBookingsAreListed` | `Spec => [](KnownHoldsRoom /\ ListsHoldOwn /\ CancelUnlists)`, and for both katas `MCSpec => []KnownBookingsListed`: of kata-007 that an id means an entry in the lists, not the converse, see section 6 |
| `KeysBookAndPayOnce` | `MCSpec => BooksUnderNewKey` |

A booking is made well before it is put in its room's list, so the invariant follows it
on the way: `CreatesExisting` says that a create under way has made its booking, for the
room it is in the middle of; `ListsHoldTheirs` that the list of a room holds bookings of
that room only. With them the comparison with the whole list, made in the section that
extends it, is enough. A list object belongs to the user of the booking it was made with,
wherever it is kept (`RefsOwned`, `CallsOwned`, `ObjectsOwned`). A booking with an id was
entered everywhere when it was made, so no create adds it again and only its own list
object ever had it (`CancelsEntered`); a cancel under its user's name holds that object, or
the object is out of use, and what the cancel has passed stays without the booking
(`CancelsLeave`). A payment that a call
found and has yet to compare is that of its key for good (`PaymentsInv`).

### Flash sales (`MCSales_proofs`)

| Theorem | States |
|---|---|
| `SaleTypesCorrect` | `MCSpec => []SaleTypes` |
| `SoldUnitsRecorded` | `MCSpec => []SoldIsRecorded` |
| `SalesAreSales` | `MCSpec => SalesImplementSale` |
| `BuyersRefusedForReason` | `MCSpec => RefusedForReason` |

In memory (`MemoryInv`) a unit sold raises the version, so version and stock add up to
the stock an object was created with (`ObjectsSound`): none is left just when that many
are sold. An attempt fails on a version later than the one it saw, so from the version
that a call saw first (`begun`) the object's grows by one at least with each of its
attempts (`PurchasesSound`), and a buyer who has used them up was beaten to a unit that
often, by others and during the call. Over rows (`RowsInv`) the purchase
commits a version computed from an earlier snapshot and takes a unit without a second
look: `SelectionsHold` says that a version that was selected is in the past or still the
row's, and if it is still the row's then so is the stock, which was not zero.

### Only model-checked

Liveness (`EveryBankCallReturns`, `PollsEnd`, `PurchasesEnd`, `AcceptedIsDone`), which is
out of the prover's reach under fairness.

## 6. What the code does that a reader may not expect

The five violated runs are listed in section 4. The following were met while
modelling; the modules have the behaviour, but no run is about them, because no
document, comment or test of the repository says otherwise or because another
run shows the same.

- kata-001: the repository is handed in by the
  caller: a merchant that is already in it has no lock, and a charge for it is a
  KeyError (70). The model begins with the empty repository the tests begin with.
- kata-004 `main.py:55,60`: a key is recorded with the destination too, so a
  wallet that received a transfer under a key skips its own transfer under it.
- kata-004 `main.py:184` and kata-008: balances are read without the account's
  lock, also between the two writes of a transfer.
- kata-005 `main.py:55`: a request exactly as old as the window still counts.
- kata-006 `main.py:47`: a key must spell a UUID and is used as it is spelt, so
  one UUID in upper and in lower case is two keys and two payments.
- kata-007 `main.py`: a user's list is replaced when the user makes the first
  booking of another room (113), also while a call keeps the old one; a user
  without a list cannot book a room that has one (119); only a room's first
  booking is entered by id (116), so no other can be cancelled, though each is in its
  room's list and in a user's. A cancel reads the booking's room and user and does not
  compare them with its arguments (147): one that names others, which need only exist,
  deletes the id and leaves the booking in its lists, where nobody can cancel it any
  more. `feedback/kata-007.md:33,38,48` records that as an unfixed bug. So by id, by room
  and by user the records do not agree, and no property says that they do: what is claimed
  is that an id that is not being cancelled means an entry in both lists, and that a cancel
  by the booking's own room and user ends both entries (`CancelUnlists`).
- kata-007-rewrite `main.py:66`: a booking refused for an overlap has already made empty
  entries for its room and its user; what a user whose only request was refused should
  be answered is stated nowhere.
- kata-008 `main.py:77` and kata-016: amounts are not validated, so a negative
  deposit overdraws. `bank_calls` feeds kata-008 an amount below zero too, and what is
  proved of it holds for any; what moves still moves once, between the two accounts only.
  The runs of kata-016 take amounts above zero.
- kata-012 `main.py:92`: a job whose body raises stays RUNNING, and the other
  due jobs wait for the next call.
- kata-013 `main.py:174`: a notification that is popped behind a canceled one
  and is not yet due is not pushed back; `DroppedBehindCanceled` says that this
  is the only way one is lost. `postgres_service.py:71` raises with the
  transaction open, and kata-022's `postgres_service.py:37` does when the card
  does not exist.
- kata-016 `main.py:47`: `create_account` replaces an account that a transfer is
  working on; the money goes to the object that nobody finds any more.
- kata-019 `main.py:44`: `get_most_urgent` takes the ticket out of the heap, so a
  pending ticket that was handed out is not listed as pending any more.
- kata-021 `main.py:47`: a path from a currency to itself is `(inf, [])`. The first
  search does not refuse negative weights, with which it may not end; the runs ask
  it for answers only about graphs without them.
- kata-017 `postgres_service.py:39`: a call without a time takes `datetime.now()` (22),
  which has no zone, and subtracts from it a time that comes back from a `TIMESTAMPTZ`
  (`schema.sql:16`) with one. The TypeError leaves the transaction open: the row it
  inserted stays invisible and locked for the others until the same connection calls
  again, with a time, and commits it, or is closed. The model has all of this; it takes
  the zone of a session for that of its callers. In memory such a mixture of times
  raises in the bucket's lock and changes nothing, and is left out. A refused call also
  throws away the fraction of a token that was there (`main.py:28`), which a model in
  whole tokens does not show.
- kata-017 `main.py:42`: the clock is read before the lock. A call that is
  refused with an earlier time than the bucket's sets the bucket back and gives
  that time out again; `RateHolds` has a term for it, and fails without it.
- kata-018 `main.py:142`: a delivery scheduled twice for the same time has two
  current entries and is handed out twice.
- kata-022 has the same order of keys as kata-023 and the same `None` answer.
- kata-024 `main.py:196,200`: a ticket popped for an agent without capacity is
  in no queue any more; `OnlyRefusalsDrop` says nothing else drops one.
- kata-026 `main.py:90`: a reservation whose hold has expired may still be
  released, and that frees its seats, also those another customer holds by now;
  `src/feedback/kata-026.md:34` records it as a bug that was not fixed. One such
  release leads to others: the seat is held again while the reservation that lost
  it is still live, and releasing that one frees the seat once more.
  `NoSeatTaken` names these releases, by a reservation no newer than the hold, as
  the only way a live hold ends but its own.
- kata-025 `main.py:66`: the order of the tests tells a user who redeems again, or
  too late, that the limit is reached when it is; `src/feedback/kata-025.md`
  records it.
- build-it `main.py:42,108`: borrowers are compared with copies by equality, and
  a return updates one of the two records of a loan.

## 7. Not modelled

Reads and validators (they change nothing). kata-014: a create is one assignment
and a delete one test of owner or role before one, in one critical section or one
`UPDATE`, and an id is known to nobody before it is committed, so no order of calls
matters; the comment of its port (`postgres_service.py:37`) speaks of a status that
its statement does not test, as a second delete changes nothing. kata-027, 028 and
029, a dictionary, a counter and a set, each under one lock held for a test and an
assignment. `db.py`,
the containers and the template, pure I/O; notes, coaching and feedback, prose.
PostgreSQL and `heapq` are external: they are modelled from how the code uses them
(`Externals`, and the row locks of the `Rows` modules). The physical clock is
a counter; it never turns back, and a time that was read may be old when it is
used.
