----------------------------- MODULE TransferService -----------------------------
(***************************************************************************)
(* src/kata-016-focused/main.py: transfers between accounts under the      *)
(* locks of both, recorded after the locks are released.  create_account   *)
(* replaces an account of the same id, and a transfer that has found the   *)
(* old one goes on with it, so accounts are objects and ids point to them. *)
(***************************************************************************)
EXTENDS Integers, FiniteSets

CONSTANTS
  Threads,
  Ids,        \* account ids, ordered
  Objects,    \* the Account objects that may be made, a bound on create_account
  Balances,   \* opening balances
  Amounts,
  MaxCalls,   \* bound on the transfers a thread asks for
  Null

VARIABLES
  at,        \* _accounts: at[i] is the object id i names, or Null
  opening,   \* opening[o]: what o was created with, or Null when it is not made yet
  balance,   \* balance[o]
  lock,      \* lock[o]: the thread inside `with` its lock, or Null
  recorded,  \* _transfers: how many of each there are
  pc, call, calls

transferVars == <<at, opening, balance, lock, recorded, pc, call, calls>>

Transfers == [src : Ids, dst : Ids, amount : Amounts]
Calls == [src : Ids, dst : Ids, amount : Amounts, from : Objects, to : Objects]

TypeOK ==
  /\ at \in [Ids -> Objects \cup {Null}]
  /\ opening \in [Objects -> Balances \cup {Null}]
  /\ balance \in [Objects -> Nat]
  /\ lock \in [Objects -> Threads \cup {Null}]
  /\ recorded \in [Transfers -> Nat]
  /\ pc \in [Threads -> {"idle", "first", "second", "locked", "record"}]
  /\ call \in [Threads -> Calls \cup {Null}]
  /\ calls \in [Threads -> 0 .. MaxCalls]

Init ==
  /\ at = [i \in Ids |-> Null]
  /\ opening = [o \in Objects |-> Null]
  /\ balance = [o \in Objects |-> 0]
  /\ lock = [o \in Objects |-> Null]
  /\ recorded = [c \in Transfers |-> 0]
  /\ pc = [t \in Threads |-> "idle"]
  /\ call = [t \in Threads |-> Null]
  /\ calls = [t \in Threads |-> 0]

CreateAccount(i, o, b) ==
  /\ opening[o] = Null
  /\ at' = [at EXCEPT ![i] = o]
  /\ opening' = [opening EXCEPT ![o] = b]
  /\ balance' = [balance EXCEPT ![o] = b]
  /\ UNCHANGED <<lock, recorded, pc, call, calls>>

\* The accounts are found under the service lock; an unknown id ends the call.
Transfer(t, i, j, n) ==
  /\ pc[t] = "idle" /\ calls[t] < MaxCalls
  /\ i # j
  /\ at[i] # Null /\ at[j] # Null
  /\ pc' = [pc EXCEPT ![t] = "first"]
  /\ call' = [call EXCEPT ![t] = [src |-> i, dst |-> j, amount |-> n, from |-> at[i], to |-> at[j]]]
  /\ calls' = [calls EXCEPT ![t] = @ + 1]
  /\ UNCHANGED <<at, opening, balance, lock, recorded>>

Goto(t, from, to) ==
  /\ pc[t] = from
  /\ pc' = [pc EXCEPT ![t] = to]
  /\ call' = [call EXCEPT ![t] = IF to = "idle" THEN Null ELSE @]
  /\ UNCHANGED <<at, opening, calls>>

ToLockFirst(c) == IF c.src < c.dst THEN c.from ELSE c.to
ToLockSecond(c) == IF c.src < c.dst THEN c.to ELSE c.from

AcquireFirst(t) ==
  /\ Goto(t, "first", "second")
  /\ lock[ToLockFirst(call[t])] = Null
  /\ lock' = [lock EXCEPT ![ToLockFirst(call[t])] = t]
  /\ UNCHANGED <<balance, recorded>>

AcquireSecond(t) ==
  /\ Goto(t, "second", "locked")
  /\ lock[ToLockSecond(call[t])] = Null
  /\ lock' = [lock EXCEPT ![ToLockSecond(call[t])] = t]
  /\ UNCHANGED <<balance, recorded>>

ReleaseBoth(t) == lock' = [o \in Objects |-> IF lock[o] = t THEN Null ELSE lock[o]]

TransferTo(t) ==
  LET c == call[t] IN
  /\ Goto(t, "locked", "record")
  /\ c.amount <= balance[c.from]
  /\ balance' = [balance EXCEPT ![c.from] = @ - c.amount, ![c.to] = @ + c.amount]
  /\ ReleaseBoth(t)
  /\ UNCHANGED recorded

RefuseTransfer(t) ==
  /\ Goto(t, "locked", "idle")
  /\ call[t].amount > balance[call[t].from]
  /\ ReleaseBoth(t)
  /\ UNCHANGED <<balance, recorded>>

Asked(t) == [src |-> call[t].src, dst |-> call[t].dst, amount |-> call[t].amount]

Record(t) ==
  /\ Goto(t, "record", "idle")
  /\ recorded' = [recorded EXCEPT ![Asked(t)] = @ + 1]
  /\ UNCHANGED <<balance, lock>>

Step(t) == AcquireFirst(t) \/ AcquireSecond(t) \/ TransferTo(t) \/ RefuseTransfer(t) \/ Record(t)

Next ==
  \/ \E i \in Ids, o \in Objects, b \in Balances : CreateAccount(i, o, b)
  \/ \E t \in Threads : Step(t) \/ \E i, j \in Ids, n \in Amounts : Transfer(t, i, j, n)

\* A thread inside a call is eventually scheduled.
Spec == Init /\ [][Next]_transferVars /\ \A t \in Threads : WF_transferVars(Step(t))

--------------------------------------------------------------------------------
Made == {o \in Objects : opening[o] # Null}

\* The money that funds gives the accounts that were made, unit by unit.
Money(funds) == UNION {{o} \X (1 .. funds[o]) : o \in Made}

\* What the transfers in C come to, unit by unit: those that are recorded, and those
\* that have still to write their record.
OnRecord(C) == UNION {({c} \X (1 .. recorded[c])) \X (1 .. c.amount) : c \in C}
ToRecord(C) ==
  UNION {{t} \X (1 .. call[t].amount) : t \in {u \in Threads : pc[u] = "record" /\ Asked(u) \in C}}
Moved(C) == Cardinality(OnRecord(C)) + Cardinality(ToRecord(C))

From(i) == {c \in Transfers : c.src = i}
To(i) == {c \in Transfers : c.dst = i}

\* While no id was given twice, the record and the transfers that have still to write
\* theirs explain what every account holds; and whatever was replaced under a
\* transfer that had found it, over all objects no money comes or goes.
RecordExplains ==
  /\ (\A o \in Made : \E i \in Ids : at[i] = o) =>
       \A i \in Ids : at[i] # Null =>
         balance[at[i]] + Moved(From(i)) = opening[at[i]] + Moved(To(i))
  /\ Cardinality(Money(balance)) = Cardinality(Money(opening))

\* No order of transfers waits for itself, whatever objects their ids named.
EveryCallReturns == \A t \in Threads : pc[t] # "idle" ~> pc[t] = "idle"
================================================================================
