------------------------------ MODULE AtomicBank ------------------------------
(***************************************************************************)
(* What src/kata-004 promises of its wallets, with no lock and no thread:  *)
(* every deposit, withdrawal and transfer is one indivisible step, a       *)
(* transfer moves the whole amount or nothing, and a source wallet settles *)
(* an idempotency key once.  WalletService is shown to implement it, and   *)
(* so are AccountService and TransferRows, for the services of two more    *)
(* katas.                                                                  *)
(***************************************************************************)
EXTENDS Integers

CONSTANTS Wallets, Keys, Amounts, InitialBalances

VARIABLES
  opened,   \* the wallets that exist
  funds,    \* funds[w]: the money in w
  settled   \* settled[w]: the keys of the transfers w has taken part in

bankVars == <<opened, funds, settled>>

Init ==
  /\ opened = {}
  /\ funds = [w \in Wallets |-> 0]
  /\ settled = [w \in Wallets |-> {}]

Open(w, b) ==
  /\ w \notin opened
  /\ opened' = opened \cup {w}
  /\ funds' = [funds EXCEPT ![w] = b]
  /\ UNCHANGED settled

Deposit(w, a) ==
  /\ w \in opened
  /\ funds' = [funds EXCEPT ![w] = @ + a]
  /\ UNCHANGED <<opened, settled>>

Withdraw(w, a) ==
  /\ w \in opened
  /\ a <= funds[w]
  /\ funds' = [funds EXCEPT ![w] = @ - a]
  /\ UNCHANGED <<opened, settled>>

Transfer(s, d, a, k) ==
  /\ {s, d} \subseteq opened /\ s # d
  /\ k \notin settled[s]
  /\ a <= funds[s]
  /\ funds' = [funds EXCEPT ![s] = @ - a, ![d] = @ + a]
  /\ settled' = [settled EXCEPT ![s] = @ \cup {k}, ![d] = @ \cup {k}]
  /\ UNCHANGED opened

OpenOrTransfer ==
  \/ \E w \in Wallets, b \in InitialBalances : Open(w, b)
  \/ \E s, d \in Wallets, a \in Amounts, k \in Keys : Transfer(s, d, a, k)

Next == OpenOrTransfer \/ \E w \in Wallets, a \in Amounts : Deposit(w, a) \/ Withdraw(w, a)

Spec == Init /\ [][Next]_bankVars

\* A bank that takes no money in after an account is opened, and pays none out.
ClosedSpec == Init /\ [][OpenOrTransfer]_bankVars
===============================================================================
