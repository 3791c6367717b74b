------------------------------ MODULE PointsService ------------------------------
(***************************************************************************)
(* src/kata-011: accounts of points, each with the log of its operations.  *)
(* Every operation runs under the one lock of the service, so each is one  *)
(* action; an account may transfer to itself.                              *)
(***************************************************************************)
EXTENDS Integers, Sequences, FiniteSets, FiniteSetsExt

CONSTANTS
  Accounts, Points, Balances,
  MaxOperations, \* bound on the operations in the logs of all accounts
  Null

VARIABLES
  opening,   \* history: opening[a]: the balance a was created with, or Null
  balance,
  operations \* operations[a]: the log of a; with is the other account, or Null

pointVars == <<opening, balance, operations>>

EARN == "earn"
REDEEM == "redeem"
TRANSFER_TO == "transfer_to"
TRANSFER_FROM == "transfer_from"

Operations ==
  [type : {EARN, REDEEM, TRANSFER_TO, TRANSFER_FROM}, points : Points,
   with : Accounts \cup {Null}]

TypeOK ==
  /\ opening \in [Accounts -> Balances \cup {Null}]
  /\ balance \in [Accounts -> Int]
  /\ operations \in [Accounts -> Seq(Operations)]

Init ==
  /\ opening = [a \in Accounts |-> Null]
  /\ balance = [a \in Accounts |-> 0]
  /\ operations = [a \in Accounts |-> <<>>]

Logged == MapThenSumSet(LAMBDA a : Len(operations[a]), Accounts)

CreateAccount(a, b) ==
  /\ opening[a] = Null
  /\ opening' = [opening EXCEPT ![a] = b]
  /\ balance' = [balance EXCEPT ![a] = b]
  /\ UNCHANGED operations

Record(a, type, p, with) ==
  Append(operations[a], [type |-> type, points |-> p, with |-> with])

EarnPoints(a, p) ==
  /\ opening[a] # Null /\ Logged < MaxOperations
  /\ balance' = [balance EXCEPT ![a] = @ + p]
  /\ operations' = [operations EXCEPT ![a] = Record(a, EARN, p, Null)]
  /\ UNCHANGED opening

RedeemPoints(a, p) ==
  /\ opening[a] # Null /\ Logged < MaxOperations
  /\ p <= balance[a]
  /\ balance' = [balance EXCEPT ![a] = @ - p]
  /\ operations' = [operations EXCEPT ![a] = Record(a, REDEEM, p, Null)]
  /\ UNCHANGED opening

\* s and d may be the same account: it is debited, and then credited.
TransferPoints(s, d, p) ==
  /\ {opening[s], opening[d]} \subseteq Balances /\ Logged + 1 < MaxOperations
  /\ p <= balance[s]
  /\ balance' = [balance EXCEPT ![s] = @ - p, ![d] = @ + p]
  /\ operations' = [operations EXCEPT
       ![s] = Append(@, [type |-> TRANSFER_TO, points |-> p, with |-> d]),
       ![d] = Append(@, [type |-> TRANSFER_FROM, points |-> p, with |-> s])]
  /\ UNCHANGED opening

Next ==
  \E a \in Accounts :
    \/ \E b \in Balances : CreateAccount(a, b)
    \/ \E p \in Points : EarnPoints(a, p) \/ RedeemPoints(a, p)
    \/ \E p \in Points, d \in Accounts : TransferPoints(a, d, p)

Spec == Init /\ [][Next]_pointVars

--------------------------------------------------------------------------------
\* The points of the operations of some types in a log, one by one.
PointsOf(log, types) ==
  UNION {{i} \X (1 .. log[i].points) : i \in {j \in DOMAIN log : log[j].type \in types}}

Times(log, op) == Cardinality({i \in DOMAIN log : log[i] = op})

\* The log of an account explains its balance from the one it was created with, it is
\* never below zero, and what one log says went to another account, that account's log
\* says came from the first.
LogsExplain ==
  \A a \in Accounts :
    /\ balance[a] >= 0
    /\ opening[a] # Null =>
         balance[a] + Cardinality(PointsOf(operations[a], {REDEEM, TRANSFER_TO}))
           = opening[a] + Cardinality(PointsOf(operations[a], {EARN, TRANSFER_FROM}))
    /\ \A d \in Accounts, p \in Points :
         Times(operations[a], [type |-> TRANSFER_TO, points |-> p, with |-> d]) =
         Times(operations[d], [type |-> TRANSFER_FROM, points |-> p, with |-> a])
==================================================================================
