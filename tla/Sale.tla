----------------------------------- MODULE Sale -----------------------------------
(***************************************************************************)
(* What a flash sale promises, in memory or in PostgreSQL: units on sale   *)
(* are sold one at a time, each once, until none is left.                  *)
(***************************************************************************)
EXTENDS Naturals

CONSTANT Offers  \* what is put on sale, each with its own units

VARIABLES
  open,  \* the offers that have been made
  left,  \* units not sold
  sold   \* units sold

saleVars == <<open, left, sold>>

SaleInit ==
  /\ open = {}
  /\ left = [o \in Offers |-> 0]
  /\ sold = [o \in Offers |-> 0]

Open(o) ==
  /\ o \notin open
  /\ open' = open \cup {o}
  /\ left'[o] \in Nat
  /\ left' = [left EXCEPT ![o] = left'[o]]
  /\ UNCHANGED sold

Sell(o) ==
  /\ o \in open
  /\ left[o] > 0
  /\ left' = [left EXCEPT ![o] = @ - 1]
  /\ sold' = [sold EXCEPT ![o] = @ + 1]
  /\ UNCHANGED open

SaleNext == \E o \in Offers : Open(o) \/ Sell(o)

SaleSpec == SaleInit /\ [][SaleNext]_saleVars
================================================================================
