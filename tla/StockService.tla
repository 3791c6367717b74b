------------------------------- MODULE StockService -------------------------------
(***************************************************************************)
(* src/kata-002: stock that is reserved, and a reservation released or     *)
(* confirmed.  Products are never removed or replaced, so finding one      *)
(* under the service lock and acting on it under its own are one action.   *)
(* src/kata-009 is the same service without a way to confirm, and does not *)
(* look at a status when it releases.                                      *)
(***************************************************************************)
EXTENDS Integers, FiniteSets

CONSTANTS
  Products, Reservations,
  MaxStock,  \* bound: the largest quantity that is added or reserved
  Null

VARIABLES
  added,     \* added[p]: the quantity p was added with, or 0 when it is not there
  available, \* available_quantity
  reserved   \* reserved[r]: a reservation's record, or Null

stockVars == <<added, available, reserved>>

TypeOK ==
  /\ added \in [Products -> 0 .. MaxStock]
  /\ available \in [Products -> Nat]
  /\ reserved \in [Reservations ->
       [product : Products, quantity : 1 .. MaxStock, status : {"pending", "confirmed"}]
         \cup {Null}]

Init ==
  /\ added = [p \in Products |-> 0]
  /\ available = [p \in Products |-> 0]
  /\ reserved = [r \in Reservations |-> Null]

AddProduct(p, n) ==
  /\ added[p] = 0
  /\ added' = [added EXCEPT ![p] = n]
  /\ available' = [available EXCEPT ![p] = n]
  /\ UNCHANGED reserved

ReserveQuantity(p, r, n) ==
  /\ added[p] # 0 /\ reserved[r] = Null
  /\ n <= available[p]
  /\ reserved' = [reserved EXCEPT ![r] = [product |-> p, quantity |-> n, status |-> "pending"]]
  /\ available' = [available EXCEPT ![p] = @ - n]
  /\ UNCHANGED added

\* The reservation is looked for in the product that the caller names.
ReleaseQuantity(p, r) ==
  /\ reserved[r] # Null /\ reserved[r].product = p
  /\ reserved[r].status = "pending"
  /\ available' = [available EXCEPT ![p] = @ + reserved[r].quantity]
  /\ reserved' = [reserved EXCEPT ![r] = Null]
  /\ UNCHANGED added

ConfirmReservation(p, r) ==
  /\ reserved[r] # Null /\ reserved[r].product = p
  /\ reserved' = [reserved EXCEPT ![r].status = "confirmed"]
  /\ UNCHANGED <<added, available>>

Next ==
  \E p \in Products :
    \/ \E n \in 1 .. MaxStock : AddProduct(p, n) \/ \E r \in Reservations : ReserveQuantity(p, r, n)
    \/ \E r \in Reservations : ReleaseQuantity(p, r) \/ ConfirmReservation(p, r)

Spec == Init /\ [][Next]_stockVars

--------------------------------------------------------------------------------
(* kata-009.  A product may be registered with no stock; like one that is  *)
(* not there, it has nothing to reserve.                                   *)
RegisterProduct(p, n) == AddProduct(p, n)

ReserveProduct(p, r, n) == ReserveQuantity(p, r, n)

ReleaseReservation(p, r) ==
  /\ reserved[r] # Null /\ reserved[r].product = p
  /\ available' = [available EXCEPT ![p] = @ + reserved[r].quantity]
  /\ reserved' = [reserved EXCEPT ![r] = Null]
  /\ UNCHANGED added

NextWithoutConfirm ==
  \E p \in Products :
    \/ \E n \in 1 .. MaxStock : RegisterProduct(p, n)
    \/ \E r \in Reservations :
         ReleaseReservation(p, r) \/ \E n \in 1 .. MaxStock : ReserveProduct(p, r, n)

--------------------------------------------------------------------------------
\* The units of p that reservations hold, counted within each reservation.
UnitsHeld(p) ==
  {k \in Reservations \X (1 .. MaxStock) :
     reserved[k[1]] # Null /\ reserved[k[1]].product = p /\ k[2] <= reserved[k[1]].quantity}

\* What a product was added with is what is available and what its reservations,
\* pending or confirmed, hold: nothing is promised twice, and a release gives back
\* what its reservation took, once.
StockConserved ==
  \A p \in Products : added[p] = available[p] + Cardinality(UnitsHeld(p))
===================================================================================
