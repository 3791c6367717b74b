------------------------------ MODULE CouponService ------------------------------
(***************************************************************************)
(* src/kata-003: coupons with two limits, on all redemptions and on those  *)
(* of one customer, checked and counted under the coupon's lock.  Coupons  *)
(* are never removed, so finding one and redeeming it are one action.      *)
(***************************************************************************)
EXTENDS Integers, FiniteSets

CONSTANTS Coupons, Customers, MaxRedemptions, Null

VARIABLES
  limits,    \* limits[c]: max_redemptions and max_redemptions_by_customer, or Null
  redeemed,  \* current_redemptions
  customers  \* current_redemptions_by_customer; Null when the customer has no entry

couponVars == <<limits, redeemed, customers>>

TypeOK ==
  /\ limits \in [Coupons -> [all : 1 .. MaxRedemptions, each : 1 .. MaxRedemptions] \cup {Null}]
  /\ redeemed \in [Coupons -> 0 .. MaxRedemptions]
  /\ customers \in [Coupons -> [Customers -> (0 .. MaxRedemptions) \cup {Null}]]

Init ==
  /\ limits = [c \in Coupons |-> Null]
  /\ redeemed = [c \in Coupons |-> 0]
  /\ customers = [c \in Coupons |-> [u \in Customers |-> Null]]

CreateCoupon(c, all, each) ==
  /\ limits[c] = Null
  /\ limits' = [limits EXCEPT ![c] = [all |-> all, each |-> each]]
  /\ UNCHANGED <<redeemed, customers>>

Count(c, u) == IF customers[c][u] = Null THEN 0 ELSE customers[c][u]

Allowed(c, u) == Count(c, u) < limits[c].each

\* A refusal for the customer's limit comes after the customer's entry is made.
RedeemCoupon(c, u) ==
  /\ limits[c] # Null /\ redeemed[c] < limits[c].all
  /\ IF Allowed(c, u)
     THEN /\ redeemed' = [redeemed EXCEPT ![c] = @ + 1]
          /\ customers' = [customers EXCEPT ![c][u] = Count(c, u) + 1]
     ELSE customers' = [customers EXCEPT ![c][u] = Count(c, u)] /\ UNCHANGED redeemed
  /\ UNCHANGED limits

Next ==
  \E c \in Coupons :
    \/ \E all, each \in 1 .. MaxRedemptions : CreateCoupon(c, all, each)
    \/ \E u \in Customers : RedeemCoupon(c, u)

Spec == Init /\ [][Next]_couponVars

--------------------------------------------------------------------------------
\* The redemptions of c, counted within each customer.
Redemptions(c) == {k \in Customers \X (1 .. MaxRedemptions) : k[2] <= Count(c, k[1])}

\* A coupon's counter is the sum of its customers' counters, and neither passes its limit.
LimitsKept ==
  \A c \in Coupons : limits[c] # Null =>
    /\ redeemed[c] <= limits[c].all
    /\ redeemed[c] = Cardinality(Redemptions(c))
    /\ \A u \in Customers : Count(c, u) <= limits[c].each
==================================================================================
