------------------------------- MODULE PromoService -------------------------------
(***************************************************************************)
(* src/kata-025: promo codes with a limit of redemptions, one for each     *)
(* user, for some days.  The clock is read before the service lock is      *)
(* taken, everything else happens under it.                                *)
(***************************************************************************)
EXTENDS Integers, FiniteSets

CONSTANTS
  Promos, Users, Threads,
  Limits,    \* values of max_redemptions
  Durations, \* values of duration_in_days
  MaxTime,   \* bound on the clock
  Null

VARIABLES
  promo,       \* _promos: an entry, or Null
  clock,
  now,         \* now[t]: the time a thread in a call has read, or Null
  redeemedAt   \* history: redeemedAt[p]: the users and times of the redemptions of p

promoVars == <<promo, clock, now, redeemedAt>>

TypeOK ==
  /\ promo \in [Promos -> [max : Limits, days : Durations, createdAt : 1 .. MaxTime,
                           users : SUBSET Users] \cup {Null}]
  /\ clock \in 1 .. MaxTime
  /\ now \in [Threads -> (1 .. MaxTime) \cup {Null}]
  /\ redeemedAt \in [Promos -> SUBSET (Users \X (1 .. MaxTime))]

Init ==
  /\ promo = [p \in Promos |-> Null]
  /\ clock = 1
  /\ now = [t \in Threads |-> Null]
  /\ redeemedAt = [p \in Promos |-> {}]

ReadClock(t) ==
  /\ now[t] = Null
  /\ now' = [now EXCEPT ![t] = clock]
  /\ UNCHANGED <<promo, clock, redeemedAt>>

Leave(t) == now' = [now EXCEPT ![t] = Null] /\ UNCHANGED clock

CreatePromoCode(t, p, max, days) ==
  /\ now[t] # Null /\ promo[p] = Null
  /\ promo' = [promo EXCEPT ![p] = [max |-> max, days |-> days, createdAt |-> now[t], users |-> {}]]
  /\ Leave(t) /\ UNCHANGED redeemedAt

\* Promo.redeem raises otherwise, which it finds out in this order.
Redeemable(p, u, at) ==
  /\ Cardinality(promo[p].users) # promo[p].max
  /\ u \notin promo[p].users
  /\ promo[p].createdAt + promo[p].days >= at

RedeemPromoCode(t, p, u) ==
  /\ now[t] # Null /\ promo[p] # Null
  /\ IF Redeemable(p, u, now[t])
     THEN /\ promo' = [promo EXCEPT ![p].users = @ \cup {u}]
          /\ redeemedAt' = [redeemedAt EXCEPT ![p] = @ \cup {<<u, now[t]>>}]
     ELSE UNCHANGED <<promo, redeemedAt>>
  /\ Leave(t)

Tick ==
  /\ clock < MaxTime
  /\ clock' = clock + 1
  /\ UNCHANGED <<promo, now, redeemedAt>>

Next ==
  \/ Tick
  \/ \E t \in Threads, p \in Promos :
       \/ ReadClock(t)
       \/ \E max \in Limits, days \in Durations : CreatePromoCode(t, p, max, days)
       \/ \E u \in Users : RedeemPromoCode(t, p, u)

Spec == Init /\ [][Next]_promoVars

--------------------------------------------------------------------------------
\* A code gives no more discounts than its limit, one for each user, all by times
\* within its days, though those times were read before the lock was taken and may
\* come out of order, before the code was created included.
PromosKept ==
  \A p \in Promos : promo[p] # Null =>
    /\ Cardinality(redeemedAt[p]) <= promo[p].max
    /\ \A r, q \in redeemedAt[p] : r[1] = q[1] => r = q
    /\ \A r \in redeemedAt[p] : r[2] <= promo[p].createdAt + promo[p].days
===================================================================================
