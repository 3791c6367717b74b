--------------------------------- MODULE MCHolds ---------------------------------
(***************************************************************************)
(* Instances of the services that give out what there is a limit of:       *)
(* ReservationSeatService, LibraryService, SupportService, StockService,   *)
(* CouponService, MerchantService, PromoService, ClientQuotaService and    *)
(* RateLimiterService, in memory and in rows.  They share no state, so a   *)
(* behaviour runs one of them, its subject.                                *)
(***************************************************************************)
EXTENDS ReservationSeatService, FiniteSets, TLC

CONSTANTS
  Subjects,  \* of the subjects that the disjuncts of MCNext and CounterNext name
  Books, Members, Limit, Deltas, MaxCopies,
  Agents, Tickets, Priorities, MaxCapacity,
  Products, StockHolds, MaxStock,
  Coupons, MaxRedemptions,
  Merchants, Chargers, Cents,
  Promos, Users, Redeemers, Limits, Durations, PromoTime,
  Clients, Quotas, Windows, QuotaTime,
  Callers, CAP, LimiterTime, MaxCalls

(* What the theorems of MCHolds_proofs assume of the constants: sizes and  *)
(* times are numbers, sets that are counted are finite, and Nobody is none *)
(* of the values it stands beside.                                         *)
ASSUME LibraryAssumption ==
  /\ Limit \in Nat /\ MaxCopies \in Nat /\ Deltas \subseteq Int
  /\ IsFiniteSet(Books) /\ IsFiniteSet(Members)
  /\ Nobody \notin 0 .. MaxCopies /\ \A B \in SUBSET Books : B # Nobody

ASSUME SupportAssumption ==
  /\ Tickets \subseteq Int /\ IsFiniteSet(Tickets) /\ Priorities \subseteq Int
  /\ MaxCapacity \in Nat /\ Nobody \notin Agents

ASSUME StockAssumption ==
  /\ IsFiniteSet(StockHolds) /\ MaxStock \in Nat
  /\ Nobody \notin [product : Products, quantity : 1 .. MaxStock, status : {"pending", "confirmed"}]

ASSUME CouponAssumption ==
  /\ IsFiniteSet(Customers) /\ MaxRedemptions \in Nat
  /\ Nobody \notin [all : 1 .. MaxRedemptions, each : 1 .. MaxRedemptions] \cup (0 .. MaxRedemptions)

ASSUME MerchantAssumption ==
  /\ Cents \subseteq Nat \ {0}
  /\ Nobody \notin [step : {"register"}, merchant : Merchants]
       \cup [step : {"charge"}, merchant : Merchants, amount : Cents]

ASSUME PromoAssumption ==
  /\ IsFiniteSet(Users) /\ PromoTime \in Nat \ {0}
  /\ Limits \subseteq Nat /\ Durations \subseteq Int
  /\ Nobody \notin (1 .. PromoTime) \cup [max : Limits, days : Durations, createdAt : 1 .. PromoTime,
                                         users : SUBSET Users]

ASSUME QuotaAssumption ==
  QuotaTime \in Nat \ {0} /\ Quotas \subseteq Nat \ {0} /\ Windows \subseteq Nat

ASSUME LimiterAssumption ==
  /\ CAP \in Nat /\ LimiterTime \in Nat \ {0} /\ MaxCalls \in Nat
  /\ IsFiniteSet(Callers) /\ Nobody \notin Callers \cup (1 .. LimiterTime)

VARIABLES
  subject,
  copies, borrowers, loans,
  agent, ticket, queue,
  added, available, reserved,
  limits, redeemed, customers,
  cap, spent, locks, charging,
  promo, pClock, pNow, redeemedAt,
  quota, requests, qClock, accepted,
  tokens, last, lClock, now, naive, holder, inserted, calls, allowed, stale

Library == INSTANCE LibraryService WITH Absent <- Nobody
Support == INSTANCE SupportService WITH Null <- Nobody
Stock == INSTANCE StockService WITH Reservations <- StockHolds, Null <- Nobody
Coupon == INSTANCE CouponService WITH Null <- Nobody
Merchant == INSTANCE MerchantService WITH Threads <- Chargers, Null <- Nobody
Promo == INSTANCE PromoService
  WITH Threads <- Redeemers, MaxTime <- PromoTime, clock <- pClock, now <- pNow, Null <- Nobody
Quota == INSTANCE ClientQuotaService WITH MaxTime <- QuotaTime, clock <- qClock
Limiter == INSTANCE RateLimiterService WITH MaxTime <- LimiterTime, clock <- lClock, Null <- Nobody

mcLibraryVars == <<copies, borrowers, loans>>
mcSupportVars == <<agent, ticket, queue>>
stockVars == <<added, available, reserved>>
couponVars == <<limits, redeemed, customers>>
quotaVars == <<quota, requests, qClock, accepted>>
merchantVars == <<cap, spent, locks, charging>>
promoVars == <<promo, pClock, pNow, redeemedAt>>
limiterVars == <<tokens, last, lClock, now, naive, holder, inserted, calls, allowed, stale>>
counterVars == <<stockVars, couponVars, merchantVars, promoVars, quotaVars, limiterVars>>

Symmetry ==
  Permutations(Seats) \cup Permutations(Customers) \cup Permutations(Reservations)
    \cup Permutations(Members)

MCInit ==
  /\ subject \in Subjects
  /\ Init /\ Library!Init /\ Support!Init
  /\ Stock!Init /\ Coupon!Init /\ Merchant!Init /\ Promo!Init /\ Quota!Init /\ Limiter!Init

CounterNext ==
  \/ /\ subject = "stock" /\ Stock!Next
     /\ UNCHANGED <<couponVars, merchantVars, promoVars, quotaVars, limiterVars>>
  \/ /\ subject = "stock 009" /\ Stock!NextWithoutConfirm
     /\ UNCHANGED <<couponVars, merchantVars, promoVars, quotaVars, limiterVars>>
  \/ /\ subject = "coupons" /\ Coupon!Next
     /\ UNCHANGED <<stockVars, merchantVars, promoVars, quotaVars, limiterVars>>
  \/ /\ subject = "merchants" /\ Merchant!Next
     /\ UNCHANGED <<stockVars, couponVars, promoVars, quotaVars, limiterVars>>
  \/ /\ subject = "promos" /\ Promo!Next
     /\ UNCHANGED <<stockVars, couponVars, merchantVars, quotaVars, limiterVars>>
  \/ /\ subject = "quota" /\ Quota!Next
     /\ UNCHANGED <<stockVars, couponVars, merchantVars, promoVars, limiterVars>>
  \/ /\ subject = "limiter" /\ Limiter!Next
     /\ UNCHANGED <<stockVars, couponVars, merchantVars, promoVars, quotaVars>>
  \/ /\ subject = "limiter rows" /\ Limiter!RowsNext
     /\ UNCHANGED <<stockVars, couponVars, merchantVars, promoVars, quotaVars>>

MCNext ==
  /\ UNCHANGED subject
  /\ \/ /\ subject = "seats" /\ Next
        /\ UNCHANGED <<mcLibraryVars, mcSupportVars, counterVars>>
     \/ /\ subject = "library" /\ Library!Next
        /\ UNCHANGED <<seatVars, mcSupportVars, counterVars>>
     \/ /\ subject = "support" /\ Support!Next
        /\ UNCHANGED <<seatVars, mcLibraryVars, counterVars>>
     \/ CounterNext /\ UNCHANGED <<seatVars, mcLibraryVars, mcSupportVars>>

MCSpec == MCInit /\ [][MCNext]_<<subject, seatVars, mcLibraryVars, mcSupportVars, counterVars>>

--------------------------------------------------------------------------------
\* The types of the services.
HoldTypes ==
  /\ TypeOK /\ Library!TypeOK /\ Support!TypeOK
  /\ Stock!TypeOK /\ Coupon!TypeOK /\ Merchant!TypeOK /\ Promo!TypeOK
  /\ Quota!TypeOK /\ Limiter!TypeOK

\* Nothing is given out beyond its limit: no copy is lent twice, no loan escapes the
\* member's record and limit, and an agent's load is its tickets, within capacity.
WithinLimits == Library!NeverOverLent /\ Library!LoansRecorded /\ Support!LoadIsTickets

\* What is counted adds up, and stays within its limits: stock, redemptions, the charges
\* of a merchant, and the requests of a client by sliding window and by bucket of tokens.
CountsHold ==
  /\ Stock!StockConserved /\ Coupon!LimitsKept /\ Merchant!CapsKept /\ Promo!PromosKept
  /\ Quota!QuotaHolds /\ Limiter!RateHolds

\* charge_merchant refuses a charge only when it would bring the total above the cap, as
\* feedback/kata-001.md:34 reads the rule of the kata.
RefusedOnlyBeyondCap == Merchant!RefusedOnlyBeyondCap

\* Only a pull refused for want of capacity takes a live ticket out of the queue.
OnlyRefusalsDrop == Support!OnlyRefusalsDrop
==================================================================================
