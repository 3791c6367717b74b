-------------------------------- MODULE MCBookings --------------------------------
(***************************************************************************)
(* Instances of the two services that book rooms, RoomBookingService and   *)
(* BookingService, with three slots of which two neighbours overlap and    *)
(* the outer two only touch, and of PaymentService, which like the second  *)
(* of them takes idempotency keys.  They share no state, so a behaviour    *)
(* runs one of them, its subject.                                          *)
(***************************************************************************)
EXTENDS RoomBookingService, TLC

CONSTANTS
  Subjects,  \* what a run explores, of "lists" (kata-007), "keys" (its rewrite) and "payments"
  MoreBookings, Keys,
  PaymentKeys, Payments, Charges

(* What the theorems of MCBookings_proofs assume of the constants beside   *)
(* RoomBookingAssumption: Null is none of the values it stands beside.     *)
ASSUME CallAssumption == Null \notin Calls

ASSUME KeyAssumption == Null \notin MoreBookings

ASSUME PaymentAssumption ==
  Null \notin Payments \cup Charges \cup [key : PaymentKeys, charge : Charges, payment : Payments]

VARIABLES
  subject,
  keyBooking, keyRooms, byRoom, users, byUser, idOf,
  byKey, payment, asking, answers

MCSlots == {[start |-> i, end |-> i + 2] : i \in 0 .. 2}

Symmetry ==
  Permutations(Rooms) \cup Permutations(Users) \cup Permutations(Threads)
    \cup Permutations(Bookings) \cup Permutations(MoreBookings)

Keyed == INSTANCE BookingService WITH
  Bookings <- MoreBookings, booking <- keyBooking, rooms <- keyRooms

Paying == INSTANCE PaymentService WITH Keys <- PaymentKeys, byId <- payment

paymentVars == <<byKey, payment, asking, answers>>
mcKeyVars == <<keyBooking, keyRooms, byRoom, users, byUser, idOf>>

MCInit == subject \in Subjects /\ Init /\ Keyed!Init /\ Paying!Init

MCNext ==
  /\ UNCHANGED subject
  /\ \/ subject = "lists" /\ Next /\ UNCHANGED <<mcKeyVars, paymentVars>>
     \/ subject = "keys" /\ Keyed!Next /\ UNCHANGED <<bookVars, paymentVars>>
     \/ subject = "payments" /\ Paying!Next /\ UNCHANGED <<bookVars, mcKeyVars>>

MCSpec == MCInit /\ [][MCNext]_<<subject, bookVars, mcKeyVars, paymentVars>>

--------------------------------------------------------------------------------
\* The types of the services.
BookingTypes == TypeOK /\ Keyed!TypeOK /\ Paying!TypeOK

\* Neither service promises a room to two bookings at one moment.
RoomsBookedOnce == NoDoubleBooking /\ Keyed!NoDoubleBooking

\* A booking that can be looked up is listed, and one that its owner cancels is not.  In
\* kata-007: while no cancel of it is under way, a booking with an id is in the list of its
\* room and in the list object it was made with, no list has another user's booking, and a
\* cancel under a booking's own room and user has it out of the lists before its id goes.
\* What is listed need not have an id there: a room's later bookings never have, and a
\* cancel that names another room and user deletes the id of a booking it leaves listed.
\* In the rewrite the sets of rooms and users are the bookings, both ways.
KnownBookingsListed == KnownHoldsRoom /\ ListsHoldOwn /\ CancelUnlists /\ Keyed!IndexesAgree

\* A key books once, whatever it is sent with and after whatever was cancelled, and a
\* key pays once.
BooksUnderNewKey == Keyed!BooksUnderNewKey /\ []Paying!PaidOncePerKey
===================================================================================
