------------------------- MODULE ReservationSeatService -------------------------
(***************************************************************************)
(* src/kata-026: a reservation holds a set of seats for TTL seconds.       *)
(* Nothing runs when a hold expires: the stored status stays HELD and      *)
(* LOCKED, and expiry is worked out when it is asked for.  Every method is *)
(* one section under the service lock, the clock read inside it.           *)
(***************************************************************************)
EXTENDS Integers

CONSTANTS
  Seats, Customers, Reservations,  \* reservation ids uuid4 may hand out
  TTL,                             \* TTL_IN_SECONDS
  MaxTime,                         \* bound on the clock
  Nobody

ASSUME SeatAssumption == TTL \in Nat /\ MaxTime \in Nat \ {0}

VARIABLES
  seat,         \* _seats_by_id; heldAt is 0 for datetime.min
  reservation,  \* _reservations_by_id; status "none" before hold_seats made it
  clock

seatVars == <<seat, reservation, clock>>

Free == [status |-> "free", heldAt |-> 0, heldBy |-> Nobody]

TypeOK ==
  /\ seat \in [Seats -> [status : {"free", "held"}, heldAt : 0 .. MaxTime,
                         heldBy : Customers \cup {Nobody}]]
  /\ reservation \in [Reservations ->
       [seats : SUBSET Seats, customer : Customers \cup {Nobody}, at : 0 .. MaxTime,
        status : {"none", "locked", "released"}]]
  /\ clock \in 1 .. MaxTime

Init ==
  /\ seat = [s \in Seats |-> Free]
  /\ reservation = [r \in Reservations |->
       [seats |-> {}, customer |-> Nobody, at |-> 0, status |-> "none"]]
  /\ clock = 1

\* Mutant: a hold ends one tick early.
IsExpired_Early(at) == at + TTL <= clock

IsExpired(at) == at + TTL < clock

\* get_status_with_ttl of a seat and of a reservation.
SeatStatus(s) == IF seat[s].status = "held" /\ ~IsExpired(seat[s].heldAt) THEN "held" ELSE "free"

ReservationStatus(r) ==
  IF reservation[r].status = "locked" /\ ~IsExpired(reservation[r].at) THEN "locked" ELSE "released"

\* Seat.hold raises SeatAlreadyHeld for every other seat.
Holdable(s) == seat[s].status = "free" \/ IsExpired(seat[s].heldAt)

--------------------------------------------------------------------------------
HoldSeats(c, S, r) ==
  /\ S # {} /\ \A s \in S : Holdable(s)
  /\ reservation[r].status = "none"
  /\ seat' = [s \in Seats |->
       IF s \in S THEN [status |-> "held", heldAt |-> clock, heldBy |-> c] ELSE seat[s]]
  /\ reservation' = [reservation EXCEPT ![r] =
       [seats |-> S, customer |-> c, at |-> clock, status |-> "locked"]]
  /\ UNCHANGED clock

\* Mutant: what was held before the refused seat stays held.
RefuseHold_NoRollback(c, S) ==
  /\ \E s \in S : ~Holdable(s)
  /\ \E before \in SUBSET {s \in S : Holdable(s)} :
       seat' = [s \in Seats |->
         IF s \in before THEN [status |-> "held", heldAt |-> clock, heldBy |-> c] ELSE seat[s]]
  /\ UNCHANGED <<reservation, clock>>

\* A seat of the set is held: the seats that the iteration over the set held
\* before it are freed again.  The order of a set is not defined.
RefuseHold(c, S) ==
  /\ \E s \in S : ~Holdable(s)
  /\ \E before \in SUBSET {s \in S : Holdable(s)} :
       seat' = [s \in Seats |-> IF s \in before THEN Free ELSE seat[s]]
  /\ UNCHANGED <<reservation, clock>>

\* The stored status decides, not the status with the TTL applied.
ReleaseReservation(c, r) ==
  /\ reservation[r].status = "locked"
  /\ reservation[r].customer = c
  /\ reservation' = [reservation EXCEPT ![r].at = 0, ![r].status = "released"]
  /\ seat' = [s \in Seats |-> IF s \in reservation[r].seats THEN Free ELSE seat[s]]
  /\ UNCHANGED clock

Tick ==
  /\ clock < MaxTime
  /\ clock' = clock + 1
  /\ UNCHANGED <<seat, reservation>>

Next ==
  \/ \E c \in Customers, S \in SUBSET Seats :
       RefuseHold(c, S) \/ \E r \in Reservations : HoldSeats(c, S, r)
  \/ \E c \in Customers, r \in Reservations : ReleaseReservation(c, r)
  \/ Tick

Spec == Init /\ [][Next]_seatVars

--------------------------------------------------------------------------------
\* No hold without a reservation: a seat that shows as held is one of the seats of
\* a reservation of its holder that shows as locked and is as old as the hold.
HoldsHaveReservations ==
  \A s \in Seats : SeatStatus(s) = "held" =>
    \E r \in Reservations :
      /\ s \in reservation[r].seats
      /\ reservation[r].customer = seat[s].heldBy
      /\ ReservationStatus(r) = "locked" /\ reservation[r].at = seat[s].heldAt

\* A hold within its time is nobody else's to end, by holding the seat, by failing to or
\* by the clock: it ends with the release of a reservation of the seat, its holder's or
\* one made no later than the hold, which the code does not tell from it.
NoSeatTaken ==
  [][\A s \in Seats :
       /\ seat[s].status = "held" /\ clock <= seat[s].heldAt + TTL
       /\ seat'[s] # seat[s]
       => \E r \in Reservations :
            /\ s \in reservation[r].seats
            /\ reservation[r].status = "locked" /\ reservation'[r].status = "released"
            /\ reservation[r].customer = seat[s].heldBy \/ reservation[r].at <= seat[s].heldAt]_seatVars

\* No partial holds: a refused hold_seats changes nothing that anyone can see,
\* whatever part of the set it had held, expired holds of others included.
RefusalInvisible ==
  [][reservation' = reservation =>
       \A s \in Seats : SeatStatus(s)' = "held" => SeatStatus(s) = "held"]_seatVars
================================================================================
