------------------------------ MODULE BookingService ------------------------------
(***************************************************************************)
(* src/kata-007-rewrite: bookings by id, with the ids listed by room and   *)
(* by user, and idempotency keys.  Every operation runs under the service  *)
(* lock, so each is one step here.                                         *)
(***************************************************************************)
EXTENDS Integers

CONSTANTS
  Rooms, Users,
  Slots,     \* intervals of time that callers ask for
  Bookings,  \* booking ids uuid4 may hand out
  Keys,      \* idempotency keys
  Null       \* no entry

VARIABLES
  booking,  \* _bookings: the Booking of an id, Null for no entry
  rooms,    \* the rooms that have an entry in _bookings_by_room
  byRoom,   \* the ids in the room's set
  users,    \* the users that have an entry in _bookings_by_user
  byUser,   \* the ids in the user's set
  idOf      \* _idempotency_keys: the id booked under a key, Null for no entry

bookingVars == <<booking, rooms, byRoom, users, byUser, idOf>>

TypeOK ==
  /\ booking \in [Bookings -> [room : Rooms, user : Users, slot : Slots] \cup {Null}]
  /\ rooms \subseteq Rooms
  /\ byRoom \in [Rooms -> SUBSET Bookings]
  /\ users \subseteq Users
  /\ byUser \in [Users -> SUBSET Bookings]
  /\ idOf \in [Keys -> Bookings \cup {Null}]

Init ==
  /\ booking = [b \in Bookings |-> Null]
  /\ rooms = {} /\ byRoom = [r \in Rooms |-> {}]
  /\ users = {} /\ byUser = [u \in Users |-> {}]
  /\ idOf = [k \in Keys |-> Null]

Later(x, y) == IF x > y THEN x ELSE y
Earlier(x, y) == IF x < y THEN x ELSE y

Overlaps(c, d) == Later(c.start, d.start) < Earlier(c.end, d.end)

Conflict(r, s) == \E x \in byRoom[r] : Overlaps(s, booking[x].slot)

Fresh(b) == booking[b] = Null /\ \A k \in Keys : idOf[k] # b

\* create_booking under a key seen before only answers the key's id; the two
\* actions are for a new key.  An entry for the room and the user is made first,
\* also when the booking is then refused.
Register(k, r, u) ==
  /\ idOf[k] = Null
  /\ rooms' = rooms \cup {r}
  /\ users' = users \cup {u}

RefuseOverlap(k, r, u, s) ==
  /\ Register(k, r, u)
  /\ Conflict(r, s)
  /\ UNCHANGED <<booking, byRoom, byUser, idOf>>

\* Mutant: the key is looked up and not kept.
CreateBooking_ForgetsKey(k, b, r, u, s) ==
  /\ Register(k, r, u)
  /\ Fresh(b) /\ ~Conflict(r, s)
  /\ booking' = [booking EXCEPT ![b] = [room |-> r, user |-> u, slot |-> s]]
  /\ byRoom' = [byRoom EXCEPT ![r] = @ \cup {b}]
  /\ byUser' = [byUser EXCEPT ![u] = @ \cup {b}]
  /\ UNCHANGED idOf

CreateBooking(k, b, r, u, s) ==
  /\ Register(k, r, u)
  /\ Fresh(b) /\ ~Conflict(r, s)
  /\ booking' = [booking EXCEPT ![b] = [room |-> r, user |-> u, slot |-> s]]
  /\ byRoom' = [byRoom EXCEPT ![r] = @ \cup {b}]
  /\ byUser' = [byUser EXCEPT ![u] = @ \cup {b}]
  /\ idOf' = [idOf EXCEPT ![k] = b]

\* cancel_booking; it raises, and changes nothing, when a guard is false.
CancelBooking(b, r, u) ==
  /\ booking[b] # Null
  /\ r \in rooms /\ u \in users
  /\ booking[b].room = r /\ booking[b].user = u
  /\ byRoom' = [byRoom EXCEPT ![r] = @ \ {b}]
  /\ byUser' = [byUser EXCEPT ![u] = @ \ {b}]
  /\ booking' = [booking EXCEPT ![b] = Null]
  /\ UNCHANGED <<rooms, users, idOf>>

Next ==
  \E r \in Rooms, u \in Users :
    \/ \E k \in Keys, s \in Slots :
         \/ RefuseOverlap(k, r, u, s)
         \/ \E b \in Bookings : CreateBooking(k, b, r, u, s)
    \/ \E b \in Bookings : CancelBooking(b, r, u)

Spec == Init /\ [][Next]_bookingVars

--------------------------------------------------------------------------------
Moments(b) == booking[b].slot.start .. (booking[b].slot.end - 1)

\* The three records of a booking never part: a room's set and a user's set hold
\* the live bookings made for them, all of them and no others.  The lists that
\* are built from the sets look every id up in _bookings.
IndexesAgree ==
  /\ \A r \in Rooms : byRoom[r] = {b \in Bookings : booking[b] # Null /\ booking[b].room = r}
  /\ \A u \in Users : byUser[u] = {b \in Bookings : booking[b] # Null /\ booking[b].user = u}

\* No room is promised to two bookings at one moment, also after cancels.
NoDoubleBooking ==
  \A b, x \in Bookings :
    booking[b] # Null /\ booking[x] # Null /\ b # x /\ booking[b].room = booking[x].room
      => Moments(b) \cap Moments(x) = {}

\* A key books once, however often and with whatever it is sent again: a booking
\* that appears takes a key that had none, and no other key has its id.
BooksUnderNewKey ==
  [][\A b \in Bookings : booking[b] = Null /\ booking'[b] # Null =>
       \E k \in Keys : idOf[k] = Null /\ \A x \in Keys : (idOf'[x] = b) = (x = k)]_bookingVars
================================================================================
