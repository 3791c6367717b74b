---------------------------- MODULE RoomBookingService ----------------------------
(***************************************************************************)
(* src/kata-007: bookings of rooms, kept in a list per room, a list per    *)
(* user and a dictionary by id.  The first booking of a room is entered    *)
(* in all three under the service lock.  A later one goes into the room's  *)
(* list under the room's lock and then into the user's under the user's; a *)
(* cancel leaves the three one after the other.  A call keeps the list     *)
(* objects it found under the service lock, also when the user's is        *)
(* replaced meanwhile.                                                     *)
(***************************************************************************)
EXTENDS Integers

CONSTANTS
  Rooms, Users,
  Slots,      \* intervals of time that callers ask for
  Bookings,   \* booking ids uuid4 may hand out
  Threads,    \* callers
  Null        \* no entry

ASSUME RoomBookingAssumption ==
  /\ Slots \subseteq [start : Int, end : Int]
  /\ Null \notin Bookings
  /\ Null \notin [room : Rooms, user : Users, slot : Slots]

VARIABLES
  booking,  \* the Booking of an id and whom it was made for, Null before
  rooms,    \* the rooms that have an entry in _room_bookings
  inRoom,   \* the bookings in the room's list
  userRef,  \* _user_bookings: the UserBookings object of the user, named by the
            \* booking it was created with, or Null
  inUser,   \* inUser[o]: the bookings in the UserBookings object o
  byId,     \* the ids in _bookings_by_id
  call      \* call[t]: what t is in the middle of

bookVars == <<booking, rooms, inRoom, userRef, inUser, byId, call>>

Calls == [step : {"addRoom", "addUser", "cancelRoom", "cancelUser", "cancelId"},
          b : Bookings, room : Rooms, user : Users, list : Bookings]

TypeOK ==
  /\ booking \in [Bookings -> [room : Rooms, user : Users, slot : Slots] \cup {Null}]
  /\ rooms \subseteq Rooms
  /\ inRoom \in [Rooms -> SUBSET Bookings]
  /\ userRef \in [Users -> Bookings \cup {Null}]
  /\ inUser \in [Bookings -> SUBSET Bookings]
  /\ byId \subseteq Bookings
  /\ call \in [Threads -> Calls \cup {Null}]

Init ==
  /\ booking = [b \in Bookings |-> Null]
  /\ rooms = {}
  /\ inRoom = [r \in Rooms |-> {}]
  /\ userRef = [u \in Users |-> Null]
  /\ inUser = [o \in Bookings |-> {}]
  /\ byId = {}
  /\ call = [t \in Threads |-> Null]

Idle(t) == call[t] = Null
At(t, step) == ~Idle(t) /\ call[t].step = step
Enter(t, step, b, r, u) ==
  call' = [call EXCEPT ![t] = [step |-> step, b |-> b, room |-> r, user |-> u, list |-> userRef[u]]]
Step(t, step) == call' = [call EXCEPT ![t].step = step]
Return(t) == call' = [call EXCEPT ![t] = Null]

Later(x, y) == IF x > y THEN x ELSE y
Earlier(x, y) == IF x < y THEN x ELSE y

\* Mutant: only equal starts conflict.
Overlaps_SameStart(c, d) == c.start = d.start

Overlaps(c, d) == Later(c.start, d.start) < Earlier(c.end, d.end)

--------------------------------------------------------------------------------
\* Mutant: the user's list is named by the user.
CreateFirst_UserKey(t, b, r, u, s) ==
  /\ Idle(t) /\ booking[b] = Null
  /\ r \notin rooms
  /\ booking' = [booking EXCEPT ![b] = [room |-> r, user |-> u, slot |-> s]]
  /\ rooms' = rooms \cup {r}
  /\ inRoom' = [inRoom EXCEPT ![r] = {b}]
  /\ userRef' = [userRef EXCEPT ![u] = u]
  /\ inUser' = [inUser EXCEPT ![b] = {b}]
  /\ byId' = byId \cup {b}
  /\ UNCHANGED call

\* create_booking for a room that has no entry: the user's list is replaced.
CreateFirst(t, b, r, u, s) ==
  /\ Idle(t) /\ booking[b] = Null
  /\ r \notin rooms
  /\ booking' = [booking EXCEPT ![b] = [room |-> r, user |-> u, slot |-> s]]
  /\ rooms' = rooms \cup {r}
  /\ inRoom' = [inRoom EXCEPT ![r] = {b}]
  /\ userRef' = [userRef EXCEPT ![u] = b]
  /\ inUser' = [inUser EXCEPT ![b] = {b}]
  /\ byId' = byId \cup {b}
  /\ UNCHANGED call

\* create_booking for a room with an entry, up to the release of the service
\* lock.  A user without an entry is a KeyError, which changes nothing.
CreateLater(t, b, r, u, s) ==
  /\ Idle(t) /\ booking[b] = Null
  /\ r \in rooms /\ userRef[u] # Null
  /\ booking' = [booking EXCEPT ![b] = [room |-> r, user |-> u, slot |-> s]]
  /\ Enter(t, "addRoom", b, r, u)
  /\ UNCHANGED <<rooms, inRoom, userRef, inUser, byId>>

Conflict(b, r) == \E x \in inRoom[r] : Overlaps(booking[x].slot, booking[b].slot)

AddToRoom(t) ==
  /\ At(t, "addRoom")
  /\ ~Conflict(call[t].b, call[t].room)
  /\ inRoom' = [inRoom EXCEPT ![call[t].room] = @ \cup {call[t].b}]
  /\ Step(t, "addUser")
  /\ UNCHANGED <<booking, rooms, userRef, inUser, byId>>

RefuseConflict(t) ==
  /\ At(t, "addRoom")
  /\ Conflict(call[t].b, call[t].room)
  /\ Return(t)
  /\ UNCHANGED <<booking, rooms, inRoom, userRef, inUser, byId>>

AddToUser(t) ==
  /\ At(t, "addUser")
  /\ inUser' = [inUser EXCEPT ![call[t].list] = @ \cup {call[t].b}]
  /\ Return(t)
  /\ UNCHANGED <<booking, rooms, inRoom, userRef, byId>>

\* cancel_booking up to the first release of the service lock.  r and u need only
\* have entries; when they have none, or the id has none, it raises.
CancelBooking(t, b, r, u) ==
  /\ Idle(t)
  /\ b \in byId
  /\ r \in rooms /\ userRef[u] # Null
  /\ Enter(t, "cancelRoom", b, r, u)
  /\ UNCHANGED <<booking, rooms, inRoom, userRef, inUser, byId>>

CancelInRoom(t) ==
  /\ At(t, "cancelRoom")
  /\ inRoom' = [inRoom EXCEPT ![call[t].room] = @ \ {call[t].b}]
  /\ Step(t, "cancelUser")
  /\ UNCHANGED <<booking, rooms, userRef, inUser, byId>>

\* Mutant: the id stays in the dictionary.
CancelInUser_Returns(t) ==
  /\ At(t, "cancelUser")
  /\ inUser' = [inUser EXCEPT ![call[t].list] = @ \ {call[t].b}]
  /\ Return(t)
  /\ UNCHANGED <<booking, rooms, inRoom, userRef, byId>>

CancelInUser(t) ==
  /\ At(t, "cancelUser")
  /\ inUser' = [inUser EXCEPT ![call[t].list] = @ \ {call[t].b}]
  /\ Step(t, "cancelId")
  /\ UNCHANGED <<booking, rooms, inRoom, userRef, byId>>

CancelById(t) ==
  /\ At(t, "cancelId")
  /\ byId' = byId \ {call[t].b}
  /\ Return(t)
  /\ UNCHANGED <<booking, rooms, inRoom, userRef, inUser>>

Next ==
  \E t \in Threads :
    \/ \E b \in Bookings, r \in Rooms, u \in Users :
         \/ \E s \in Slots : CreateFirst(t, b, r, u, s) \/ CreateLater(t, b, r, u, s)
         \/ CancelBooking(t, b, r, u)
    \/ AddToRoom(t) \/ RefuseConflict(t) \/ AddToUser(t)
    \/ CancelInRoom(t) \/ CancelInUser(t) \/ CancelById(t)

Spec == Init /\ [][Next]_bookVars

--------------------------------------------------------------------------------
Moments(b) == booking[b].slot.start .. (booking[b].slot.end - 1)

\* However creates and cancels interleave, no room is promised to two bookings at
\* one moment.
NoDoubleBooking ==
  \A r \in Rooms :
    \A b, x \in inRoom[r] : b # x => Moments(b) \cap Moments(x) = {}

Cancelling(t, b) ==
  \E step \in {"cancelRoom", "cancelUser", "cancelId"} : At(t, step) /\ call[t].b = b

\* A booking that can be looked up holds its room, unless a cancel of it is under
\* way: no id outlives the booking it stands for.  The converse is false: a room's
\* later bookings have no id, and a cancel may delete an id and leave the lists alone.
KnownHoldsRoom ==
  \A b \in byId :
    (\A t \in Threads : ~Cancelling(t, b)) => b \in inRoom[booking[b].room]

\* A create keeps a list object across the locks, and the object may be replaced before
\* it is written: still no list, replaced or not, shows a user another user's booking,
\* and the list a booking was made with has it for as long as its id is known.
ListsHoldOwn ==
  /\ \A o \in Bookings : \A b \in inUser[o] : booking[b].user = booking[o].user
  /\ \A b \in byId : (\A t \in Threads : ~Cancelling(t, b)) => b \in inUser[b]

\* The way out of the lists: when a cancel comes to delete the id, its booking is out of
\* the room's list if the cancel named the booking's room, and out of every list in use if it
\* named the booking's user, though the user's list may have been replaced since it was looked
\* up.  Nobody compares the names, so of other cancels nothing can be said: they delete the id
\* and leave the booking listed (feedback/kata-007.md:38).
CancelUnlists ==
  \A t \in Threads : At(t, "cancelId") =>
    LET b == call[t].b
    IN  /\ call[t].room = booking[b].room => b \notin inRoom[call[t].room]
        /\ call[t].user = booking[b].user =>
             \A u \in Users : userRef[u] # Null => b \notin inUser[userRef[u]]

\* kata-007/test.py:207, "assert results.count(True) == 1": of the cancels of one
\* booking one succeeds, that is, the entry is still there for it to delete.
OneCancelWins ==
  [][\A t \in Threads : At(t, "cancelId") /\ call'[t] = Null => call[t].b \in byId]_bookVars
================================================================================
