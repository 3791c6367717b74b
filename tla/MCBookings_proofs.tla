----------------------------- MODULE MCBookings_proofs -----------------------------
(***************************************************************************)
(* Theorems about RoomBookingService, BookingService and PaymentService,   *)
(* for every set of rooms, users, slots, ids, keys, payments and threads,  *)
(* and about MCBookings, whose behaviours are theirs.                      *)
(***************************************************************************)
EXTENDS MCBookings, TLAPS

--------------------------------------------------------------------------------
(* Room bookings.  A booking is made up long before it is put in its       *)
(* room's list, so the invariant follows it on the way: what is in a list, *)
(* and what a create is about to put there, exists and is of that room.    *)

\* A call that is creating a booking has made it, for the room it is in the middle of,
\* which has an entry.
CreatesExisting ==
  \A t \in Threads : \A step \in {"addRoom", "addUser"} : At(t, step) =>
    /\ call[t].room \in rooms
    /\ booking[call[t].b] # Null /\ booking[call[t].b].room = call[t].room

\* What is in the list of a room is a booking of that room, and the room has an entry.
ListsHoldTheirs ==
  \A r \in Rooms : \A b \in inRoom[r] :
    r \in rooms /\ booking[b] # Null /\ booking[b].room = r

ListsInv == TypeOK /\ CreatesExisting /\ ListsHoldTheirs /\ NoDoubleBooking

--------------------------------------------------------------------------------
\* Slots that do not overlap, as the code compares them, share no moment.
LEMMA DisjointSlots ==
  ASSUME NEW c \in Slots, NEW d \in Slots, ~Overlaps(c, d)
  PROVE  (c.start .. (c.end - 1)) \cap (d.start .. (d.end - 1)) = {}
<1>1. c \in [start : Int, end : Int] /\ d \in [start : Int, end : Int]
  BY RoomBookingAssumption
<1>2. c.start \in Int /\ c.end \in Int /\ d.start \in Int /\ d.end \in Int
  BY <1>1
<1> QED
  BY <1>2 DEF Overlaps, Later, Earlier

LEMMA ListsInit == Init => ListsInv
  BY RoomBookingAssumption
  DEF Init, ListsInv, TypeOK, CreatesExisting, ListsHoldTheirs, NoDoubleBooking, At, Idle

\* A booking once made is not changed, whatever step is taken.
LEMMA BookingKept ==
  ASSUME TypeOK, [Next]_bookVars, NEW b \in Bookings, booking[b] # Null
  PROVE  booking'[b] = booking[b]
<1>1. ASSUME NEW t \in Threads, NEW x \in Bookings, NEW r \in Rooms, NEW u \in Users, NEW s \in Slots,
             CreateFirst(t, x, r, u, s) \/ CreateLater(t, x, r, u, s)
      PROVE  booking'[b] = booking[b]
  BY <1>1 DEF CreateFirst, CreateLater, TypeOK
<1> QED
  BY <1>1 DEF Next, bookVars, CancelBooking, AddToRoom, RefuseConflict, AddToUser,
              CancelInRoom, CancelInUser, CancelById

LEMMA TypesKept ==
  ASSUME TypeOK, [Next]_bookVars
  PROVE  TypeOK'
<1>1. ASSUME NEW t \in Threads, NEW b \in Bookings, NEW r \in Rooms, NEW u \in Users, NEW s \in Slots,
             CreateFirst(t, b, r, u, s)
      PROVE  TypeOK'
  BY <1>1 DEF CreateFirst, TypeOK
<1>2. ASSUME NEW t \in Threads, NEW b \in Bookings, NEW r \in Rooms, NEW u \in Users, NEW s \in Slots,
             CreateLater(t, b, r, u, s)
      PROVE  TypeOK'
  <2>1. [step |-> "addRoom", b |-> b, room |-> r, user |-> u, list |-> userRef[u]] \in Calls
    BY <1>2 DEF CreateLater, TypeOK, Calls
  <2> QED
    BY <1>2, <2>1 DEF CreateLater, Enter, TypeOK
<1>3. ASSUME NEW t \in Threads, NEW b \in Bookings, NEW r \in Rooms, NEW u \in Users,
             CancelBooking(t, b, r, u)
      PROVE  TypeOK'
  <2>1. [step |-> "cancelRoom", b |-> b, room |-> r, user |-> u, list |-> userRef[u]] \in Calls
    BY <1>3 DEF CancelBooking, TypeOK, Calls
  <2> QED
    BY <1>3, <2>1 DEF CancelBooking, Enter, TypeOK
<1>4. ASSUME NEW t \in Threads, ~Idle(t)
      PROVE  /\ call[t] \in Calls
             /\ \A step \in {"addUser", "cancelUser", "cancelId"} :
                  [call[t] EXCEPT !.step = step] \in Calls
  BY <1>4 DEF TypeOK, Idle, Calls
<1>5. ASSUME NEW t \in Threads,
             AddToRoom(t) \/ CancelInRoom(t) \/ CancelInUser(t)
      PROVE  TypeOK'
  <2>1. ~Idle(t)
    BY <1>5 DEF AddToRoom, CancelInRoom, CancelInUser, At
  <2>2. call[t].b \in Bookings /\ call[t].room \in Rooms /\ call[t].list \in Bookings
    BY <1>4, <2>1 DEF Calls
  <2>3. \A step \in {"addUser", "cancelUser", "cancelId"} :
          [call EXCEPT ![t].step = step] \in [Threads -> Calls \cup {Null}]
    BY <1>4, <2>1 DEF TypeOK
  <2>4. call' \in [Threads -> Calls \cup {Null}]
    BY <1>5, <2>3 DEF AddToRoom, CancelInRoom, CancelInUser, Step
  <2>5. inRoom' \in [Rooms -> SUBSET Bookings] /\ inUser' \in [Bookings -> SUBSET Bookings]
    BY <1>5, <2>2 DEF AddToRoom, CancelInRoom, CancelInUser, TypeOK
  <2> QED
    BY <1>5, <2>4, <2>5 DEF AddToRoom, CancelInRoom, CancelInUser, TypeOK
<1>6. ASSUME NEW t \in Threads, RefuseConflict(t) \/ AddToUser(t) \/ CancelById(t)
      PROVE  TypeOK'
  <2>1. ~Idle(t)
    BY <1>6 DEF RefuseConflict, AddToUser, CancelById, At
  <2>2. call[t].b \in Bookings /\ call[t].list \in Bookings
    BY <1>4, <2>1 DEF Calls
  <2> QED
    BY <1>6, <2>2 DEF RefuseConflict, AddToUser, CancelById, Return, TypeOK
<1>7. CASE UNCHANGED bookVars
  BY <1>7 DEF bookVars, TypeOK
<1> QED
  BY <1>1, <1>2, <1>3, <1>5, <1>6, <1>7 DEF Next

\* A call that goes on was idle and is now in a create or a cancel, or is as it was
\* but for the step it is at; the steps of a create follow the steps of a create.
LEMMA CallMoves ==
  ASSUME TypeOK, [Next]_bookVars, NEW t \in Threads, ~Idle(t)'
  PROVE  \/ call'[t] = call[t]
         \/ \E b \in Bookings, r \in Rooms, u \in Users, s \in Slots : CreateLater(t, b, r, u, s)
         \/ \E b \in Bookings, r \in Rooms, u \in Users :
              /\ CancelBooking(t, b, r, u)
              /\ call'[t].step = "cancelRoom"
         \/ /\ AddToRoom(t)
            /\ call'[t] = [call[t] EXCEPT !.step = "addUser"]
         \/ call'[t].step \in {"cancelUser", "cancelId"}
<1>1. ASSUME NEW p \in Threads, NEW b \in Bookings, NEW r \in Rooms, NEW u \in Users,
             CancelBooking(p, b, r, u)
      PROVE  call'[t] = call[t] \/ (p = t /\ call'[t].step = "cancelRoom")
  BY <1>1 DEF CancelBooking, Enter, TypeOK
<1>2. ASSUME NEW p \in Threads, NEW b \in Bookings, NEW r \in Rooms, NEW u \in Users,
             NEW s \in Slots, CreateFirst(p, b, r, u, s)
      PROVE  call'[t] = call[t]
  BY <1>2 DEF CreateFirst
<1>3. ASSUME NEW p \in Threads, NEW b \in Bookings, NEW r \in Rooms, NEW u \in Users,
             NEW s \in Slots, CreateLater(p, b, r, u, s)
      PROVE  call'[t] = call[t] \/ p = t
  BY <1>3 DEF CreateLater, Enter, TypeOK
<1>4. ASSUME NEW p \in Threads, AddToRoom(p)
      PROVE  call'[t] = call[t] \/ (p = t /\ call'[t] = [call[t] EXCEPT !.step = "addUser"])
  BY <1>4 DEF AddToRoom, Step, TypeOK
<1>5. ASSUME NEW p \in Threads, CancelInRoom(p) \/ CancelInUser(p)
      PROVE  call'[t] = call[t] \/ call'[t].step \in {"cancelUser", "cancelId"}
  <2>1. CASE p = t
    <3>1. ~Idle(t)
      BY <1>5, <2>1 DEF CancelInRoom, CancelInUser, At
    <3>2. call[t] \in Calls
      BY <3>1 DEF Idle, TypeOK
    <3> QED
      BY <1>5, <2>1, <3>2 DEF CancelInRoom, CancelInUser, Step, TypeOK, Calls
  <2>2. CASE p # t
    BY <1>5, <2>2 DEF CancelInRoom, CancelInUser, Step, TypeOK
  <2> QED
    BY <2>1, <2>2
<1>6. ASSUME NEW p \in Threads, RefuseConflict(p) \/ AddToUser(p) \/ CancelById(p)
      PROVE  call'[t] = call[t]
  BY <1>6 DEF RefuseConflict, AddToUser, CancelById, Return, Idle, TypeOK
<1>7. CASE UNCHANGED bookVars
  BY <1>7 DEF bookVars
<1> QED
  BY <1>1, <1>2, <1>3, <1>4, <1>5, <1>6, <1>7 DEF Next

\* Rooms only get entries.
LEMMA RoomsGrow == [Next]_bookVars => rooms \subseteq rooms'
  BY DEF Next, bookVars, CreateFirst, CreateLater, CancelBooking, AddToRoom,
         RefuseConflict, AddToUser, CancelInRoom, CancelInUser, CancelById

\* A create keeps the room it is for, and its booking, until it returns.
LEMMA CreatesKept ==
  ASSUME TypeOK, CreatesExisting, [Next]_bookVars
  PROVE  CreatesExisting'
<1> SUFFICES ASSUME NEW t \in Threads, NEW step \in {"addRoom", "addUser"}, At(t, step)'
             PROVE  /\ call'[t].room \in rooms'
                    /\ booking'[call'[t].b] # Null
                    /\ booking'[call'[t].b].room = call'[t].room
  BY DEF CreatesExisting
<1>1. CASE /\ At(t, "addRoom") \/ At(t, "addUser")
           /\ call'[t].b = call[t].b /\ call'[t].room = call[t].room
  <2>1. /\ call[t].b \in Bookings /\ booking[call[t].b] # Null
        /\ booking[call[t].b].room = call[t].room /\ call[t].room \in rooms
    BY <1>1 DEF CreatesExisting, At, Idle, TypeOK, Calls
  <2>2. booking'[call[t].b] = booking[call[t].b]
    BY <2>1, BookingKept
  <2> QED
    BY <1>1, <2>1, <2>2, RoomsGrow
<1>2. ASSUME NEW b \in Bookings, NEW r \in Rooms, NEW u \in Users, NEW s \in Slots,
             CreateLater(t, b, r, u, s)
      PROVE  /\ call'[t].room \in rooms'
             /\ booking'[call'[t].b] # Null
             /\ booking'[call'[t].b].room = call'[t].room
  <2>1. call'[t].b = b /\ call'[t].room = r
    BY <1>2 DEF CreateLater, Enter, TypeOK
  <2>2. booking'[b] = [room |-> r, user |-> u, slot |-> s]
    BY <1>2 DEF CreateLater, TypeOK
  <2>3. booking'[b] # Null
    BY <2>2, RoomBookingAssumption
  <2> QED
    BY <1>2, <2>1, <2>2, <2>3 DEF CreateLater
<1>3. ~Idle(t)' /\ call'[t].step \in {"addRoom", "addUser"}
  BY DEF At
<1>4. CASE call'[t] = call[t]
  BY <1>1, <1>3, <1>4 DEF At, Idle
<1>5. CASE AddToRoom(t) /\ call'[t] = [call[t] EXCEPT !.step = "addUser"]
  <2>1. call[t] \in Calls /\ At(t, "addRoom")
    BY <1>5 DEF AddToRoom, At, Idle, TypeOK
  <2>2. call'[t].b = call[t].b /\ call'[t].room = call[t].room
    BY <1>5, <2>1 DEF Calls
  <2> QED
    BY <1>1, <2>1, <2>2
<1> QED
  BY <1>2, <1>3, <1>4, <1>5, CallMoves

\* A list grows only by the first booking of a room, and by a create's.
LEMMA ListsKept ==
  ASSUME TypeOK, CreatesExisting, ListsHoldTheirs, [Next]_bookVars
  PROVE  ListsHoldTheirs'
<1> SUFFICES ASSUME NEW r \in Rooms, NEW b \in inRoom'[r]
             PROVE  r \in rooms' /\ booking'[b] # Null /\ booking'[b].room = r
  BY DEF ListsHoldTheirs
<1>1. CASE b \in inRoom[r]
  <2>1. r \in rooms /\ booking[b] # Null /\ booking[b].room = r /\ b \in Bookings
    BY <1>1 DEF ListsHoldTheirs, TypeOK
  <2> QED
    BY <2>1, BookingKept, RoomsGrow
<1>2. CASE b \notin inRoom[r]
  <2>1. CASE \E t \in Threads, x \in Bookings, q \in Rooms, u \in Users, s \in Slots :
               CreateFirst(t, x, q, u, s)
    <3>1. PICK t \in Threads, x \in Bookings, q \in Rooms, u \in Users, s \in Slots :
            CreateFirst(t, x, q, u, s)
      BY <2>1
    <3>2. q = r /\ b = x
      BY <1>2, <3>1 DEF CreateFirst, TypeOK
    <3>3. booking'[b] = [room |-> r, user |-> u, slot |-> s]
      BY <3>1, <3>2 DEF CreateFirst, TypeOK
    <3> QED
      BY <3>1, <3>2, <3>3, RoomBookingAssumption DEF CreateFirst
  <2>2. CASE \E t \in Threads : AddToRoom(t)
    <3>1. PICK t \in Threads : AddToRoom(t)
      BY <2>2
    <3>2. call[t].room = r /\ b = call[t].b
      BY <1>2, <3>1 DEF AddToRoom, TypeOK
    <3>3. r \in rooms /\ booking[b] # Null /\ booking[b].room = r /\ b \in Bookings
      BY <3>1, <3>2 DEF AddToRoom, CreatesExisting, At, Idle, TypeOK, Calls
    <3> QED
      BY <3>1, <3>3 DEF AddToRoom
  <2>3. inRoom'[r] \subseteq inRoom[r] \/ (\E t \in Threads : AddToRoom(t))
        \/ \E t \in Threads, x \in Bookings, q \in Rooms, u \in Users, s \in Slots :
             CreateFirst(t, x, q, u, s)
    BY DEF Next, bookVars, TypeOK, CreateLater, CancelBooking, RefuseConflict, AddToUser,
           CancelInRoom, CancelInUser, CancelById
  <2> QED
    BY <1>2, <2>1, <2>2, <2>3
<1> QED
  BY <1>1, <1>2

\* A list without double bookings gets one only from the check under its lock.
LEMMA NoDoubleKept ==
  ASSUME ListsInv, [Next]_bookVars
  PROVE  NoDoubleBooking'
<1> USE DEF ListsInv
<1> SUFFICES ASSUME NEW r \in Rooms, NEW b \in inRoom'[r], NEW x \in inRoom'[r], b # x
             PROVE  Moments(b)' \cap Moments(x)' = {}
  BY DEF NoDoubleBooking
<1>0. inRoom[r] \subseteq Bookings
  BY DEF TypeOK
<1>1. \A y \in inRoom[r] : booking[y] # Null /\ booking'[y] = booking[y]
  BY <1>0, BookingKept DEF ListsHoldTheirs
<1>2. CASE b \in inRoom[r] /\ x \in inRoom[r]
  BY <1>1, <1>2 DEF NoDoubleBooking, Moments
<1>3. CASE \E t \in Threads : AddToRoom(t)
  <2>1. PICK t \in Threads : AddToRoom(t)
    BY <1>3
  <2>2. call[t] \in Calls /\ call[t].b \in Bookings /\ At(t, "addRoom")
    BY <2>1 DEF AddToRoom, At, Idle, TypeOK, Calls
  <2>3. booking[call[t].b] # Null /\ booking' = booking
    BY <2>1, <2>2 DEF AddToRoom, CreatesExisting
  <2>4. ASSUME call[t].room = r, NEW y \in inRoom[r]
        PROVE  Moments(call[t].b) \cap Moments(y) = {}
    <3>1. ~Overlaps(booking[y].slot, booking[call[t].b].slot)
      BY <2>1, <2>4 DEF AddToRoom, Conflict
    <3>2. booking[y].slot \in Slots /\ booking[call[t].b].slot \in Slots
      BY <1>0, <1>1, <2>2, <2>3, <2>4 DEF TypeOK
    <3> QED
      BY <3>1, <3>2, DisjointSlots DEF Moments
  <2>5. ASSUME NEW y \in inRoom'[r], y \notin inRoom[r]
        PROVE  y = call[t].b /\ call[t].room = r
    BY <2>1, <2>5 DEF AddToRoom, TypeOK
  <2>6. b \in inRoom[r] \/ x \in inRoom[r]
    BY <2>5
  <2>7. Moments(b) \cap Moments(x) = {}
    BY <1>2, <2>4, <2>5, <2>6 DEF NoDoubleBooking
  <2> QED
    BY <2>3, <2>7 DEF Moments
<1>4. CASE \E t \in Threads, y \in Bookings, q \in Rooms, u \in Users, s \in Slots :
             CreateFirst(t, y, q, u, s)
  <2>1. PICK t \in Threads, y \in Bookings, q \in Rooms, u \in Users, s \in Slots :
          CreateFirst(t, y, q, u, s)
    BY <1>4
  <2>2. CASE q = r
    BY <2>1, <2>2 DEF CreateFirst, TypeOK
  <2>3. CASE q # r
    BY <1>2, <2>1, <2>3 DEF CreateFirst, TypeOK
  <2> QED
    BY <2>2, <2>3
<1>5. inRoom'[r] \subseteq inRoom[r] \/ (\E t \in Threads : AddToRoom(t))
      \/ \E t \in Threads, y \in Bookings, q \in Rooms, u \in Users, s \in Slots :
           CreateFirst(t, y, q, u, s)
  BY DEF Next, bookVars, TypeOK, CreateLater, CancelBooking, RefuseConflict, AddToUser,
         CancelInRoom, CancelInUser, CancelById
<1> QED
  BY <1>2, <1>3, <1>4, <1>5

LEMMA ListsStep == ListsInv /\ [Next]_bookVars => ListsInv'
  BY TypesKept, CreatesKept, ListsKept, NoDoubleKept DEF ListsInv

\* The variables have their types in every reachable state.
THEOREM ListsTypeCorrect == Spec => []TypeOK
<1>1. ListsInv => TypeOK
  BY DEF ListsInv
<1> QED
  BY <1>1, ListsInit, ListsStep, PTL DEF Spec

\* No room is ever promised to two bookings at one moment, however many threads
\* create and cancel, although the check and the service lock are far apart.
THEOREM RoomsNeverDoubleBooked == Spec => []NoDoubleBooking
<1>1. ListsInv => NoDoubleBooking
  BY DEF ListsInv
<1> QED
  BY <1>1, ListsInit, ListsStep, PTL DEF Spec
--------------------------------------------------------------------------------
(* The records of a booking in the lists.  A list object belongs to the    *)
(* user of the booking that it was made with, wherever it is kept: in the  *)
(* dictionary, by a create on its way, or nowhere any more.                *)
RefsOwned ==
  \A u \in Users : userRef[u] # Null => booking[userRef[u]] # Null /\ booking[userRef[u]].user = u

CallsOwned ==
  \A t \in Threads : \A step \in {"addRoom", "addUser"} : At(t, step) =>
    booking[call[t].list] # Null /\ booking[call[t].list].user = booking[call[t].b].user

ObjectsOwned ==
  \A o \in Bookings : \A b \in inUser[o] :
    booking[o] # Null /\ booking[b] # Null /\ booking[b].user = booking[o].user

IdsMade == \A b \in byId : booking[b] # Null /\ booking[b].room \in rooms

\* A cancel is of a booking that was entered everywhere when it was made: no create of it
\* is under way, and no list object but its own ever had it.
CancelsEntered ==
  \A b \in Bookings : b \in byId \/ (\E t \in Threads : Cancelling(t, b)) =>
    /\ booking[b] # Null
    /\ \A p \in Threads, step \in {"addRoom", "addUser"} : At(p, step) => call[p].b # b
    /\ \A o \in Bookings : b \in inUser[o] => o = b

\* How far a cancel has come: the list of the user that made the booking is the one that the
\* cancel holds, or is out of use, and what the cancel has left no longer has the booking.
CancelsLeave ==
  \A t \in Threads, b \in Bookings : Cancelling(t, b) =>
    /\ userRef[call[t].user] = b => call[t].list = b
    /\ ~At(t, "cancelRoom") => b \notin inRoom[call[t].room]
    /\ At(t, "cancelId") /\ call[t].list = b => b \notin inUser[b]

RecordsInv ==
  /\ ListsInv /\ RefsOwned /\ CallsOwned /\ ObjectsOwned /\ IdsMade /\ KnownHoldsRoom /\ ListsHoldOwn
  /\ CancelsEntered /\ CancelsLeave

LEMMA RecordsInit == Init => RecordsInv
  BY ListsInit
  DEF Init, RecordsInv, RefsOwned, CallsOwned, ObjectsOwned, IdsMade, KnownHoldsRoom, ListsHoldOwn,
      CancelsEntered, CancelsLeave, Cancelling, At, Idle

\* What a booking that is made says, and where it is made.
LEMMA BookingMade ==
  ASSUME TypeOK, NEW t \in Threads, NEW b \in Bookings, NEW r \in Rooms, NEW u \in Users, NEW s \in Slots,
         CreateFirst(t, b, r, u, s) \/ CreateLater(t, b, r, u, s)
  PROVE  /\ booking[b] = Null /\ booking'[b] # Null /\ booking'[b].user = u /\ booking'[b].room = r
         /\ r \in rooms' /\ Idle(t)
<1>1. booking'[b] = [room |-> r, user |-> u, slot |-> s] /\ booking[b] = Null
  BY DEF CreateFirst, CreateLater, TypeOK
<1>2. [room |-> r, user |-> u, slot |-> s] # Null
  BY RoomBookingAssumption
<1>3. r \in rooms' /\ Idle(t)
  BY DEF CreateFirst, CreateLater
<1> QED
  BY <1>1, <1>2, <1>3

\* A dictionary entry of a user changes only to the list of a first booking.
LEMMA RefsKept ==
  ASSUME RecordsInv, [Next]_bookVars
  PROVE  RefsOwned'
<1> SUFFICES ASSUME NEW v \in Users, userRef'[v] # Null
             PROVE  booking'[userRef'[v]] # Null /\ booking'[userRef'[v]].user = v
  BY DEF RefsOwned
<1>1. CASE userRef'[v] = userRef[v]
  <2>1. booking[userRef[v]] # Null /\ booking[userRef[v]].user = v /\ userRef[v] \in Bookings
    BY <1>1 DEF RecordsInv, RefsOwned, ListsInv, TypeOK
  <2> QED
    BY <1>1, <2>1, BookingKept DEF RecordsInv, ListsInv
<1>2. ASSUME NEW t \in Threads, NEW b \in Bookings, NEW r \in Rooms, NEW u \in Users, NEW s \in Slots,
             CreateFirst(t, b, r, u, s), userRef'[v] # userRef[v]
      PROVE  booking'[userRef'[v]] # Null /\ booking'[userRef'[v]].user = v
  <2>1. v = u /\ userRef'[v] = b
    BY <1>2 DEF CreateFirst, RecordsInv, ListsInv, TypeOK
  <2> QED
    BY <1>2, <2>1, BookingMade DEF RecordsInv, ListsInv
<1>3. userRef'[v] = userRef[v] \/ \E t \in Threads, b \in Bookings, r \in Rooms, u \in Users, s \in Slots :
                                    CreateFirst(t, b, r, u, s)
  BY DEF Next, bookVars, CreateLater, CancelBooking, AddToRoom, RefuseConflict, AddToUser,
         CancelInRoom, CancelInUser, CancelById
<1> QED
  BY <1>1, <1>2, <1>3

\* A create takes the list of its user from the dictionary, and keeps it.
LEMMA CallsOwnedKept ==
  ASSUME RecordsInv, [Next]_bookVars
  PROVE  CallsOwned'
<1> SUFFICES ASSUME NEW t \in Threads, NEW step \in {"addRoom", "addUser"}, At(t, step)'
             PROVE  /\ booking'[call'[t].list] # Null
                    /\ booking'[call'[t].list].user = booking'[call'[t].b].user
  BY DEF CallsOwned
<1>0. TypeOK
  BY DEF RecordsInv, ListsInv
<1>1. CASE /\ At(t, "addRoom") \/ At(t, "addUser")
           /\ call'[t].b = call[t].b /\ call'[t].list = call[t].list
  <2>1. call[t] \in Calls
    BY <1>0, <1>1 DEF TypeOK, At, Idle
  <2>2. call[t].b \in Bookings /\ call[t].list \in Bookings
    BY <2>1 DEF Calls
  <2>3. /\ booking[call[t].b] # Null /\ booking[call[t].list] # Null
        /\ booking[call[t].list].user = booking[call[t].b].user
    BY <1>1 DEF RecordsInv, ListsInv, CreatesExisting, CallsOwned
  <2> QED
    BY <1>0, <1>1, <2>2, <2>3, BookingKept
<1>2. ASSUME NEW b \in Bookings, NEW r \in Rooms, NEW u \in Users, NEW s \in Slots, CreateLater(t, b, r, u, s)
      PROVE  /\ booking'[call'[t].list] # Null
             /\ booking'[call'[t].list].user = booking'[call'[t].b].user
  <2>1. call'[t].b = b /\ call'[t].list = userRef[u] /\ userRef[u] # Null
    BY <1>0, <1>2 DEF CreateLater, Enter, TypeOK
  <2>2. booking[userRef[u]] # Null /\ booking[userRef[u]].user = u /\ userRef[u] \in Bookings
    BY <1>0, <2>1 DEF RecordsInv, RefsOwned, TypeOK
  <2>3. booking'[userRef[u]] = booking[userRef[u]]
    BY <1>0, <2>2, BookingKept
  <2> QED
    BY <1>0, <1>2, <2>1, <2>2, <2>3, BookingMade
<1>3. ~Idle(t)' /\ call'[t].step \in {"addRoom", "addUser"}
  BY DEF At
<1>4. CASE call'[t] = call[t]
  BY <1>1, <1>3, <1>4 DEF At, Idle
<1>5. CASE AddToRoom(t) /\ call'[t] = [call[t] EXCEPT !.step = "addUser"]
  <2>1. call[t] \in Calls /\ At(t, "addRoom")
    BY <1>0, <1>5 DEF AddToRoom, At, Idle, TypeOK
  <2>2. call'[t].b = call[t].b /\ call'[t].list = call[t].list
    BY <1>5, <2>1 DEF Calls
  <2> QED
    BY <1>1, <2>1, <2>2
<1> QED
  BY <1>0, <1>2, <1>3, <1>4, <1>5, CallMoves

\* A list object gets its first booking when it is made, and then those of creates.
LEMMA ObjectsKept ==
  ASSUME RecordsInv, [Next]_bookVars
  PROVE  ObjectsOwned'
<1> SUFFICES ASSUME NEW o \in Bookings, NEW b \in inUser'[o]
             PROVE  booking'[o] # Null /\ booking'[b] # Null /\ booking'[b].user = booking'[o].user
  BY DEF ObjectsOwned
<1>0. TypeOK
  BY DEF RecordsInv, ListsInv
<1>1. CASE b \in inUser[o]
  <2>1. booking[o] # Null /\ booking[b] # Null /\ booking[b].user = booking[o].user /\ b \in Bookings
    BY <1>0, <1>1 DEF RecordsInv, ObjectsOwned, TypeOK
  <2> QED
    BY <1>0, <2>1, BookingKept
<1>2. CASE b \notin inUser[o]
  <2>1. ASSUME NEW t \in Threads, NEW x \in Bookings, NEW r \in Rooms, NEW u \in Users, NEW s \in Slots,
               CreateFirst(t, x, r, u, s)
        PROVE  booking'[o] # Null /\ booking'[b] # Null /\ booking'[b].user = booking'[o].user
    <3>1. b = x /\ o = x
      BY <1>0, <1>2, <2>1 DEF CreateFirst, TypeOK
    <3> QED
      BY <1>0, <2>1, <3>1, BookingMade
  <2>2. ASSUME NEW t \in Threads, AddToUser(t)
        PROVE  booking'[o] # Null /\ booking'[b] # Null /\ booking'[b].user = booking'[o].user
    <3>1. call[t].list = o /\ b = call[t].b /\ At(t, "addUser") /\ booking' = booking
      BY <1>0, <1>2, <2>2 DEF AddToUser, TypeOK
    <3> QED
      BY <3>1 DEF RecordsInv, ListsInv, CreatesExisting, CallsOwned
  <2>3. inUser'[o] \subseteq inUser[o] \/ (\E t \in Threads : AddToUser(t))
        \/ \E t \in Threads, x \in Bookings, r \in Rooms, u \in Users, s \in Slots : CreateFirst(t, x, r, u, s)
    BY <1>0 DEF Next, bookVars, TypeOK, CreateLater, CancelBooking, AddToRoom, RefuseConflict,
                CancelInRoom, CancelInUser, CancelById
  <2> QED
    BY <1>2, <2>1, <2>2, <2>3
<1> QED
  BY <1>1, <1>2

\* An id is known from the first booking of a room on, which it is.
LEMMA IdsKept ==
  ASSUME RecordsInv, [Next]_bookVars
  PROVE  IdsMade'
<1> SUFFICES ASSUME NEW b \in byId'
             PROVE  booking'[b] # Null /\ booking'[b].room \in rooms'
  BY DEF IdsMade
<1>0. TypeOK
  BY DEF RecordsInv, ListsInv
<1>1. CASE b \in byId
  <2>1. booking[b] # Null /\ booking[b].room \in rooms /\ b \in Bookings
    BY <1>0, <1>1 DEF RecordsInv, IdsMade, TypeOK
  <2> QED
    BY <1>0, <2>1, BookingKept, RoomsGrow
<1>2. ASSUME NEW t \in Threads, NEW x \in Bookings, NEW r \in Rooms, NEW u \in Users, NEW s \in Slots,
             CreateFirst(t, x, r, u, s), b \notin byId
      PROVE  booking'[b] # Null /\ booking'[b].room \in rooms'
  <2>1. b = x
    BY <1>2 DEF CreateFirst
  <2> QED
    BY <1>0, <1>2, <2>1, BookingMade
<1>3. b \in byId \/ \E t \in Threads, x \in Bookings, r \in Rooms, u \in Users, s \in Slots :
                      CreateFirst(t, x, r, u, s)
  BY DEF Next, bookVars, CreateLater, CancelBooking, AddToRoom, RefuseConflict, AddToUser,
         CancelInRoom, CancelInUser, CancelById
<1> QED
  BY <1>1, <1>2, <1>3

\* Whoever is cancelling a booking goes on until its id is gone.
LEMMA CancelsGoOn ==
  ASSUME TypeOK, [Next]_bookVars, NEW t \in Threads, NEW b \in Bookings, Cancelling(t, b), b \in byId'
  PROVE  Cancelling(t, b)'
<1>1. call[t] \in Calls /\ ~Idle(t) /\ call[t].b = b /\ call[t].step \in {"cancelRoom", "cancelUser", "cancelId"}
  BY DEF Cancelling, At, Idle, TypeOK
<1>2. \A step \in {"cancelUser", "cancelId"} :
        /\ [call[t] EXCEPT !.step = step] \in Calls
        /\ [call[t] EXCEPT !.step = step].b = b /\ [call[t] EXCEPT !.step = step].step = step
  BY <1>1 DEF Calls
<1>3. call'[t] = [call[t] EXCEPT !.step = "cancelUser"] \/ call'[t] = [call[t] EXCEPT !.step = "cancelId"]
        => Cancelling(t, b)'
  BY <1>2, CallAssumption DEF Cancelling, At, Idle
<1>4. ASSUME NEW p \in Threads, NEW x \in Bookings, NEW r \in Rooms, NEW u \in Users,
             CancelBooking(p, x, r, u) \/ \E s \in Slots : CreateFirst(p, x, r, u, s) \/ CreateLater(p, x, r, u, s)
      PROVE  call'[t] = call[t]
  BY <1>1, <1>4 DEF CreateFirst, CreateLater, CancelBooking, Enter, TypeOK, Idle
<1>5. ASSUME NEW p \in Threads, AddToRoom(p) \/ RefuseConflict(p) \/ AddToUser(p)
      PROVE  call'[t] = call[t]
  <2>1. p # t
    BY <1>1, <1>5 DEF AddToRoom, RefuseConflict, AddToUser, At
  <2> QED
    BY <1>5, <2>1 DEF AddToRoom, RefuseConflict, AddToUser, Step, Return, TypeOK
<1>6. ASSUME NEW p \in Threads, CancelInRoom(p) \/ CancelInUser(p)
      PROVE  \/ call'[t] = call[t]
             \/ call'[t] = [call[t] EXCEPT !.step = "cancelUser"]
             \/ call'[t] = [call[t] EXCEPT !.step = "cancelId"]
  BY <1>6 DEF CancelInRoom, CancelInUser, Step, TypeOK
<1>7. ASSUME NEW p \in Threads, CancelById(p)
      PROVE  call'[t] = call[t]
  <2>1. p # t
    BY <1>1, <1>7 DEF CancelById
  <2> QED
    BY <1>7, <2>1 DEF CancelById, Return, TypeOK
<1>8. call'[t] = call[t] => Cancelling(t, b)'
  BY DEF Cancelling, At, Idle
<1>9. CASE UNCHANGED bookVars
  BY <1>8, <1>9 DEF bookVars
<1>10. ASSUME NEW p \in Threads, CancelInRoom(p) \/ CancelInUser(p) PROVE Cancelling(t, b)'
  BY <1>3, <1>6, <1>8, <1>10
<1> QED
  BY <1>4, <1>5, <1>7, <1>8, <1>9, <1>10 DEF Next

\* A booking leaves its room's list, and the list object it was made with, only in a
\* cancel of it, and its id is known before.
LEMMA ListsLose ==
  ASSUME RecordsInv, [Next]_bookVars, NEW b \in Bookings, booking[b] # Null,
         \A t \in Threads : ~Cancelling(t, b)'
  PROVE  /\ b \in inRoom[booking[b].room] => b \in inRoom'[booking[b].room]
         /\ b \in inUser[b] => b \in inUser'[b]
<1>0. TypeOK /\ booking[b].room \in Rooms
  BY DEF RecordsInv, ListsInv, TypeOK
<1>1. ASSUME NEW t \in Threads, NEW x \in Bookings, NEW r \in Rooms, NEW u \in Users, NEW s \in Slots,
             CreateFirst(t, x, r, u, s)
      PROVE  /\ b \in inRoom[booking[b].room] => b \in inRoom'[booking[b].room]
             /\ b \in inUser[b] => b \in inUser'[b]
  <2>1. b \in inRoom[booking[b].room] => booking[b].room # r
    BY <1>0, <1>1 DEF CreateFirst, RecordsInv, ListsInv, ListsHoldTheirs
  <2>2. x # b
    BY <1>1 DEF CreateFirst
  <2> QED
    BY <1>0, <1>1, <2>1, <2>2 DEF CreateFirst, TypeOK
<1>2. ASSUME NEW t \in Threads, CancelInRoom(t)
      PROVE  b \in inRoom[booking[b].room] => b \in inRoom'[booking[b].room]
  <2>1. call[t].b # b
    <3> SUFFICES ASSUME call[t].b = b PROVE Cancelling(t, b)'
      OBVIOUS
    <3>1. call[t] \in Calls
      BY <1>0, <1>2 DEF CancelInRoom, At, Idle, TypeOK
    <3>2. call'[t] = [call[t] EXCEPT !.step = "cancelUser"]
      BY <1>0, <1>2 DEF CancelInRoom, Step, TypeOK
    <3>3. call'[t] \in Calls /\ call'[t].b = b /\ call'[t].step = "cancelUser"
      BY <3>1, <3>2 DEF Calls
    <3> QED
      BY <3>3, CallAssumption DEF Cancelling, At, Idle
  <2> QED
    BY <1>0, <1>2, <2>1 DEF CancelInRoom, TypeOK
<1>3. ASSUME NEW t \in Threads, CancelInUser(t)
      PROVE  b \in inUser[b] => b \in inUser'[b]
  <2>1. call[t].b # b
    <3> SUFFICES ASSUME call[t].b = b PROVE Cancelling(t, b)'
      OBVIOUS
    <3>1. call[t] \in Calls
      BY <1>0, <1>3 DEF CancelInUser, At, Idle, TypeOK
    <3>2. call'[t] = [call[t] EXCEPT !.step = "cancelId"]
      BY <1>0, <1>3 DEF CancelInUser, Step, TypeOK
    <3>3. call'[t] \in Calls /\ call'[t].b = b /\ call'[t].step = "cancelId"
      BY <3>1, <3>2 DEF Calls
    <3> QED
      BY <3>3, CallAssumption DEF Cancelling, At, Idle
  <2> QED
    BY <1>0, <1>3, <2>1 DEF CancelInUser, TypeOK
<1>4. ASSUME NEW t \in Threads, AddToRoom(t) \/ CancelInRoom(t) PROVE inUser' = inUser
  BY <1>4 DEF AddToRoom, CancelInRoom
<1>5. ASSUME NEW t \in Threads, AddToUser(t) \/ CancelInUser(t) PROVE inRoom' = inRoom
  BY <1>5 DEF AddToUser, CancelInUser
<1>6. ASSUME NEW t \in Threads, AddToRoom(t)
      PROVE  b \in inRoom[booking[b].room] => b \in inRoom'[booking[b].room]
  BY <1>0, <1>6 DEF AddToRoom, TypeOK
<1>7. ASSUME NEW t \in Threads, AddToUser(t) PROVE b \in inUser[b] => b \in inUser'[b]
  BY <1>0, <1>7 DEF AddToUser, TypeOK
<1>8. ASSUME UNCHANGED <<inRoom, inUser>>
      PROVE  /\ b \in inRoom[booking[b].room] => b \in inRoom'[booking[b].room]
             /\ b \in inUser[b] => b \in inUser'[b]
  BY <1>8
<1>9. \/ UNCHANGED <<inRoom, inUser>>
      \/ \E t \in Threads : AddToRoom(t) \/ AddToUser(t) \/ CancelInRoom(t) \/ CancelInUser(t)
      \/ \E t \in Threads, x \in Bookings, r \in Rooms, u \in Users, s \in Slots : CreateFirst(t, x, r, u, s)
  BY DEF Next, bookVars, CreateLater, CancelBooking, RefuseConflict, CancelById
<1> QED
  BY <1>1, <1>2, <1>3, <1>4, <1>5, <1>6, <1>7, <1>8, <1>9

\* A known booking stays in both its lists until a cancel of it begins, and it is not
\* known any more when the cancel is over.
LEMMA KnownKept ==
  ASSUME RecordsInv, [Next]_bookVars, NEW b \in byId', \A t \in Threads : ~Cancelling(t, b)'
  PROVE  b \in inRoom'[booking'[b].room] /\ b \in inUser'[b]
<1>0. TypeOK
  BY DEF RecordsInv, ListsInv
<1>1. CASE b \in byId
  <2>1. b \in Bookings /\ booking[b] # Null /\ booking'[b] = booking[b]
    BY <1>0, <1>1, BookingKept DEF RecordsInv, IdsMade, TypeOK
  <2>2. \A t \in Threads : ~Cancelling(t, b)
    BY <1>0, <2>1, CancelsGoOn
  <2>3. b \in inRoom[booking[b].room] /\ b \in inUser[b]
    BY <1>1, <2>2 DEF RecordsInv, KnownHoldsRoom, ListsHoldOwn
  <2> QED
    BY <2>1, <2>3, ListsLose
<1>2. ASSUME NEW t \in Threads, NEW x \in Bookings, NEW r \in Rooms, NEW u \in Users, NEW s \in Slots,
             CreateFirst(t, x, r, u, s), b \notin byId
      PROVE  b \in inRoom'[booking'[b].room] /\ b \in inUser'[b]
  <2>1. b = x
    BY <1>2 DEF CreateFirst
  <2>2. booking'[b].room = r
    BY <1>0, <1>2, <2>1, BookingMade
  <2> QED
    BY <1>0, <1>2, <2>1, <2>2 DEF CreateFirst, TypeOK
<1>3. b \in byId \/ \E t \in Threads, x \in Bookings, r \in Rooms, u \in Users, s \in Slots :
                      CreateFirst(t, x, r, u, s)
  BY DEF Next, bookVars, CreateLater, CancelBooking, AddToRoom, RefuseConflict, AddToUser,
         CancelInRoom, CancelInUser, CancelById
<1> QED
  BY <1>1, <1>2, <1>3

\* A call that is creating a booking made it itself: before this step it was doing so
\* already, or nobody had made the booking.
LEMMA CreatorsBefore ==
  ASSUME TypeOK, [Next]_bookVars, NEW p \in Threads, NEW step \in {"addRoom", "addUser"}, At(p, step)'
  PROVE  \/ call'[p].b = call[p].b /\ (At(p, "addRoom") \/ At(p, "addUser"))
         \/ booking[call'[p].b] = Null
<1>1. ~Idle(p)' /\ call'[p].step \in {"addRoom", "addUser"}
  BY DEF At
<1>2. CASE call'[p] = call[p]
  BY <1>1, <1>2 DEF At, Idle
<1>3. ASSUME NEW b \in Bookings, NEW r \in Rooms, NEW u \in Users, NEW s \in Slots, CreateLater(p, b, r, u, s)
      PROVE  booking[call'[p].b] = Null
  BY <1>3 DEF CreateLater, Enter, TypeOK
<1>4. CASE AddToRoom(p) /\ call'[p] = [call[p] EXCEPT !.step = "addUser"]
  <2>1. call[p] \in Calls /\ At(p, "addRoom")
    BY <1>4 DEF AddToRoom, At, Idle, TypeOK
  <2>2. call'[p].b = call[p].b
    BY <1>4, <2>1 DEF Calls
  <2> QED
    BY <2>1, <2>2
<1> QED
  BY <1>1, <1>2, <1>3, <1>4, CallMoves

\* What a cancel that is under way was before the step: the same call, at the same place
\* or at the one before; or a call that begins, of a known id.
LEMMA CancelsBefore ==
  ASSUME TypeOK, [Next]_bookVars, NEW t \in Threads, NEW b \in Bookings, Cancelling(t, b)'
  PROVE  \/ /\ Cancelling(t, b)
            /\ call'[t].user = call[t].user /\ call'[t].room = call[t].room /\ call'[t].list = call[t].list
            /\ At(t, "cancelId")' => At(t, "cancelId") \/ CancelInUser(t)
            /\ ~At(t, "cancelRoom")' => ~At(t, "cancelRoom") \/ CancelInRoom(t)
         \/ \E r \in Rooms, u \in Users :
              /\ CancelBooking(t, b, r, u)
              /\ call'[t].user = u /\ call'[t].list = userRef[u] /\ At(t, "cancelRoom")'
              /\ ~At(t, "cancelId")'
<1> DEFINE Goes ==
      /\ Cancelling(t, b)
      /\ call'[t].user = call[t].user /\ call'[t].room = call[t].room /\ call'[t].list = call[t].list
      /\ At(t, "cancelId")' => At(t, "cancelId") \/ CancelInUser(t)
      /\ ~At(t, "cancelRoom")' => ~At(t, "cancelRoom") \/ CancelInRoom(t)
<1>0. call'[t] # Null /\ call'[t].b = b /\ call'[t].step \in {"cancelRoom", "cancelUser", "cancelId"}
  BY DEF Cancelling, At, Idle
<1>1. call'[t] = call[t] => Goes
  BY DEF Cancelling, At, Idle
<1>2. ASSUME NEW p \in Threads, NEW x \in Bookings, NEW r \in Rooms, NEW u \in Users,
             CancelBooking(p, x, r, u), call'[t] # call[t]
      PROVE  /\ CancelBooking(t, b, r, u)
             /\ call'[t].user = u /\ call'[t].list = userRef[u] /\ At(t, "cancelRoom")'
             /\ ~At(t, "cancelId")'
  <2>1. p = t
    BY <1>2 DEF CancelBooking, Enter, TypeOK
  <2>2. call'[t] = [step |-> "cancelRoom", b |-> x, room |-> r, user |-> u, list |-> userRef[u]]
    BY <1>2, <2>1 DEF CancelBooking, Enter, TypeOK
  <2> QED
    BY <1>0, <1>2, <2>1, <2>2 DEF At, Idle
<1>3. ASSUME NEW p \in Threads, NEW x \in Bookings, NEW r \in Rooms, NEW u \in Users, NEW s \in Slots,
             CreateFirst(p, x, r, u, s) \/ CreateLater(p, x, r, u, s)
      PROVE  call'[t] = call[t]
  BY <1>0, <1>3 DEF CreateFirst, CreateLater, Enter, TypeOK
<1>4. ASSUME NEW p \in Threads, AddToRoom(p) PROVE call'[t] = call[t]
  <2>1. CASE p = t
    <3>1. call[t] \in Calls
      BY <1>4, <2>1 DEF AddToRoom, At, Idle, TypeOK
    <3>2. call'[t].step = "addUser"
      BY <1>4, <2>1, <3>1 DEF AddToRoom, Step, TypeOK, Calls
    <3> QED
      BY <1>0, <3>2
  <2> QED
    BY <1>4, <2>1 DEF AddToRoom, Step, TypeOK
<1>5. ASSUME NEW p \in Threads, RefuseConflict(p) \/ AddToUser(p) \/ CancelById(p)
      PROVE  call'[t] = call[t]
  BY <1>0, <1>5 DEF RefuseConflict, AddToUser, CancelById, Return, TypeOK
<1>6. ASSUME NEW p \in Threads, CancelInRoom(p) \/ CancelInUser(p), call'[t] # call[t]
      PROVE  Goes
  <2>1. p = t
    BY <1>6 DEF CancelInRoom, CancelInUser, Step, TypeOK
  <2>2. call[t] \in Calls /\ call[t] # Null
    BY <1>6, <2>1 DEF CancelInRoom, CancelInUser, At, Idle, TypeOK
  <2>3. CASE CancelInRoom(t)
    <3>1. call'[t] = [call[t] EXCEPT !.step = "cancelUser"] /\ call[t].step = "cancelRoom"
      BY <2>3 DEF CancelInRoom, Step, At, TypeOK
    <3> QED
      BY <1>0, <2>2, <2>3, <3>1 DEF Cancelling, At, Idle, Calls
  <2>4. CASE CancelInUser(t)
    <3>1. call'[t] = [call[t] EXCEPT !.step = "cancelId"] /\ call[t].step = "cancelUser"
      BY <2>4 DEF CancelInUser, Step, At, TypeOK
    <3> QED
      BY <1>0, <2>2, <2>4, <3>1 DEF Cancelling, At, Idle, Calls
  <2> QED
    BY <1>6, <2>1, <2>3, <2>4
<1>7. UNCHANGED bookVars => call'[t] = call[t]
  BY DEF bookVars
<1> HIDE DEF Goes
<1>8. Goes \/ \E r \in Rooms, u \in Users :
              /\ CancelBooking(t, b, r, u)
              /\ call'[t].user = u /\ call'[t].list = userRef[u] /\ At(t, "cancelRoom")'
              /\ ~At(t, "cancelId")'
  BY <1>1, <1>2, <1>3, <1>4, <1>5, <1>6, <1>7 DEF Next
<1> QED
  BY <1>8 DEF Goes

\* An id that is known or being cancelled was so before, or is that of a first booking.
LEMMA EnteredBefore ==
  ASSUME TypeOK, [Next]_bookVars, NEW b \in Bookings,
         b \in byId' \/ \E t \in Threads : Cancelling(t, b)'
  PROVE  \/ b \in byId \/ \E t \in Threads : Cancelling(t, b)
         \/ \E t \in Threads, r \in Rooms, u \in Users, s \in Slots : CreateFirst(t, b, r, u, s)
<1>1. CASE b \in byId'
  BY <1>1 DEF Next, bookVars, CreateFirst, CreateLater, CancelBooking, AddToRoom, RefuseConflict,
              AddToUser, CancelInRoom, CancelInUser, CancelById
<1>2. ASSUME NEW t \in Threads, Cancelling(t, b)'
      PROVE  b \in byId \/ Cancelling(t, b)
  BY <1>2, CancelsBefore DEF CancelBooking
<1> QED
  BY <1>1, <1>2

\* A booking that can be cancelled was entered when it was made, so no call adds it again.
LEMMA EnteredKept ==
  ASSUME RecordsInv, [Next]_bookVars
  PROVE  CancelsEntered'
<1> SUFFICES ASSUME NEW b \in Bookings, b \in byId' \/ \E t \in Threads : Cancelling(t, b)'
             PROVE  /\ booking'[b] # Null
                    /\ \A p \in Threads, step \in {"addRoom", "addUser"} : At(p, step)' => call'[p].b # b
                    /\ \A o \in Bookings : b \in inUser'[o] => o = b
  BY DEF CancelsEntered
<1>0. TypeOK
  BY DEF RecordsInv, ListsInv
<1>1. CASE b \in byId \/ \E t \in Threads : Cancelling(t, b)
  <2>1. /\ booking[b] # Null
        /\ \A p \in Threads, step \in {"addRoom", "addUser"} : At(p, step) => call[p].b # b
        /\ \A o \in Bookings : b \in inUser[o] => o = b
    BY <1>1 DEF RecordsInv, CancelsEntered
  <2>2. booking'[b] # Null
    BY <1>0, <2>1, BookingKept
  <2>3. ASSUME NEW p \in Threads, NEW step \in {"addRoom", "addUser"}, At(p, step)'
        PROVE  call'[p].b # b
    BY <1>0, <2>1, <2>3, CreatorsBefore
  <2>4. ASSUME NEW o \in Bookings, b \in inUser'[o], b \notin inUser[o] PROVE o = b
    <3>1. ASSUME NEW t \in Threads, NEW x \in Bookings, NEW r \in Rooms, NEW u \in Users, NEW s \in Slots,
                 CreateFirst(t, x, r, u, s)
          PROVE  o = b
      BY <1>0, <2>4, <3>1 DEF CreateFirst, TypeOK
    <3>2. ASSUME NEW t \in Threads, AddToUser(t) PROVE FALSE
      BY <1>0, <2>1, <2>4, <3>2 DEF AddToUser, TypeOK
    <3>3. inUser'[o] \subseteq inUser[o] \/ (\E t \in Threads : AddToUser(t))
          \/ \E t \in Threads, x \in Bookings, r \in Rooms, u \in Users, s \in Slots : CreateFirst(t, x, r, u, s)
      BY <1>0 DEF Next, bookVars, TypeOK, CreateLater, CancelBooking, AddToRoom, RefuseConflict,
                  CancelInRoom, CancelInUser, CancelById
    <3> QED
      BY <2>4, <3>1, <3>2, <3>3
  <2> QED
    BY <2>1, <2>2, <2>3, <2>4
<1>2. ASSUME NEW t \in Threads, NEW r \in Rooms, NEW u \in Users, NEW s \in Slots, CreateFirst(t, b, r, u, s)
      PROVE  /\ booking'[b] # Null
             /\ \A p \in Threads, step \in {"addRoom", "addUser"} : At(p, step)' => call'[p].b # b
             /\ \A o \in Bookings : b \in inUser'[o] => o = b
  <2>1. booking[b] = Null /\ booking'[b] # Null /\ call' = call
    BY <1>0, <1>2, BookingMade DEF CreateFirst
  <2>2. ASSUME NEW p \in Threads, NEW step \in {"addRoom", "addUser"}, At(p, step)'
        PROVE  call'[p].b # b
    BY <2>1, <2>2 DEF RecordsInv, ListsInv, CreatesExisting, At, Idle
  <2>3. ASSUME NEW o \in Bookings, b \in inUser'[o] PROVE o = b
    <3>1. b \notin inUser[o]
      BY <2>1 DEF RecordsInv, ObjectsOwned
    <3> QED
      BY <1>0, <1>2, <2>3, <3>1 DEF CreateFirst, TypeOK
  <2> QED
    BY <2>1, <2>2, <2>3
<1> QED
  BY <1>0, <1>1, <1>2, EnteredBefore

\* What a cancel has left behind stays left: no call adds the booking, and the lists that
\* first bookings bring into use are new.
LEMMA LeavesKept ==
  ASSUME RecordsInv, [Next]_bookVars
  PROVE  CancelsLeave'
<1> SUFFICES ASSUME NEW t \in Threads, NEW b \in Bookings, Cancelling(t, b)'
             PROVE  /\ userRef'[call'[t].user] = b => call'[t].list = b
                    /\ ~At(t, "cancelRoom")' => b \notin inRoom'[call'[t].room]
                    /\ At(t, "cancelId")' /\ call'[t].list = b => b \notin inUser'[b]
  BY DEF CancelsLeave
<1>0. TypeOK
  BY DEF RecordsInv, ListsInv
<1>1. CASE Cancelling(t, b) /\ /\ call'[t].user = call[t].user /\ call'[t].room = call[t].room
                               /\ call'[t].list = call[t].list
                               /\ At(t, "cancelId")' => At(t, "cancelId") \/ CancelInUser(t)
                               /\ ~At(t, "cancelRoom")' => ~At(t, "cancelRoom") \/ CancelInRoom(t)
  <2>1. /\ booking[b] # Null
        /\ \A p \in Threads, step \in {"addRoom", "addUser"} : At(p, step) => call[p].b # b
    BY <1>1 DEF RecordsInv, CancelsEntered
  <2>2. /\ userRef[call[t].user] = b => call[t].list = b
        /\ ~At(t, "cancelRoom") => b \notin inRoom[call[t].room]
        /\ At(t, "cancelId") /\ call[t].list = b => b \notin inUser[b]
    BY <1>1 DEF RecordsInv, CancelsLeave
  <2>3. call[t] \in Calls /\ call[t].b = b /\ call[t].room \in Rooms /\ call[t].user \in Users
    BY <1>0, <1>1 DEF Cancelling, At, Idle, TypeOK, Calls
  <2>4. ASSUME NEW p \in Threads, NEW x \in Bookings, NEW r \in Rooms, NEW u \in Users, NEW s \in Slots,
               CreateFirst(p, x, r, u, s)
        PROVE  /\ \A v \in Users : userRef'[v] = b => userRef[v] = b
               /\ \A q \in Rooms : b \in inRoom'[q] => b \in inRoom[q]
               /\ b \in inUser'[b] => b \in inUser[b]
    <3>1. x # b
      BY <2>1, <2>4 DEF CreateFirst
    <3> QED
      BY <1>0, <2>4, <3>1 DEF CreateFirst, TypeOK
  <2>5. ASSUME NEW p \in Threads, AddToRoom(p) \/ AddToUser(p)
        PROVE  /\ \A q \in Rooms : b \in inRoom'[q] => b \in inRoom[q]
               /\ b \in inUser'[b] => b \in inUser[b]
    <3>1. call[p].b # b
      BY <2>1, <2>5 DEF AddToRoom, AddToUser
    <3> QED
      BY <1>0, <2>5, <3>1 DEF AddToRoom, AddToUser, TypeOK
  <2>6. ASSUME NEW p \in Threads, CancelInRoom(p) \/ CancelInUser(p)
        PROVE  /\ \A q \in Rooms : b \in inRoom'[q] => b \in inRoom[q]
               /\ b \in inUser'[b] => b \in inUser[b]
    BY <1>0, <2>6 DEF CancelInRoom, CancelInUser, TypeOK
  <2>7. /\ \A v \in Users : userRef'[v] = b => userRef[v] = b
        /\ \A q \in Rooms : b \in inRoom'[q] => b \in inRoom[q]
        /\ b \in inUser'[b] => b \in inUser[b]
    <3>1. \/ UNCHANGED <<userRef, inRoom, inUser>>
          \/ /\ UNCHANGED userRef
             /\ \E p \in Threads : AddToRoom(p) \/ AddToUser(p) \/ CancelInRoom(p) \/ CancelInUser(p)
          \/ \E p \in Threads, x \in Bookings, r \in Rooms, u \in Users, s \in Slots : CreateFirst(p, x, r, u, s)
      BY DEF Next, bookVars, CreateLater, CancelBooking, AddToRoom, RefuseConflict, AddToUser,
             CancelInRoom, CancelInUser, CancelById
    <3> QED
      BY <2>4, <2>5, <2>6, <3>1
  <2>8. CancelInRoom(t) => b \notin inRoom'[call[t].room]
    BY <1>0, <2>3 DEF CancelInRoom, TypeOK
  <2>9. CancelInUser(t) /\ call[t].list = b => b \notin inUser'[b]
    BY <1>0, <2>3 DEF CancelInUser, TypeOK
  <2> QED
    BY <1>1, <2>2, <2>3, <2>7, <2>8, <2>9
<1>2. ASSUME NEW r \in Rooms, NEW u \in Users, CancelBooking(t, b, r, u),
             call'[t].user = u, call'[t].list = userRef[u], At(t, "cancelRoom")', ~At(t, "cancelId")'
      PROVE  /\ userRef'[call'[t].user] = b => call'[t].list = b
             /\ ~At(t, "cancelRoom")' => b \notin inRoom'[call'[t].room]
             /\ At(t, "cancelId")' /\ call'[t].list = b => b \notin inUser'[b]
  BY <1>2 DEF CancelBooking
<1> QED
  BY <1>0, <1>1, <1>2, CancelsBefore

\* At the end of a cancel its booking is in no list in use: only its own list object ever
\* had it, that one is in use for its own user alone, and then the cancel held it.
LEMMA CancelsUnlist ==
  ASSUME RecordsInv
  PROVE  CancelUnlists
<1> SUFFICES ASSUME NEW t \in Threads, At(t, "cancelId")
             PROVE  /\ call[t].b \notin inRoom[call[t].room]
                    /\ call[t].user = booking[call[t].b].user =>
                         \A u \in Users : userRef[u] # Null => call[t].b \notin inUser[userRef[u]]
  BY DEF CancelUnlists
<1>1. call[t].b \in Bookings /\ Cancelling(t, call[t].b) /\ ~At(t, "cancelRoom")
  BY DEF RecordsInv, ListsInv, TypeOK, At, Idle, Calls, Cancelling
<1>2. call[t].b \notin inRoom[call[t].room]
  BY <1>1 DEF RecordsInv, CancelsLeave
<1>3. ASSUME call[t].user = booking[call[t].b].user, NEW u \in Users, userRef[u] # Null,
             call[t].b \in inUser[userRef[u]]
      PROVE  FALSE
  <2>1. userRef[u] \in Bookings
    BY <1>3 DEF RecordsInv, ListsInv, TypeOK
  <2>2. userRef[u] = call[t].b
    BY <1>1, <1>3, <2>1 DEF RecordsInv, CancelsEntered
  <2>3. call[t].user = u
    BY <1>3, <2>2 DEF RecordsInv, RefsOwned
  <2> QED
    BY <1>1, <1>3, <2>2, <2>3 DEF RecordsInv, CancelsLeave
<1> QED
  BY <1>2, <1>3

LEMMA RecordsStep == RecordsInv /\ [Next]_bookVars => RecordsInv'
<1> SUFFICES ASSUME RecordsInv, [Next]_bookVars PROVE RecordsInv'
  OBVIOUS
<1>1. ListsInv'
  BY ListsStep DEF RecordsInv
<1>2. RefsOwned' /\ CallsOwned' /\ ObjectsOwned' /\ IdsMade'
  BY RefsKept, CallsOwnedKept, ObjectsKept, IdsKept
<1>3. KnownHoldsRoom'
  BY KnownKept DEF KnownHoldsRoom
<1>4. ListsHoldOwn'
  BY <1>2, KnownKept DEF ListsHoldOwn, ObjectsOwned
<1>5. CancelsEntered' /\ CancelsLeave'
  BY EnteredKept, LeavesKept
<1> QED
  BY <1>1, <1>2, <1>3, <1>4, <1>5 DEF RecordsInv

\* An id that can be looked up, and is not being cancelled, has its booking in the list
\* of its room and in the list object that it was made with; no list of a user, in use
\* or replaced while a create was on its way to it, has another user's booking; and a cancel
\* under a booking's own room and user has it out of both lists before it deletes the id.
THEOREM ListsAgree == Spec => [](KnownHoldsRoom /\ ListsHoldOwn /\ CancelUnlists)
<1>1. RecordsInv => KnownHoldsRoom /\ ListsHoldOwn /\ CancelUnlists
  BY CancelsUnlist DEF RecordsInv
<1> QED
  BY <1>1, RecordsInit, RecordsStep, PTL DEF Spec
--------------------------------------------------------------------------------
(* The rewrite.  Every operation is one step that changes the three        *)
(* records together, so the sets are the bookings, and the check of a      *)
(* room's set is one of all its bookings.                                  *)
KeyedInv == Keyed!TypeOK /\ Keyed!IndexesAgree /\ Keyed!NoDoubleBooking

LEMMA KeyedDisjoint ==
  ASSUME NEW c \in Slots, NEW d \in Slots, ~Keyed!Overlaps(c, d)
  PROVE  (c.start .. (c.end - 1)) \cap (d.start .. (d.end - 1)) = {}
<1>1. c \in [start : Int, end : Int] /\ d \in [start : Int, end : Int]
  BY RoomBookingAssumption
<1>2. c.start \in Int /\ c.end \in Int /\ d.start \in Int /\ d.end \in Int
  BY <1>1
<1> QED
  BY <1>2 DEF Keyed!Overlaps, Keyed!Later, Keyed!Earlier

LEMMA KeyedInit == Keyed!Init => KeyedInv
  BY DEF Keyed!Init, KeyedInv, Keyed!TypeOK, Keyed!IndexesAgree, Keyed!NoDoubleBooking

LEMMA KeyedCreates ==
  ASSUME KeyedInv, NEW k \in Keys, NEW b \in MoreBookings, NEW r \in Rooms, NEW u \in Users, NEW s \in Slots,
         Keyed!CreateBooking(k, b, r, u, s)
  PROVE  KeyedInv'
<1> USE DEF KeyedInv, Keyed!TypeOK, Keyed!CreateBooking, Keyed!Register, Keyed!Fresh
<1> DEFINE made == [room |-> r, user |-> u, slot |-> s]
<1>1. made \in [room : Rooms, user : Users, slot : Slots] /\ made # Null
      /\ made.room = r /\ made.user = u /\ made.slot = s
  BY RoomBookingAssumption
<1>2. keyBooking' = [keyBooking EXCEPT ![b] = made]
  OBVIOUS
<1> HIDE DEF made
<1>3. Keyed!TypeOK'
  BY <1>1, <1>2
<1>4. \A x \in MoreBookings : keyBooking'[x] = IF x = b THEN made ELSE keyBooking[x]
  BY <1>2
<1>5. Keyed!IndexesAgree'
  <2>1. ASSUME NEW q \in Rooms
        PROVE  byRoom'[q] = {x \in MoreBookings : keyBooking'[x] # Null /\ keyBooking'[x].room = q}
    <3>1. byRoom[q] = {x \in MoreBookings : keyBooking[x] # Null /\ keyBooking[x].room = q}
      BY DEF Keyed!IndexesAgree
    <3>2. byRoom'[q] = IF q = r THEN byRoom[q] \cup {b} ELSE byRoom[q]
      OBVIOUS
    <3>3. keyBooking[b] = Null
      OBVIOUS
    <3> HIDE DEF KeyedInv, Keyed!TypeOK, Keyed!CreateBooking, Keyed!Register, Keyed!Fresh
    <3> QED
      BY <1>1, <1>4, <3>1, <3>2, <3>3
  <2>2. ASSUME NEW q \in Users
        PROVE  byUser'[q] = {x \in MoreBookings : keyBooking'[x] # Null /\ keyBooking'[x].user = q}
    <3>1. byUser[q] = {x \in MoreBookings : keyBooking[x] # Null /\ keyBooking[x].user = q}
      BY DEF Keyed!IndexesAgree
    <3>2. byUser'[q] = IF q = u THEN byUser[q] \cup {b} ELSE byUser[q]
      OBVIOUS
    <3>3. keyBooking[b] = Null
      OBVIOUS
    <3> HIDE DEF KeyedInv, Keyed!TypeOK, Keyed!CreateBooking, Keyed!Register, Keyed!Fresh
    <3> QED
      BY <1>1, <1>4, <3>1, <3>2, <3>3
  <2> QED
    BY <2>1, <2>2 DEF Keyed!IndexesAgree
<1>6. ASSUME NEW x \in MoreBookings, x # b, keyBooking[x] # Null, keyBooking[x].room = r
      PROVE  Keyed!Moments(b)' \cap Keyed!Moments(x)' = {}
  <2>1. x \in byRoom[r]
    BY <1>6 DEF Keyed!IndexesAgree
  <2>2. ~Keyed!Overlaps(s, keyBooking[x].slot)
    BY <2>1 DEF Keyed!Conflict
  <2>3. keyBooking[x].slot \in Slots
    BY <1>6
  <2>4. keyBooking'[b].slot = s /\ keyBooking'[x] = keyBooking[x]
    BY <1>1, <1>4, <1>6
  <2> QED
    BY <2>2, <2>3, <2>4, KeyedDisjoint DEF Keyed!Moments
<1>7. Keyed!NoDoubleBooking'
  <2> SUFFICES ASSUME NEW x \in MoreBookings, NEW y \in MoreBookings, x # y,
                      keyBooking'[x] # Null, keyBooking'[y] # Null, keyBooking'[x].room = keyBooking'[y].room
               PROVE  Keyed!Moments(x)' \cap Keyed!Moments(y)' = {}
    BY DEF Keyed!NoDoubleBooking
  <2>1. CASE x # b /\ y # b
    BY <1>4, <2>1 DEF Keyed!NoDoubleBooking, Keyed!Moments
  <2>2. CASE x = b
    BY <1>1, <1>4, <1>6, <2>2
  <2>3. CASE y = b
    <3>1. Keyed!Moments(y)' \cap Keyed!Moments(x)' = {}
      BY <1>1, <1>4, <1>6, <2>3
    <3> QED
      BY <3>1
  <2> QED
    BY <2>1, <2>2, <2>3
<1> QED
  BY <1>3, <1>5, <1>7

LEMMA KeyedCancels ==
  ASSUME KeyedInv, NEW b \in MoreBookings, NEW r \in Rooms, NEW u \in Users, Keyed!CancelBooking(b, r, u)
  PROVE  KeyedInv'
<1> USE DEF KeyedInv, Keyed!TypeOK, Keyed!CancelBooking
<1>1. Keyed!TypeOK'
  OBVIOUS
<1>2. \A x \in MoreBookings : keyBooking'[x] = IF x = b THEN Null ELSE keyBooking[x]
  OBVIOUS
<1>3. ASSUME NEW q \in Rooms
      PROVE  byRoom'[q] = {x \in MoreBookings : keyBooking'[x] # Null /\ keyBooking'[x].room = q}
  <2>1. byRoom[q] = {x \in MoreBookings : keyBooking[x] # Null /\ keyBooking[x].room = q}
    BY DEF Keyed!IndexesAgree
  <2>2. byRoom'[q] = IF q = r THEN byRoom[q] \ {b} ELSE byRoom[q]
    OBVIOUS
  <2>3. keyBooking[b].room = r
    OBVIOUS
  <2> HIDE DEF KeyedInv, Keyed!TypeOK, Keyed!CancelBooking
  <2> QED
    BY <1>2, <2>1, <2>2, <2>3
<1>4. ASSUME NEW q \in Users
      PROVE  byUser'[q] = {x \in MoreBookings : keyBooking'[x] # Null /\ keyBooking'[x].user = q}
  <2>1. byUser[q] = {x \in MoreBookings : keyBooking[x] # Null /\ keyBooking[x].user = q}
    BY DEF Keyed!IndexesAgree
  <2>2. byUser'[q] = IF q = u THEN byUser[q] \ {b} ELSE byUser[q]
    OBVIOUS
  <2>3. keyBooking[b].user = u
    OBVIOUS
  <2> HIDE DEF KeyedInv, Keyed!TypeOK, Keyed!CancelBooking
  <2> QED
    BY <1>2, <2>1, <2>2, <2>3
<1>5. Keyed!NoDoubleBooking'
  BY <1>2 DEF Keyed!NoDoubleBooking, Keyed!Moments
<1> QED
  BY <1>1, <1>3, <1>4, <1>5 DEF Keyed!IndexesAgree

LEMMA KeyedStep == KeyedInv /\ [Keyed!Next]_(Keyed!bookingVars) => KeyedInv'
<1> SUFFICES ASSUME KeyedInv, [Keyed!Next]_(Keyed!bookingVars) PROVE KeyedInv'
  OBVIOUS
<1>1. ASSUME NEW k \in Keys, NEW r \in Rooms, NEW u \in Users, NEW s \in Slots, Keyed!RefuseOverlap(k, r, u, s)
      PROVE  KeyedInv'
  BY <1>1 DEF Keyed!RefuseOverlap, Keyed!Register, KeyedInv, Keyed!TypeOK, Keyed!IndexesAgree,
              Keyed!NoDoubleBooking, Keyed!Moments
<1>2. CASE UNCHANGED Keyed!bookingVars
  BY <1>2 DEF Keyed!bookingVars, KeyedInv, Keyed!TypeOK, Keyed!IndexesAgree, Keyed!NoDoubleBooking, Keyed!Moments
<1> QED
  BY <1>1, <1>2, KeyedCreates, KeyedCancels DEF Keyed!Next

\* A booking appears under a key that had none.
LEMMA KeyedBooksOnce ==
  ASSUME KeyedInv, [Keyed!Next]_(Keyed!bookingVars),
         NEW b \in MoreBookings, keyBooking[b] = Null, keyBooking'[b] # Null
  PROVE  \E k \in Keys : idOf[k] = Null /\ \A x \in Keys : (idOf'[x] = b) = (x = k)
<1>1. ASSUME NEW k \in Keys, NEW c \in MoreBookings, NEW r \in Rooms, NEW u \in Users, NEW s \in Slots,
             Keyed!CreateBooking(k, c, r, u, s)
      PROVE  idOf[k] = Null /\ \A x \in Keys : (idOf'[x] = b) = (x = k)
  <2>1. c = b
    BY <1>1 DEF Keyed!CreateBooking, KeyedInv, Keyed!TypeOK
  <2>2. idOf[k] = Null /\ \A x \in Keys : idOf[x] # b
    BY <1>1, <2>1 DEF Keyed!CreateBooking, Keyed!Register, Keyed!Fresh
  <2>3. \A x \in Keys : idOf'[x] = IF x = k THEN b ELSE idOf[x]
    BY <1>1, <2>1 DEF Keyed!CreateBooking, KeyedInv, Keyed!TypeOK
  <2> QED
    BY <2>2, <2>3
<1>2. ASSUME NEW r \in Rooms, NEW u \in Users,
             (\E k \in Keys, s \in Slots : Keyed!RefuseOverlap(k, r, u, s))
               \/ \E c \in MoreBookings : Keyed!CancelBooking(c, r, u)
      PROVE  FALSE
  BY <1>2 DEF Keyed!RefuseOverlap, Keyed!CancelBooking, KeyedInv, Keyed!TypeOK
<1>3. ~UNCHANGED Keyed!bookingVars
  BY DEF Keyed!bookingVars
<1>4. PICK k \in Keys, c \in MoreBookings, r \in Rooms, u \in Users, s \in Slots :
        Keyed!CreateBooking(k, c, r, u, s)
  BY <1>2, <1>3 DEF Keyed!Next
<1> QED
  BY <1>1, <1>4

--------------------------------------------------------------------------------
(* Payments.  A key has one payment for good, and a payment one key; what  *)
(* a call that found one has yet to compare is that payment.               *)
PaymentsInv ==
  /\ Paying!TypeOK
  /\ \A k \in PaymentKeys : byKey[k] # Null => payment[byKey[k]] # Null
  /\ \A k, l \in PaymentKeys : byKey[k] # Null /\ byKey[k] = byKey[l] => k = l
  /\ \A t \in Threads : asking[t] # Null => byKey[asking[t].key] = asking[t].payment
  /\ \A a \in answers : byKey[a.key] = a.payment /\ payment[a.payment] = a.charge

LEMMA PaymentsInit == Paying!Init => PaymentsInv
  BY DEF Paying!Init, PaymentsInv, Paying!TypeOK

LEMMA PaymentsStep == PaymentsInv /\ [Paying!Next]_(Paying!paymentVars) => PaymentsInv'
<1> SUFFICES ASSUME PaymentsInv, [Paying!Next]_(Paying!paymentVars) PROVE PaymentsInv'
  OBVIOUS
<1> USE PaymentAssumption DEF PaymentsInv, Paying!TypeOK, Paying!Requests
<1>1. ASSUME NEW t \in Threads, NEW k \in PaymentKeys, NEW c \in Charges, NEW p \in Payments,
             Paying!CreatePayment(t, k, c, p)
      PROVE  PaymentsInv'
  <2> DEFINE q == Paying!Request(k, c, p)
  <2>1. q \in [key : PaymentKeys, charge : Charges, payment : Payments]
        /\ q.key = k /\ q.charge = c /\ q.payment = p
    BY DEF Paying!Request
  <2>2. /\ byKey[k] = Null /\ payment[p] = Null /\ answers' = answers \cup {q} /\ asking' = asking
        /\ byKey' = [byKey EXCEPT ![k] = p] /\ payment' = [payment EXCEPT ![p] = c]
    BY <1>1 DEF Paying!CreatePayment
  <2> HIDE DEF q
  <2>3. \A l \in PaymentKeys : byKey[l] # p
    BY <2>2
  <2>4. Paying!TypeOK'
    BY <2>1, <2>2
  <2>5. \A l, m \in PaymentKeys : byKey'[l] # Null /\ byKey'[l] = byKey'[m] => l = m
    BY <2>2, <2>3
  <2>6. \A l \in PaymentKeys : byKey'[l] # Null => payment'[byKey'[l]] # Null
    BY <2>2
  <2>7. \A s \in Threads : asking'[s] # Null => byKey'[asking'[s].key] = asking'[s].payment
    BY <2>2
  <2>8. \A a \in answers' : byKey'[a.key] = a.payment /\ payment'[a.payment] = a.charge
    BY <2>1, <2>2
  <2> QED
    BY <2>4, <2>5, <2>6, <2>7, <2>8
<1>2. ASSUME NEW t \in Threads, NEW k \in PaymentKeys, NEW c \in Charges, Paying!FindPayment(t, k, c)
      PROVE  PaymentsInv'
  <2>1. Paying!Request(k, c, byKey[k]) \in [key : PaymentKeys, charge : Charges, payment : Payments]
        /\ Paying!Request(k, c, byKey[k]).key = k /\ Paying!Request(k, c, byKey[k]).payment = byKey[k]
    BY <1>2 DEF Paying!FindPayment, Paying!Request
  <2> QED
    BY <1>2, <2>1 DEF Paying!FindPayment
<1>3. ASSUME NEW t \in Threads, Paying!CheckAmountAndCurrency(t) PROVE PaymentsInv'
  <2>1. answers' = answers \/ (answers' = answers \cup {asking[t]} /\ payment[asking[t].payment] = asking[t].charge)
    BY <1>3 DEF Paying!CheckAmountAndCurrency
  <2>2. asking[t] \in [key : PaymentKeys, charge : Charges, payment : Payments] /\ asking[t] # Null
        /\ asking' = [asking EXCEPT ![t] = Null] /\ UNCHANGED <<byKey, payment>>
    BY <1>3 DEF Paying!CheckAmountAndCurrency
  <2> QED
    BY <2>1, <2>2
<1>4. CASE UNCHANGED Paying!paymentVars
  BY <1>4 DEF Paying!paymentVars
<1> QED
  BY <1>1, <1>2, <1>3, <1>4 DEF Paying!Next

LEMMA PaymentsOnce == PaymentsInv => Paying!PaidOncePerKey
<1> SUFFICES ASSUME PaymentsInv, NEW a \in answers, NEW b \in answers
             PROVE  /\ (a.key = b.key) <=> (a.payment = b.payment)
                    /\ payment[a.payment] = a.charge /\ (a.key = b.key => a.charge = b.charge)
  BY DEF Paying!PaidOncePerKey
<1>1. \A c \in answers : c.key \in PaymentKeys /\ c.payment \in Payments
  BY DEF PaymentsInv, Paying!TypeOK, Paying!Requests
<1> QED
  BY <1>1, PaymentAssumption DEF PaymentsInv
--------------------------------------------------------------------------------
(* The services together.                                                  *)
BookingsInv == RecordsInv /\ KeyedInv /\ PaymentsInv

bookingsVars == <<subject, bookVars, mcKeyVars, paymentVars>>

LEMMA StepsOfServices ==
  ASSUME [MCNext]_bookingsVars
  PROVE  [Next]_bookVars /\ [Keyed!Next]_(Keyed!bookingVars) /\ [Paying!Next]_(Paying!paymentVars)
<1>1. [Next]_bookVars /\ [Keyed!Next]_mcKeyVars /\ [Paying!Next]_paymentVars
  BY DEF MCNext, bookingsVars
<1> QED
  BY <1>1 DEF mcKeyVars, Keyed!bookingVars, paymentVars, Paying!paymentVars

LEMMA BookingsInit == MCInit => BookingsInv
  BY RecordsInit, KeyedInit, PaymentsInit DEF MCInit, BookingsInv

LEMMA BookingsStep == BookingsInv /\ [MCNext]_bookingsVars => BookingsInv'
  BY StepsOfServices, RecordsStep, KeyedStep, PaymentsStep DEF BookingsInv

LEMMA BookingsSound == MCSpec => []BookingsInv
  BY BookingsInit, BookingsStep, PTL DEF MCSpec, bookingsVars

\* The variables of the three services keep their types.
THEOREM BookingTypesCorrect == MCSpec => []BookingTypes
<1>1. BookingsInv => BookingTypes
  BY DEF BookingsInv, RecordsInv, ListsInv, KeyedInv, PaymentsInv, BookingTypes
<1> QED
  BY <1>1, BookingsSound, PTL

\* In neither service is a room promised to two bookings at one moment: not with the
\* locks that kata-007 takes one after the other, nor after the cancels of its rewrite.
THEOREM RoomsAreBookedOnce == MCSpec => []RoomsBookedOnce
<1>1. BookingsInv => RoomsBookedOnce
  BY DEF BookingsInv, RecordsInv, ListsInv, KeyedInv, RoomsBookedOnce
<1> QED
  BY <1>1, BookingsSound, PTL

\* What can be looked up is listed, and what its owner cancels is not: in kata-007 a booking
\* with an id, unless it is being cancelled, is in its room's list and in the list object it
\* was made with, no list of a user has another's booking, and a cancel under a booking's own
\* room and user has it out of both before its id goes (not that what is listed has an id);
\* in the rewrite the ids listed by room and by user are those of the bookings, all of them
\* and no others.
THEOREM KnownBookingsAreListed == MCSpec => []KnownBookingsListed
<1>1. BookingsInv => KnownBookingsListed
  BY CancelsUnlist DEF BookingsInv, RecordsInv, KeyedInv, KnownBookingsListed
<1> QED
  BY <1>1, BookingsSound, PTL

\* An idempotency key books once and pays once, whatever it is sent with, after whatever
\* cancels, and although a payment found is compared after the lock is released.
THEOREM KeysBookAndPayOnce == MCSpec => BooksUnderNewKey
<1> DEFINE Booked ==
      \A b \in MoreBookings : keyBooking[b] = Null /\ keyBooking'[b] # Null =>
        \E k \in Keys : idOf[k] = Null /\ \A x \in Keys : (idOf'[x] = b) = (x = k)
<1>1. BookingsInv /\ [MCNext]_bookingsVars => [Booked]_(Keyed!bookingVars)
  BY StepsOfServices, KeyedBooksOnce DEF BookingsInv
<1>2. BookingsInv => Paying!PaidOncePerKey
  BY PaymentsOnce DEF BookingsInv
<1> QED
  BY <1>1, <1>2, BookingsSound, PTL DEF MCSpec, bookingsVars, BooksUnderNewKey, Keyed!BooksUnderNewKey
====================================================================================
