----------------------------- MODULE MCHolds_proofs -----------------------------
(***************************************************************************)
(* What TLC checks of MCHolds on a few seats, books and callers, proved    *)
(* for any of them, with any limits, times and numbers of calls.  Each     *)
(* service has an inductive invariant of its own, which its lemmas show to *)
(* be kept; the last part puts them together.                              *)
(***************************************************************************)
EXTENDS MCHolds, Sequences, FiniteSetTheorems, TLAPS

--------------------------------------------------------------------------------
(* Counting.  Cardinality is the same operator wherever it is declared.    *)
LEMMA Counts ==
  \A S : /\ Library!Cardinality(S) = Cardinality(S)
         /\ Support!Cardinality(S) = Cardinality(S)
         /\ Stock!Cardinality(S) = Cardinality(S)
         /\ Coupon!Cardinality(S) = Cardinality(S)
         /\ Promo!Cardinality(S) = Cardinality(S)
         /\ Limiter!Cardinality(S) = Cardinality(S)
  BY DEF Cardinality, Library!Cardinality, Support!Cardinality, Stock!Cardinality,
         Coupon!Cardinality, Promo!Cardinality, Limiter!Cardinality

\* Sets are counted one element at a time.
LEMMA AddOne ==
  ASSUME NEW S, NEW x, IsFiniteSet(S)
  PROVE  /\ Cardinality(S) \in Nat /\ IsFiniteSet(S \cup {x})
         /\ x \in S => Cardinality(S \cup {x}) = Cardinality(S)
         /\ x \notin S => Cardinality(S \cup {x}) = Cardinality(S) + 1
  BY FS_AddElement, FS_CardinalityType

LEMMA DropOne ==
  ASSUME NEW S, NEW x \in S, IsFiniteSet(S)
  PROVE  /\ Cardinality(S) \in Nat /\ IsFiniteSet(S \ {x})
         /\ Cardinality(S \ {x}) = Cardinality(S) - 1
  BY FS_RemoveElement, FS_CardinalityType

\* What has no members counts nothing.
LEMMA NoneCounted == \A S : (\A x : x \notin S) => Cardinality(S) = 0
<1> SUFFICES ASSUME NEW S, \A x : x \notin S PROVE Cardinality(S) = 0
  OBVIOUS
<1>1. S = {}
  BY SMT
<1> QED
  BY <1>1, FS_EmptySet, Zenon

--------------------------------------------------------------------------------
(* Seats.  That holds have reservations is inductive with the types alone, *)
(* for every set of seats and reservations and every TTL.  A hold is safe  *)
(* from newer reservations because there are none: a reservation is made   *)
(* together with the holds of its seats, and whoever holds one again does  *)
(* so later.                                                               *)
NoneNewer ==
  \A s \in Seats, r \in Reservations :
    seat[s].status = "held" /\ reservation[r].status = "locked" /\ s \in reservation[r].seats
      => reservation[r].at <= seat[s].heldAt

SeatInv ==
  /\ TypeOK /\ HoldsHaveReservations /\ NoneNewer
  /\ \A r \in Reservations : reservation[r].at <= clock

LEMMA SeatInit == Init => SeatInv
  BY SeatAssumption
  DEF Init, SeatInv, TypeOK, Free, HoldsHaveReservations, SeatStatus, NoneNewer

LEMMA SeatHold ==
  ASSUME SeatInv, NEW c \in Customers, NEW S \in SUBSET Seats, NEW r \in Reservations,
         HoldSeats(c, S, r)
  PROVE  SeatInv'
<1> USE SeatAssumption DEF SeatInv, TypeOK, HoldSeats
<1>1. TypeOK'
  OBVIOUS
<1>2. HoldsHaveReservations'
  <2> SUFFICES ASSUME NEW s \in Seats, SeatStatus(s)' = "held"
               PROVE  \E x \in Reservations :
                        /\ s \in reservation'[x].seats
                        /\ reservation'[x].customer = seat'[s].heldBy
                        /\ ReservationStatus(x)' = "locked" /\ reservation'[x].at = seat'[s].heldAt
    BY DEF HoldsHaveReservations
  <2>1. CASE s \in S
    <3>1. ReservationStatus(r)' = "locked"
      BY DEF ReservationStatus, IsExpired
    <3> QED
      BY <2>1, <3>1
  <2>2. CASE s \notin S
    <3>1. SeatStatus(s) = "held"
      BY <2>2 DEF SeatStatus, IsExpired
    <3>2. PICK x \in Reservations :
            /\ s \in reservation[x].seats
            /\ reservation[x].customer = seat[s].heldBy
            /\ ReservationStatus(x) = "locked" /\ reservation[x].at = seat[s].heldAt
      BY <3>1 DEF HoldsHaveReservations
    <3>3. x # r /\ reservation'[x] = reservation[x]
      BY <3>2 DEF ReservationStatus
    <3>4. ReservationStatus(x)' = "locked"
      BY <3>2, <3>3 DEF ReservationStatus, IsExpired
    <3> QED
      BY <2>2, <3>2, <3>3, <3>4
  <2> QED
    BY <2>1, <2>2
<1>3. NoneNewer'
  BY DEF NoneNewer
<1>4. \A x \in Reservations : reservation'[x].at <= clock'
  OBVIOUS
<1> QED
  BY <1>1, <1>2, <1>3, <1>4

LEMMA SeatRefuse ==
  ASSUME SeatInv, NEW c \in Customers, NEW S \in SUBSET Seats, RefuseHold(c, S)
  PROVE  /\ SeatInv'
         /\ \A s \in Seats : seat'[s] = seat[s] \/ (seat'[s] = Free /\ Holdable(s))
<1> USE SeatAssumption DEF SeatInv, TypeOK, RefuseHold
<1>1. \A s \in Seats : seat'[s] = seat[s] \/ (seat'[s] = Free /\ Holdable(s))
  OBVIOUS
<1>2. TypeOK'
  BY DEF Free
<1>3. HoldsHaveReservations'
  BY <1>1 DEF HoldsHaveReservations, SeatStatus, ReservationStatus, IsExpired, Free
<1>4. NoneNewer'
  BY <1>1 DEF NoneNewer, Free
<1> QED
  BY <1>1, <1>2, <1>3, <1>4

LEMMA SeatRelease ==
  ASSUME SeatInv, NEW c \in Customers, NEW r \in Reservations, ReleaseReservation(c, r)
  PROVE  SeatInv'
<1> USE SeatAssumption DEF SeatInv, TypeOK, ReleaseReservation
<1>1. TypeOK'
  BY DEF Free
<1>2. HoldsHaveReservations'
  <2> SUFFICES ASSUME NEW s \in Seats, SeatStatus(s)' = "held"
               PROVE  \E x \in Reservations :
                        /\ s \in reservation'[x].seats
                        /\ reservation'[x].customer = seat'[s].heldBy
                        /\ ReservationStatus(x)' = "locked" /\ reservation'[x].at = seat'[s].heldAt
    BY DEF HoldsHaveReservations
  <2>1. s \notin reservation[r].seats /\ seat'[s] = seat[s]
    BY DEF SeatStatus, Free
  <2>2. PICK x \in Reservations :
          /\ s \in reservation[x].seats
          /\ reservation[x].customer = seat[s].heldBy
          /\ ReservationStatus(x) = "locked" /\ reservation[x].at = seat[s].heldAt
    BY <2>1 DEF HoldsHaveReservations, SeatStatus, IsExpired
  <2>3. x # r /\ reservation'[x] = reservation[x]
    BY <2>1, <2>2
  <2>4. ReservationStatus(x)' = "locked"
    BY <2>2, <2>3 DEF ReservationStatus, IsExpired
  <2> QED
    BY <2>1, <2>2, <2>3, <2>4
<1>3. NoneNewer'
  BY DEF NoneNewer, Free
<1>4. \A x \in Reservations : reservation'[x].at <= clock'
  OBVIOUS
<1> QED
  BY <1>1, <1>2, <1>3, <1>4

LEMMA SeatTick == ASSUME SeatInv, Tick PROVE SeatInv'
<1> USE SeatAssumption DEF SeatInv, TypeOK, Tick
<1>1. TypeOK' /\ NoneNewer' /\ \A x \in Reservations : reservation'[x].at <= clock'
  BY DEF NoneNewer
<1>2. HoldsHaveReservations'
  BY DEF HoldsHaveReservations, SeatStatus, ReservationStatus, IsExpired
<1> QED
  BY <1>1, <1>2

LEMMA SeatStep == SeatInv /\ [Next]_seatVars => SeatInv'
<1> SUFFICES ASSUME SeatInv, [Next]_seatVars PROVE SeatInv'
  OBVIOUS
<1>1. CASE UNCHANGED seatVars
  BY <1>1
  DEF seatVars, SeatInv, TypeOK, NoneNewer, HoldsHaveReservations, SeatStatus, ReservationStatus, IsExpired
<1> QED
  BY <1>1, SeatHold, SeatRefuse, SeatRelease, SeatTick DEF Next

\* The variables keep their types.
THEOREM SeatsTypeCorrect == Spec => []TypeOK
  BY SeatInit, SeatStep, PTL DEF Spec, SeatInv

\* Whoever sees a seat as held finds the live reservation that holds it, though holds
\* expire by themselves and releases free seats that others hold.
THEOREM HeldSeatsAreReserved == Spec => []HoldsHaveReservations
<1>1. SeatInv => HoldsHaveReservations
  BY DEF SeatInv
<1> QED
  BY <1>1, SeatInit, SeatStep, PTL DEF Spec

\* No call and no tick ends a live hold but the release of a reservation of that seat,
\* its holder's own or one that is no newer.
THEOREM HoldsAreSafe == Spec => NoSeatTaken
<1>1. SeatInv /\ [Next]_seatVars =>
        [\A s \in Seats :
           /\ seat[s].status = "held" /\ clock <= seat[s].heldAt + TTL
           /\ seat'[s] # seat[s]
           => \E r \in Reservations :
                /\ s \in reservation[r].seats
                /\ reservation[r].status = "locked" /\ reservation'[r].status = "released"
                /\ reservation[r].customer = seat[s].heldBy \/ reservation[r].at <= seat[s].heldAt]_seatVars
  <2> SUFFICES ASSUME SeatInv, Next, NEW s \in Seats,
                      seat[s].status = "held", clock <= seat[s].heldAt + TTL, seat'[s] # seat[s]
               PROVE  \E r \in Reservations :
                        /\ s \in reservation[r].seats
                        /\ reservation[r].status = "locked" /\ reservation'[r].status = "released"
                        /\ reservation[r].customer = seat[s].heldBy
                             \/ reservation[r].at <= seat[s].heldAt
    OBVIOUS
  <2>1. ~Holdable(s)
    BY SeatAssumption DEF SeatInv, TypeOK, Holdable, IsExpired
  <2>2. ASSUME NEW c \in Customers, NEW S \in SUBSET Seats, NEW r \in Reservations,
               HoldSeats(c, S, r)
        PROVE  FALSE
    BY <2>1, <2>2 DEF HoldSeats
  <2>3. ASSUME NEW c \in Customers, NEW S \in SUBSET Seats, RefuseHold(c, S)
        PROVE  FALSE
    BY <2>1, <2>3, SeatRefuse
  <2>4. PICK c \in Customers, r \in Reservations : ReleaseReservation(c, r)
    BY <2>2, <2>3 DEF Next, Tick
  <2>5. s \in reservation[r].seats /\ reservation[r].status = "locked"
    BY <2>4 DEF ReleaseReservation
  <2>6. reservation'[r].status = "released"
    BY <2>4 DEF ReleaseReservation, SeatInv, TypeOK
  <2> QED
    BY <2>5, <2>6 DEF SeatInv, NoneNewer
<1> QED
  BY <1>1, SeatInit, SeatStep, PTL DEF Spec, NoSeatTaken

\* A refused hold leaves nothing that anyone can see: every step that makes no
\* reservation shows as held only seats that already did.
THEOREM RefusalsLeaveNothing == Spec => RefusalInvisible
<1>1. SeatInv /\ [Next]_seatVars =>
        [reservation' = reservation =>
           \A s \in Seats : SeatStatus(s)' = "held" => SeatStatus(s) = "held"]_seatVars
  <2> SUFFICES ASSUME SeatInv, Next, reservation' = reservation,
                      NEW s \in Seats, SeatStatus(s)' = "held"
               PROVE  SeatStatus(s) = "held"
    OBVIOUS
  <2>1. ASSUME NEW c \in Customers, NEW S \in SUBSET Seats, NEW r \in Reservations,
               HoldSeats(c, S, r)
        PROVE  FALSE
    BY <2>1 DEF HoldSeats, SeatInv, TypeOK
  <2>2. ASSUME NEW c \in Customers, NEW r \in Reservations, ReleaseReservation(c, r)
        PROVE  FALSE
    BY <2>2 DEF ReleaseReservation, SeatInv, TypeOK
  <2>3. ASSUME NEW c \in Customers, NEW S \in SUBSET Seats, RefuseHold(c, S)
        PROVE  SeatStatus(s) = "held"
    <3>1. seat'[s] = seat[s] /\ clock' = clock
      BY <2>3, SeatRefuse DEF RefuseHold, SeatStatus, Free
    <3> QED
      BY <3>1 DEF SeatStatus, IsExpired
  <2>4. ASSUME Tick PROVE SeatStatus(s) = "held"
    BY <2>4, SeatAssumption DEF Tick, SeatStatus, IsExpired, SeatInv, TypeOK
  <2> QED
    BY <2>1, <2>2, <2>3, <2>4 DEF Next
<1> QED
  BY <1>1, SeatInit, SeatStep, PTL DEF Spec, RefusalInvisible
--------------------------------------------------------------------------------
(* The library.  A member's record only grows, so it holds the loans that  *)
(* were returned too, and its size, which borrow_book compares with the    *)
(* limit, bounds the loans that were not.                                  *)
LibraryInv ==
  /\ Library!TypeOK
  /\ Library!NeverOverLent
  /\ \A b \in Books : copies[b] = Nobody => borrowers[b] = {}
  /\ \A m \in Members :
       /\ {b \in Books : m \in borrowers[b]} \subseteq Library!BooksOf(m)
       /\ Cardinality(Library!BooksOf(m)) <= Limit

LEMMA LibrarySets == \A S : S \in SUBSET Books \/ S \in SUBSET Members => IsFiniteSet(S)
  BY FS_Subset, LibraryAssumption

LEMMA LibraryInit == Library!Init => LibraryInv
  BY Counts, FS_EmptySet, LibraryAssumption
  DEF Library!Init, LibraryInv, Library!TypeOK, Library!NeverOverLent, Library!BooksOf, Library!Known

LEMMA LibraryBorrow ==
  ASSUME LibraryInv, NEW m \in Members, NEW b \in Books, Library!BorrowBook(m, b)
  PROVE  LibraryInv'
<1> USE Counts, LibraryAssumption DEF LibraryInv, Library!TypeOK, Library!BorrowBook, Library!CheckCanBeBorrowed,
      Library!CanBeBorrowed, Library!BooksOf, Library!Known
<1> DEFINE old == Library!BooksOf(m)
<1>1. old \in SUBSET Books /\ borrowers[b] \in SUBSET Members
  OBVIOUS
<1>2. Library!TypeOK'
  OBVIOUS
<1>3. Library!NeverOverLent'
  <2> SUFFICES ASSUME Deltas \subseteq Nat, NEW c \in Books, copies'[c] # Nobody
               PROVE  Cardinality(borrowers'[c]) <= copies'[c]
    BY DEF Library!NeverOverLent
  <2>1. copies[c] \in 0 .. MaxCopies /\ Cardinality(borrowers[c]) <= copies[c]
    BY DEF Library!NeverOverLent
  <2>2. CASE c = b
    <3>1. Cardinality(borrowers[b]) \in Nat /\ Cardinality(borrowers[b]) # copies[b]
      BY <1>1, LibrarySets, AddOne
    <3>2. Cardinality(borrowers'[b]) = Cardinality(borrowers[b]) + 1
      <4>1. borrowers'[b] = borrowers[b] \cup {m} /\ m \notin borrowers[b]
        OBVIOUS
      <4> QED
        BY <4>1, <1>1, LibrarySets, AddOne
    <3> QED
      BY <2>1, <2>2, <3>1, <3>2
  <2>3. CASE c # b
    BY <2>1, <2>3
  <2> QED
    BY <2>2, <2>3
<1>4. \A c \in Books : copies'[c] = Nobody => borrowers'[c] = {}
  OBVIOUS
<1>5. ASSUME NEW n \in Members
      PROVE  /\ {c \in Books : n \in borrowers'[c]} \subseteq Library!BooksOf(n)'
             /\ Cardinality(Library!BooksOf(n)') <= Limit
  <2>1. old \cup {b} # Nobody
    BY <1>1
  <2>2. Library!BooksOf(n)' = IF n = m THEN old \cup {b} ELSE Library!BooksOf(n)
    BY <2>1
  <2>3. /\ Cardinality(old) <= Limit /\ Cardinality(old) # Limit
        /\ IsFiniteSet(old) /\ IsFiniteSet(old \cup {b})
    BY <1>1, LibrarySets, AddOne
  <2>4. /\ Cardinality(old) \in Nat
        /\ Cardinality(old \cup {b}) \in {Cardinality(old), Cardinality(old) + 1}
    <3> HIDE DEF old
    <3> QED
      BY <2>3, AddOne
  <2>5. Cardinality(Library!BooksOf(n)') <= Limit
    <3>1. CASE n = m
      <4>1. Library!BooksOf(n)' = old \cup {b}
        BY <2>2, <3>1
      <4> HIDE DEF old, Library!BooksOf
      <4> QED
        BY <2>3, <2>4, <4>1
    <3>2. CASE n # m
      BY <2>2, <3>2
    <3> QED
      BY <3>1, <3>2
  <2>6. {c \in Books : n \in borrowers'[c]} \subseteq Library!BooksOf(n)'
    BY <2>2
  <2> QED
    BY <2>5, <2>6
<1> QED
  BY <1>2, <1>3, <1>4, <1>5

LEMMA LibraryStep == LibraryInv /\ [Library!Next]_(Library!libVars) => LibraryInv'
<1> SUFFICES ASSUME LibraryInv, [Library!Next]_(Library!libVars) PROVE LibraryInv'
  OBVIOUS
<1> USE Counts, LibraryAssumption DEF LibraryInv, Library!TypeOK, Library!BooksOf, Library!Known
<1>1. ASSUME NEW b \in Books, NEW n \in 0 .. MaxCopies, Library!AddBook(b, n) PROVE LibraryInv'
  <2>1. copies[b] = Nobody /\ copies' = [copies EXCEPT ![b] = n] /\ UNCHANGED <<borrowers, loans>>
    BY <1>1 DEF Library!AddBook
  <2>2. Library!TypeOK' /\ \A c \in Books : copies'[c] = Nobody => borrowers'[c] = {}
    BY <2>1
  <2>3. Library!NeverOverLent'
    <3> SUFFICES ASSUME Deltas \subseteq Nat, NEW c \in Books, copies'[c] # Nobody
                 PROVE  Cardinality(borrowers'[c]) <= copies'[c]
      BY Counts DEF Library!NeverOverLent
    <3>1. Cardinality({}) = 0
      BY FS_EmptySet
    <3>2. copies'[b] \in Nat /\ Cardinality(borrowers'[b]) = 0
      <4>1. copies'[b] \in Nat /\ borrowers'[b] = {}
        BY <2>1
      <4>2. Cardinality(borrowers'[b]) = 0
        BY <3>1, <4>1, Zenon
      <4> QED
        BY <4>1, <4>2
    <3>3. CASE c = b
      BY <3>2, <3>3
    <3>4. CASE c # b
      BY <2>1, <3>4 DEF Library!NeverOverLent
    <3> QED
      BY <3>3, <3>4
  <2>4. \A m \in Members :
          /\ {c \in Books : m \in borrowers'[c]} \subseteq Library!BooksOf(m)'
          /\ Cardinality(Library!BooksOf(m)') <= Limit
    BY <2>1
  <2> QED
    BY <2>2, <2>3, <2>4
<1>2. ASSUME NEW b \in Books, NEW m \in Members, Library!RefuseBorrow(m, b) PROVE LibraryInv'
  <2>1. Library!BooksOf(m) \in SUBSET Books
    OBVIOUS
  <2>2. \A n \in Members : Library!BooksOf(n)' = Library!BooksOf(n)
    BY <1>2, <2>1 DEF Library!RefuseBorrow
  <2>3. Library!TypeOK'
    BY <1>2, <2>1 DEF Library!RefuseBorrow
  <2>4. Library!NeverOverLent'
    BY <1>2 DEF Library!RefuseBorrow, Library!NeverOverLent
  <2>5. UNCHANGED <<copies, borrowers>>
    BY <1>2 DEF Library!RefuseBorrow
  <2>6. \A n \in Members :
          /\ {c \in Books : n \in borrowers'[c]} \subseteq Library!BooksOf(n)'
          /\ Cardinality(Library!BooksOf(n)') <= Limit
    BY <2>2, <2>5
  <2> QED
    BY <2>3, <2>4, <2>5, <2>6
<1>3. ASSUME NEW b \in Books, NEW m \in Members, Library!ReturnBook(m, b) PROVE LibraryInv'
  <2>1. Library!TypeOK'
    BY <1>3 DEF Library!ReturnBook
  <2>2. \A c \in Books : borrowers'[c] = borrowers[c] \/ (c = b /\ borrowers'[b] = borrowers[b] \ {m})
    BY <1>3 DEF Library!ReturnBook
  <2>3. copies[b] # Nobody /\ m \in borrowers[b] /\ borrowers[b] \in SUBSET Members
    BY <1>3 DEF Library!ReturnBook
  <2>4. /\ Cardinality(borrowers[b]) \in Nat
        /\ Cardinality(borrowers[b] \ {m}) = Cardinality(borrowers[b]) - 1
    <3>1. IsFiniteSet(borrowers[b])
      BY <2>3, LibrarySets
    <3> QED
      BY <2>3, <3>1, DropOne
  <2>5. Library!NeverOverLent'
    BY <1>3, <2>2, <2>3, <2>4 DEF Library!ReturnBook, Library!NeverOverLent
  <2> QED
    BY <1>3, <2>1, <2>2, <2>5 DEF Library!ReturnBook
<1>4. ASSUME NEW b \in Books, NEW d \in Deltas, Library!AddCopies(b, d) PROVE LibraryInv'
  <2>1. borrowers[b] \in SUBSET Members
    OBVIOUS
  <2>2. Cardinality(borrowers[b]) \in Nat
    BY <2>1, LibrarySets, AddOne
  <2>3. copies[b] \in 0 .. MaxCopies /\ copies'[b] = copies[b] + d /\ copies'[b] \in 0 .. MaxCopies
    BY <1>4 DEF Library!AddCopies
  <2>4. Library!TypeOK'
    BY <1>4 DEF Library!AddCopies
  <2>5. Library!NeverOverLent'
    <3> SUFFICES ASSUME Deltas \subseteq Nat, NEW c \in Books, copies'[c] # Nobody
                 PROVE  Cardinality(borrowers'[c]) <= copies'[c]
      BY DEF Library!NeverOverLent
    <3>1. CASE c = b
      <4>1. Cardinality(borrowers[b]) <= copies[b] /\ d \in Nat
        BY <1>4 DEF Library!NeverOverLent, Library!AddCopies
      <4>2. Cardinality(borrowers[b]) <= copies[b] + d
        BY <2>2, <2>3, <4>1
      <4> QED
        BY <1>4, <2>3, <3>1, <4>2 DEF Library!AddCopies
    <3>2. CASE c # b
      BY <1>4, <3>2 DEF Library!NeverOverLent, Library!AddCopies
    <3> QED
      BY <3>1, <3>2
  <2> QED
    BY <1>4, <2>3, <2>4, <2>5 DEF Library!AddCopies
<1>5. CASE UNCHANGED Library!libVars
  BY <1>5 DEF Library!libVars, Library!NeverOverLent
<1> QED
  BY <1>1, <1>2, <1>3, <1>4, <1>5, LibraryBorrow DEF Library!Next

LEMMA LibrarySound == Library!Spec => []LibraryInv
  BY LibraryInit, LibraryStep, PTL DEF Library!Spec

LEMMA LibraryRecorded == LibraryInv => Library!LoansRecorded
<1> SUFFICES ASSUME LibraryInv, NEW m \in Members
             PROVE  LET has == {b \in Books : m \in borrowers[b]} IN
                    has \subseteq Library!BooksOf(m) /\ Cardinality(has) <= Limit
  BY Counts DEF Library!LoansRecorded
<1> DEFINE has == {b \in Books : m \in borrowers[b]}
<1>1. has \subseteq Library!BooksOf(m) /\ Library!BooksOf(m) \in SUBSET Books
  BY DEF LibraryInv, Library!TypeOK, Library!BooksOf, Library!Known
<1>2. IsFiniteSet(Library!BooksOf(m)) /\ Cardinality(Library!BooksOf(m)) \in Nat
  BY <1>1, LibrarySets, AddOne
<1>3. Cardinality(has) \in Nat /\ Cardinality(has) <= Cardinality(Library!BooksOf(m))
  BY <1>1, <1>2, FS_Subset, FS_CardinalityType
<1>4. Cardinality(Library!BooksOf(m)) <= Limit
  BY DEF LibraryInv
<1>5. Cardinality(has) <= Limit
  BY <1>2, <1>3, <1>4, LibraryAssumption
<1> QED
  BY <1>1, <1>5
--------------------------------------------------------------------------------
(* Support.  An assigned ticket enters the tickets of one agent, whoever   *)
(* of the two ways to assign it, and a resolved one leaves them.           *)
Load(a) == {t \in Tickets : ticket[t].status = "assigned" /\ ticket[t].assignee = a}

SupportInv ==
  /\ Support!TypeOK
  /\ \A a \in Agents : agent[a].assigned = Cardinality(Load(a)) /\ agent[a].assigned <= agent[a].capacity

LEMMA LoadFinite == \A a : IsFiniteSet(Load(a)) /\ Cardinality(Load(a)) \in Nat
<1>1. \A a : Load(a) \in SUBSET Tickets
  BY DEF Load
<1> QED
  BY <1>1, FS_Subset, FS_CardinalityType, SupportAssumption

LEMMA SupportInit == Support!Init => SupportInv
<1> SUFFICES ASSUME Support!Init PROVE SupportInv
  OBVIOUS
<1>1. \A a \in Agents : \A t : t \notin Load(a)
  BY DEF Support!Init, Load
<1>2. \A a \in Agents : Cardinality(Load(a)) = 0
  BY <1>1, NoneCounted
<1> QED
  BY <1>2, SupportAssumption DEF SupportInv, Support!Init, Support!TypeOK

LEMMA SupportAssign ==
  ASSUME SupportInv, NEW t \in Tickets, NEW a \in Agents, Support!AssignTicketToAgent(t, a),
         queue' \in SUBSET Tickets
  PROVE  SupportInv'
<1> USE SupportAssumption DEF SupportInv, Support!TypeOK, Support!AssignTicketToAgent, Support!IsAtFullCapacity
<1>1. agent[a].assigned + 1 <= agent[a].capacity /\ agent[a].assigned + 1 \in 0 .. MaxCapacity
  <2>1. agent[a].assigned \in 0 .. MaxCapacity /\ agent[a].capacity \in 0 .. MaxCapacity
    OBVIOUS
  <2>2. agent[a].assigned <= agent[a].capacity /\ agent[a].assigned # agent[a].capacity
    OBVIOUS
  <2> HIDE DEF SupportInv, Support!AssignTicketToAgent
  <2> QED
    BY <2>1, <2>2
<1>2. agent' = [agent EXCEPT ![a].assigned = agent[a].assigned + 1]
  OBVIOUS
<1>3. \A b \in Agents : /\ agent'[b].capacity = agent[b].capacity
                        /\ agent'[b].assigned = agent[b].assigned + (IF b = a THEN 1 ELSE 0)
  BY <1>2
<1>4. agent' \in [Agents -> [capacity : 0 .. MaxCapacity, assigned : 0 .. MaxCapacity]]
  BY <1>1, <1>2
<1>5. \A u \in Tickets :
        /\ u # t => ticket'[u] = ticket[u]
        /\ u = t => ticket'[u] = [ticket[t] EXCEPT !.assignee = a, !.status = "assigned"]
  OBVIOUS
<1>6. ticket' \in [Tickets -> [status : {"none", "unassigned", "assigned", "resolved"},
                               priority : Priorities \cup {0}, assignee : Agents \cup {Nobody}]]
  <2>1. [ticket[t] EXCEPT !.assignee = a] \in [status : {"none", "unassigned", "assigned", "resolved"},
                               priority : Priorities \cup {0}, assignee : Agents \cup {Nobody}]
    OBVIOUS
  <2> DEFINE mine == [ticket[t] EXCEPT !.assignee = a]
  <2>2. ticket' = [ticket EXCEPT ![t] = [mine EXCEPT !.status = "assigned"]]
    OBVIOUS
  <2> HIDE DEF mine
  <2> QED
    BY <2>1, <2>2 DEF mine
<1>7. ASSUME NEW b \in Agents PROVE Load(b)' = IF b = a THEN Load(b) \cup {t} ELSE Load(b)
  BY <1>5 DEF Load, Support!Unassigned
<1>8. t \notin Load(a)
  BY DEF Load, Support!Unassigned
<1>9. ASSUME NEW b \in Agents PROVE agent'[b].assigned = Cardinality(Load(b)') /\ agent'[b].assigned <= agent'[b].capacity
  <2>1. CASE b = a
    <3>1. Load(b)' = Load(a) \cup {t}
      BY <1>7, <2>1
    <3>2. Cardinality(Load(a) \cup {t}) = Cardinality(Load(a)) + 1
      BY <1>8, LoadFinite, AddOne
    <3>3. agent[a].assigned = Cardinality(Load(a))
      OBVIOUS
    <3>4. Cardinality(Load(b)') = agent[a].assigned + 1
      BY <3>1, <3>2, <3>3
    <3> QED
      BY <1>1, <1>3, <2>1, <3>4
  <2>2. CASE b # a
    BY <1>3, <1>7, <2>2
  <2> QED
    BY <2>1, <2>2
<1> QED
  BY <1>4, <1>6, <1>9

LEMMA SupportResolve ==
  ASSUME SupportInv, NEW t \in Tickets, NEW a \in Agents, Support!ResolveTicket(t, a)
  PROVE  SupportInv'
<1> USE SupportAssumption DEF SupportInv, Support!TypeOK, Support!ResolveTicket
<1>1. t \in Load(a)
  BY DEF Load
<1>2. Cardinality(Load(a)) = agent[a].assigned /\ Cardinality(Load(a) \ {t}) = agent[a].assigned - 1
      /\ Cardinality(Load(a) \ {t}) \in Nat
  <2>1. Cardinality(Load(a) \ {t}) = Cardinality(Load(a)) - 1 /\ IsFiniteSet(Load(a) \ {t})
    BY <1>1, LoadFinite, DropOne
  <2>2. Cardinality(Load(a) \ {t}) \in Nat
    BY <2>1, FS_CardinalityType
  <2> QED
    BY <2>1, <2>2
<1>3. agent' = [agent EXCEPT ![a].assigned = agent[a].assigned - 1]
  OBVIOUS
<1>4. \A b \in Agents : /\ agent'[b].capacity = agent[b].capacity
                        /\ agent'[b].assigned = agent[b].assigned - (IF b = a THEN 1 ELSE 0)
  BY <1>3
<1>5. agent[a].assigned - 1 \in 0 .. MaxCapacity
  BY <1>2
<1>6. agent' \in [Agents -> [capacity : 0 .. MaxCapacity, assigned : 0 .. MaxCapacity]]
  BY <1>3, <1>5
<1>7. ticket' \in [Tickets -> [status : {"none", "unassigned", "assigned", "resolved"},
                               priority : Priorities \cup {0}, assignee : Agents \cup {Nobody}]]
  OBVIOUS
<1>8. ASSUME NEW b \in Agents PROVE Load(b)' = IF b = a THEN Load(b) \ {t} ELSE Load(b)
  BY DEF Load
<1>9. ASSUME NEW b \in Agents PROVE agent'[b].assigned = Cardinality(Load(b)') /\ agent'[b].assigned <= agent'[b].capacity
  <2>1. CASE b = a
    <3>1. Load(b)' = Load(a) \ {t}
      BY <1>8, <2>1
    <3> QED
      BY <1>2, <1>4, <2>1, <3>1
  <2>2. CASE b # a
    BY <1>4, <1>8, <2>2
  <2> QED
    BY <2>1, <2>2
<1> QED
  BY <1>6, <1>7, <1>9

LEMMA SupportStep == SupportInv /\ [Support!Next]_(Support!supportVars) => SupportInv'
<1> SUFFICES ASSUME SupportInv, [Support!Next]_(Support!supportVars) PROVE SupportInv'
  OBVIOUS
<1> USE SupportAssumption DEF SupportInv, Support!TypeOK
<1>1. ASSUME NEW t \in Tickets, NEW p \in Priorities, Support!CreateTicket(t, p) PROVE SupportInv'
  <2>1. \A a : Load(a)' = Load(a)
    BY <1>1 DEF Support!CreateTicket, Load
  <2> QED
    BY <1>1, <2>1 DEF Support!CreateTicket
<1>2. ASSUME NEW a \in Agents, NEW n \in 1 .. MaxCapacity, Support!RegisterAgent(a, n) PROVE SupportInv'
  <2>1. \A b : Load(b)' = Load(b)
    BY <1>2 DEF Support!RegisterAgent, Load
  <2>2. \A b \in Agents : agent'[b].assigned = agent[b].assigned /\ agent[b].capacity <= agent'[b].capacity
    BY <1>2 DEF Support!RegisterAgent
  <2>3. Support!TypeOK'
    BY <1>2 DEF Support!RegisterAgent
  <2>4. \A b \in Agents : agent'[b].assigned <= agent'[b].capacity
    BY <2>2, <2>3
  <2> QED
    BY <2>1, <2>2, <2>3, <2>4
<1>3. ASSUME NEW a \in Agents, UNCHANGED <<agent, ticket>>, queue' \in SUBSET Tickets PROVE SupportInv'
  BY <1>3 DEF Load
<1>4. ASSUME NEW a \in Agents, Support!AssignNextTicket(a) PROVE SupportInv'
  BY <1>4, SupportAssign DEF Support!AssignNextTicket
<1>5. ASSUME NEW a \in Agents, NEW t \in Tickets, Support!AssignTicket(t, a) PROVE SupportInv'
  BY <1>5, SupportAssign DEF Support!AssignTicket
<1>6. CASE UNCHANGED Support!supportVars
  BY <1>6 DEF Support!supportVars, Load
<1> QED
  BY <1>1, <1>2, <1>3, <1>4, <1>5, <1>6, SupportResolve
  DEF Support!Next, Support!AssignNextRefused, Support!AssignNextNone

LEMMA SupportSound == Support!Spec => []SupportInv
  BY SupportInit, SupportStep, PTL DEF Support!Spec

LEMMA LoadCounted == SupportInv => Support!LoadIsTickets
  BY Counts DEF SupportInv, Support!LoadIsTickets, Load

\* Entries are skipped in the order of the keys, which no two tickets share, so what
\* is popped with the first live ticket is not live.
LEMMA PulledDropsNoOther ==
  ASSUME SupportInv, NEW a \in Agents, Support!AssignNextTicket(a) \/ Support!AssignNextRefused(a),
         NEW t \in queue, Support!Unassigned(t)', t \notin queue'
  PROVE  Support!AssignNextRefused(a)
<1> SUFFICES ASSUME Support!AssignNextTicket(a) PROVE FALSE
  OBVIOUS
<1> USE SupportAssumption DEF SupportInv, Support!TypeOK
<1>1. PICK u \in queue : /\ Support!NextInOrder(u) /\ Support!AssignTicketToAgent(u, a)
                         /\ queue' = queue \ Support!Popped(u)
  BY DEF Support!AssignNextTicket
<1>2. t # u /\ Support!Unassigned(t)
  BY <1>1 DEF Support!AssignTicketToAgent, Support!Unassigned
<1>3. Support!Before(u, t) /\ Support!Before(t, u)
  BY <1>1, <1>2 DEF Support!NextInOrder, Support!Popped
<1>4. /\ ticket[t].priority \in Int /\ ticket[u].priority \in Int
      /\ t \in Int /\ u \in Int
  <2>1. ticket[t].priority \in Priorities \cup {0} /\ ticket[u].priority \in Priorities \cup {0}
        /\ t \in Tickets /\ u \in Tickets
    OBVIOUS
  <2>2. \A x \in Tickets : x \in Int
    BY SupportAssumption
  <2>3. \A x \in Priorities \cup {0} : x \in Int
    BY SupportAssumption
  <2> QED
    BY <2>1, <2>2, <2>3, Zenon
<1> HIDE DEF SupportInv
<1> QED
  BY <1>3, <1>4 DEF Support!Before

\* Only a pull refused for want of capacity takes a live ticket out of the queue.
THEOREM LiveTicketsStay == Support!Spec => Support!OnlyRefusalsDrop
<1> DEFINE Kept ==
      \A t \in queue : Support!Unassigned(t)' /\ t \notin queue' =>
        \E a \in Agents : Support!IsAtFullCapacity(a) /\ UNCHANGED <<agent, ticket>>
<1>1. ASSUME SupportInv, [Support!Next]_(Support!supportVars) PROVE [Kept]_(Support!supportVars)
  <2> SUFFICES ASSUME NEW t \in queue, Support!Unassigned(t)', t \notin queue', Support!Next
               PROVE  \E a \in Agents : Support!IsAtFullCapacity(a) /\ UNCHANGED <<agent, ticket>>
    BY <1>1 DEF Support!supportVars
  <2>1. PICK a \in Agents : \/ Support!AssignNextTicket(a) \/ Support!AssignNextRefused(a)
                            \/ Support!AssignNextNone(a)
    <3>1. \A u, p : ~Support!CreateTicket(u, p)
      BY DEF Support!CreateTicket
    <3>2. \A a, n : ~Support!RegisterAgent(a, n)
      BY DEF Support!RegisterAgent
    <3>3. \A a, u : ~Support!AssignTicket(u, a) /\ ~Support!ResolveTicket(u, a)
      BY DEF Support!AssignTicket, Support!ResolveTicket
    <3> QED
      BY <3>1, <3>2, <3>3 DEF Support!Next
  <2>2. ~Support!AssignNextNone(a)
    BY DEF Support!AssignNextNone, Support!Unassigned
  <2>3. Support!AssignNextRefused(a)
    BY <1>1, <2>1, <2>2, PulledDropsNoOther
  <2> QED
    BY <2>3 DEF Support!AssignNextRefused
<1> QED
  BY <1>1, SupportSound, PTL DEF Support!Spec, Support!OnlyRefusalsDrop
--------------------------------------------------------------------------------
(* Stock.  The units that a reservation holds are its own, so making it    *)
(* adds as many as it asks for to those held and releasing it takes as     *)
(* many away.                                                              *)
Block(r, n) == {r} \X (1 .. n)

LEMMA BlockCount ==
  ASSUME NEW r, NEW n \in Nat
  PROVE  IsFiniteSet(Block(r, n)) /\ Cardinality(Block(r, n)) = n
<1>1. IsFiniteSet({r}) /\ Cardinality({r}) = 1
  BY FS_Singleton
<1>2. IsFiniteSet(1 .. n) /\ Cardinality(1 .. n) = n
  BY FS_Interval
<1>3. Cardinality({r} \X (1 .. n)) = Cardinality({r}) * Cardinality(1 .. n)
  BY <1>1, <1>2, FS_Product
<1> QED
  BY <1>1, <1>2, <1>3, FS_Product DEF Block

LEMMA AddBlock ==
  ASSUME NEW S, IsFiniteSet(S), NEW r, NEW n \in Nat, \A k \in S : k[1] # r
  PROVE  Cardinality(S \cup Block(r, n)) = Cardinality(S) + n
<1>1. IsFiniteSet(Block(r, n)) /\ Cardinality(Block(r, n)) = n
  BY BlockCount
<1>2. \A k : k \notin S \cap Block(r, n)
  BY DEF Block
<1>3. Cardinality(S \cap Block(r, n)) = 0
  BY <1>2, NoneCounted
<1>4. Cardinality(S) \in Nat
  BY FS_CardinalityType
<1>5. Cardinality(S \cup Block(r, n))
        = Cardinality(S) + Cardinality(Block(r, n)) - Cardinality(S \cap Block(r, n))
  BY <1>1, FS_Union
<1> QED
  BY <1>1, <1>3, <1>4, <1>5

StockInv == Stock!TypeOK /\ Stock!StockConserved

LEMMA UnitsFinite == \A p : IsFiniteSet(Stock!UnitsHeld(p)) /\ Cardinality(Stock!UnitsHeld(p)) \in Nat
<1>1. IsFiniteSet(StockHolds \X (1 .. MaxStock))
  <2>1. IsFiniteSet(1 .. MaxStock)
    BY FS_Interval, StockAssumption
  <2> QED
    BY <2>1, FS_Product, StockAssumption
<1>2. \A p : Stock!UnitsHeld(p) \in SUBSET (StockHolds \X (1 .. MaxStock))
  BY DEF Stock!UnitsHeld
<1> QED
  BY <1>1, <1>2, FS_Subset, FS_CardinalityType

LEMMA StockInit == Stock!Init => StockInv
<1> SUFFICES ASSUME Stock!Init PROVE StockInv
  OBVIOUS
<1>1. \A p \in Products : \A k : k \notin Stock!UnitsHeld(p)
  BY DEF Stock!Init, Stock!UnitsHeld
<1>2. \A p \in Products : Cardinality(Stock!UnitsHeld(p)) = 0
  BY <1>1, NoneCounted
<1>3. Stock!StockConserved
  BY <1>2, Counts DEF Stock!Init, Stock!StockConserved
<1>4. Stock!TypeOK
  BY StockAssumption DEF Stock!Init, Stock!TypeOK
<1> QED
  BY <1>3, <1>4 DEF StockInv

LEMMA StockAdd ==
  ASSUME StockInv, NEW p \in Products, NEW n \in 1 .. MaxStock, Stock!AddProduct(p, n)
  PROVE  StockInv'
<1> USE StockAssumption DEF StockInv, Stock!TypeOK, Stock!AddProduct
<1>1. n \in 0 .. MaxStock /\ n \in Nat
  OBVIOUS
<1>2. Stock!TypeOK'
  BY <1>1
<1>3. \A q \in Products : Stock!UnitsHeld(q)' = Stock!UnitsHeld(q)
  BY DEF Stock!UnitsHeld
<1>4. added[p] = 0 /\ available[p] \in Nat /\ added[p] = available[p] + Cardinality(Stock!UnitsHeld(p))
  BY Counts DEF Stock!StockConserved
<1>5. Cardinality(Stock!UnitsHeld(p)) = 0
  BY <1>4, UnitsFinite
<1>6. \A q \in Products : added'[q] = available'[q] + Cardinality(Stock!UnitsHeld(q)')
  <2> SUFFICES ASSUME NEW q \in Products PROVE added'[q] = available'[q] + Cardinality(Stock!UnitsHeld(q)')
    OBVIOUS
  <2>1. CASE q = p
    BY <1>1, <1>3, <1>5, <2>1
  <2>2. CASE q # p
    BY <1>3, <2>2, Counts DEF Stock!StockConserved
  <2> QED
    BY <2>1, <2>2
<1>7. Stock!StockConserved'
  BY <1>6, Counts DEF Stock!StockConserved
<1> QED
  BY <1>2, <1>7

LEMMA StockReserve ==
  ASSUME StockInv, NEW p \in Products, NEW r \in StockHolds, NEW n \in 1 .. MaxStock,
         Stock!ReserveQuantity(p, r, n)
  PROVE  StockInv'
<1> USE StockAssumption DEF StockInv, Stock!TypeOK, Stock!ReserveQuantity
<1> DEFINE record == [product |-> p, quantity |-> n, status |-> "pending"]
<1>1. record \in [product : Products, quantity : 1 .. MaxStock, status : {"pending", "confirmed"}]
      /\ record # Nobody
  OBVIOUS
<1>2. n \in Nat /\ available[p] \in Nat /\ available[p] - n \in Nat
  OBVIOUS
<1>3. reserved' = [reserved EXCEPT ![r] = record] /\ available' = [available EXCEPT ![p] = available[p] - n]
      /\ added' = added /\ reserved[r] = Nobody
  OBVIOUS
<1>4. Stock!TypeOK'
  <2> HIDE DEF record
  <2> QED
    BY <1>1, <1>2, <1>3
<1>5. \A q \in Products : q # p => Stock!UnitsHeld(q)' = Stock!UnitsHeld(q)
  BY <1>1, <1>3 DEF Stock!UnitsHeld, Block
<1>6. Stock!UnitsHeld(p)' = Stock!UnitsHeld(p) \cup Block(r, n)
  BY <1>1, <1>3 DEF Stock!UnitsHeld, Block
<1>7. \A k \in Stock!UnitsHeld(p) : k[1] # r
  BY <1>3 DEF Stock!UnitsHeld
<1>8. Cardinality(Stock!UnitsHeld(p)') = Cardinality(Stock!UnitsHeld(p)) + n
  BY <1>2, <1>6, <1>7, UnitsFinite, AddBlock
<1>9. \A q \in Products : added'[q] = available'[q] + Cardinality(Stock!UnitsHeld(q)')
  <2> SUFFICES ASSUME NEW q \in Products PROVE added'[q] = available'[q] + Cardinality(Stock!UnitsHeld(q)')
    OBVIOUS
  <2>1. added[q] = available[q] + Cardinality(Stock!UnitsHeld(q)) /\ Cardinality(Stock!UnitsHeld(q)) \in Nat
    BY Counts, UnitsFinite DEF Stock!StockConserved
  <2>2. CASE q = p
    <3>1. available'[q] = available[q] - n
      BY <1>3, <2>2
    <3> QED
      BY <1>2, <1>3, <1>8, <2>1, <2>2, <3>1
  <2>3. CASE q # p
    BY <1>3, <1>5, <2>1, <2>3
  <2> QED
    BY <2>2, <2>3
<1>10. Stock!StockConserved'
  BY <1>9, Counts DEF Stock!StockConserved
<1> QED
  BY <1>4, <1>10

LEMMA StockRelease ==
  ASSUME StockInv, NEW p \in Products, NEW r \in StockHolds, Stock!ReleaseReservation(p, r)
  PROVE  StockInv'
<1> USE StockAssumption DEF StockInv, Stock!TypeOK, Stock!ReleaseReservation
<1> DEFINE n == reserved[r].quantity
<1>1. reserved[r] \in [product : Products, quantity : 1 .. MaxStock, status : {"pending", "confirmed"}]
  OBVIOUS
<1>2. n \in 1 .. MaxStock /\ n \in Nat /\ available[p] \in Nat /\ available[p] + n \in Nat
  BY <1>1
<1>3. reserved' = [reserved EXCEPT ![r] = Nobody] /\ available' = [available EXCEPT ![p] = available[p] + n]
      /\ added' = added /\ reserved[r].product = p
  OBVIOUS
<1>4. Stock!TypeOK'
  <2> HIDE DEF n
  <2> QED
    BY <1>2, <1>3
<1>5. \A q \in Products : q # p => Stock!UnitsHeld(q)' = Stock!UnitsHeld(q)
  BY <1>3 DEF Stock!UnitsHeld
<1>6. Stock!UnitsHeld(p) = Stock!UnitsHeld(p)' \cup Block(r, n)
  BY <1>1, <1>3 DEF Stock!UnitsHeld, Block
<1>7. \A k \in Stock!UnitsHeld(p)' : k[1] # r
  BY <1>3 DEF Stock!UnitsHeld
<1>8. IsFiniteSet(Stock!UnitsHeld(p)') /\ Cardinality(Stock!UnitsHeld(p)') \in Nat
  BY UnitsFinite, <1>6, FS_Subset, FS_CardinalityType
<1>9. Cardinality(Stock!UnitsHeld(p)) = Cardinality(Stock!UnitsHeld(p)') + n
  <2> HIDE DEF n
  <2> QED
    BY <1>2, <1>6, <1>7, <1>8, AddBlock
<1>10. \A q \in Products : added'[q] = available'[q] + Cardinality(Stock!UnitsHeld(q)')
  <2> SUFFICES ASSUME NEW q \in Products PROVE added'[q] = available'[q] + Cardinality(Stock!UnitsHeld(q)')
    OBVIOUS
  <2>1. added[q] = available[q] + Cardinality(Stock!UnitsHeld(q))
    BY Counts DEF Stock!StockConserved
  <2>2. CASE q = p
    <3>1. available'[q] = available[q] + n
      BY <1>3, <2>2
    <3> HIDE DEF n
    <3> QED
      BY <1>2, <1>3, <1>8, <1>9, <2>1, <2>2, <3>1
  <2>3. CASE q # p
    BY <1>3, <1>5, <2>1, <2>3
  <2> QED
    BY <2>2, <2>3
<1>11. Stock!StockConserved'
  BY <1>10, Counts DEF Stock!StockConserved
<1> QED
  BY <1>4, <1>11

LEMMA StockConfirm ==
  ASSUME StockInv, NEW p \in Products, NEW r \in StockHolds, Stock!ConfirmReservation(p, r)
  PROVE  StockInv'
<1> USE StockAssumption DEF StockInv, Stock!TypeOK, Stock!ConfirmReservation
<1>1. reserved[r] \in [product : Products, quantity : 1 .. MaxStock, status : {"pending", "confirmed"}]
  OBVIOUS
<1> DEFINE confirmed == [reserved[r] EXCEPT !.status = "confirmed"]
<1>2. /\ confirmed \in [product : Products, quantity : 1 .. MaxStock, status : {"pending", "confirmed"}]
      /\ confirmed.product = reserved[r].product /\ confirmed.quantity = reserved[r].quantity
  BY <1>1
<1>3. reserved' = [reserved EXCEPT ![r] = confirmed] /\ confirmed # Nobody /\ reserved[r] # Nobody
  BY <1>2
<1>4. Stock!TypeOK'
  <2> HIDE DEF confirmed
  <2> QED
    BY <1>2, <1>3
<1>5. \A q \in Products : Stock!UnitsHeld(q)' = Stock!UnitsHeld(q)
  <2> HIDE DEF confirmed
  <2> QED
    BY <1>2, <1>3 DEF Stock!UnitsHeld
<1>6. Stock!StockConserved'
  BY <1>5 DEF Stock!StockConserved
<1> QED
  BY <1>4, <1>6

LEMMA StockStep ==
  StockInv /\ [Stock!Next \/ Stock!NextWithoutConfirm]_(Stock!stockVars) => StockInv'
<1> SUFFICES ASSUME StockInv, [Stock!Next \/ Stock!NextWithoutConfirm]_(Stock!stockVars) PROVE StockInv'
  OBVIOUS
<1>1. ASSUME NEW p \in Products, NEW r \in StockHolds, Stock!ReleaseQuantity(p, r) PROVE StockInv'
  BY <1>1, StockRelease DEF Stock!ReleaseQuantity, Stock!ReleaseReservation
<1>2. CASE UNCHANGED Stock!stockVars
  BY <1>2 DEF Stock!stockVars, StockInv, Stock!TypeOK, Stock!StockConserved, Stock!UnitsHeld
<1> QED
  BY <1>1, <1>2, StockAdd, StockReserve, StockRelease, StockConfirm
  DEF Stock!Next, Stock!NextWithoutConfirm, Stock!RegisterProduct, Stock!ReserveProduct

LEMMA StockSound ==
  Stock!Init /\ [][Stock!Next \/ Stock!NextWithoutConfirm]_(Stock!stockVars) => []StockInv
  BY StockInit, StockStep, PTL
--------------------------------------------------------------------------------
(* Coupons.  A redemption is the next of its customer, so it is one more.  *)
CouponInv ==
  /\ Coupon!TypeOK
  /\ \A c \in Coupons :
       /\ redeemed[c] = Cardinality(Coupon!Redemptions(c))
       /\ IF limits[c] = Nobody
          THEN \A u \in Customers : customers[c][u] = Nobody
          ELSE /\ redeemed[c] <= limits[c].all
               /\ \A u \in Customers : Coupon!Count(c, u) <= limits[c].each

LEMMA RedemptionsFinite ==
  \A c : IsFiniteSet(Coupon!Redemptions(c)) /\ Cardinality(Coupon!Redemptions(c)) \in Nat
<1>1. IsFiniteSet(1 .. MaxRedemptions)
  BY FS_Interval, CouponAssumption
<1>2. IsFiniteSet(Customers \X (1 .. MaxRedemptions))
  BY <1>1, FS_Product, CouponAssumption
<1>3. \A c : Coupon!Redemptions(c) \in SUBSET (Customers \X (1 .. MaxRedemptions))
  BY DEF Coupon!Redemptions
<1> QED
  BY <1>2, <1>3, FS_Subset, FS_CardinalityType

LEMMA CouponInit == Coupon!Init => CouponInv
<1> SUFFICES ASSUME Coupon!Init PROVE CouponInv
  OBVIOUS
<1>1. \A c \in Coupons : \A k : k \notin Coupon!Redemptions(c)
  <2>1. \A c \in Coupons, u \in Customers : Coupon!Count(c, u) = 0
    BY DEF Coupon!Init, Coupon!Count
  <2> QED
    BY <2>1 DEF Coupon!Redemptions
<1>2. \A c \in Coupons : Cardinality(Coupon!Redemptions(c)) = 0
  BY <1>1, NoneCounted
<1> QED
  BY <1>2, CouponAssumption DEF CouponInv, Coupon!Init, Coupon!TypeOK

LEMMA CouponCreate ==
  ASSUME CouponInv, NEW c \in Coupons, NEW all \in 1 .. MaxRedemptions, NEW each \in 1 .. MaxRedemptions,
         Coupon!CreateCoupon(c, all, each)
  PROVE  CouponInv'
<1> USE CouponAssumption DEF CouponInv, Coupon!TypeOK, Coupon!CreateCoupon
<1> DEFINE made == [all |-> all, each |-> each]
<1>1. made \in [all : 1 .. MaxRedemptions, each : 1 .. MaxRedemptions] /\ made # Nobody
      /\ made.all \in Nat /\ made.each \in Nat
  OBVIOUS
<1>2. limits[c] = Nobody /\ limits' = [limits EXCEPT ![c] = made] /\ redeemed' = redeemed /\ customers' = customers
  OBVIOUS
<1>3. Coupon!TypeOK'
  <2> HIDE DEF made
  <2> QED
    BY <1>1, <1>2
<1>4. \A u \in Customers : Coupon!Count(c, u) = 0
  BY <1>2 DEF Coupon!Count
<1>5. \A d \in Coupons : Coupon!Redemptions(d)' = Coupon!Redemptions(d)
  BY <1>2 DEF Coupon!Redemptions, Coupon!Count
<1>6. \A d, u : Coupon!Count(d, u)' = Coupon!Count(d, u)
  BY <1>2 DEF Coupon!Count
<1>7. \A k : k \notin Coupon!Redemptions(c)
  BY <1>4 DEF Coupon!Redemptions
<1>8. redeemed[c] = 0
  BY <1>7, NoneCounted
<1>9. ASSUME NEW d \in Coupons
      PROVE  /\ redeemed'[d] = Cardinality(Coupon!Redemptions(d)')
             /\ IF limits'[d] = Nobody
                THEN \A u \in Customers : customers'[d][u] = Nobody
                ELSE /\ redeemed'[d] <= limits'[d].all
                     /\ \A u \in Customers : Coupon!Count(d, u)' <= limits'[d].each
  <2>1. redeemed'[d] = Cardinality(Coupon!Redemptions(d)')
    BY <1>2, <1>5
  <2>2. CASE d = c
    <3>1. limits'[d] = made
      BY <1>2, <2>2
    <3> HIDE DEF made
    <3> QED
      BY <1>1, <1>2, <1>4, <1>6, <1>8, <2>1, <2>2, <3>1
  <2>3. CASE d # c
    <3>1. limits'[d] = limits[d]
      BY <1>2, <2>3
    <3> QED
      BY <1>2, <1>6, <2>1, <3>1
  <2> QED
    BY <2>2, <2>3
<1> QED
  BY <1>3, <1>9

\* The redemption that is allowed is one that the customer has not made yet.
LEMMA OneMoreRedemption ==
  ASSUME CouponInv, NEW c \in Coupons, NEW u \in Customers, limits[c] # Nobody,
         Coupon!Allowed(c, u), UNCHANGED limits,
         customers' = [customers EXCEPT ![c][u] = Coupon!Count(c, u) + 1]
  PROVE  /\ Coupon!Count(c, u) + 1 \in 1 .. MaxRedemptions
         /\ \A d \in Coupons, v \in Customers :
              Coupon!Count(d, v)' = IF d = c /\ v = u THEN Coupon!Count(c, u) + 1 ELSE Coupon!Count(d, v)
         /\ \A d \in Coupons : d # c => Coupon!Redemptions(d)' = Coupon!Redemptions(d)
         /\ Cardinality(Coupon!Redemptions(c)') = Cardinality(Coupon!Redemptions(c)) + 1
         /\ customers' \in [Coupons -> [Customers -> (0 .. MaxRedemptions) \cup {Nobody}]]
<1> USE CouponAssumption
<1> DEFINE n == Coupon!Count(c, u) + 1
<1>1. \A d \in Coupons, v \in Customers : Coupon!Count(d, v) \in 0 .. MaxRedemptions
  BY DEF CouponInv, Coupon!TypeOK, Coupon!Count
<1>2. limits[c].each \in 1 .. MaxRedemptions
  BY DEF CouponInv, Coupon!TypeOK
<1>3. n \in 1 .. MaxRedemptions /\ n # Nobody
  <2>1. n \in 1 .. MaxRedemptions
    BY <1>1, <1>2 DEF Coupon!Allowed
  <2>2. n \in 0 .. MaxRedemptions
    BY <2>1
  <2> QED
    BY <2>1, <2>2
<1>4. \A d \in Coupons, v \in Customers :
        customers'[d][v] = IF d = c /\ v = u THEN n ELSE customers[d][v]
  BY DEF CouponInv, Coupon!TypeOK
<1>5. customers' \in [Coupons -> [Customers -> (0 .. MaxRedemptions) \cup {Nobody}]]
  <2>1. n \in 0 .. MaxRedemptions
    BY <1>3
  <2> HIDE DEF n
  <2> QED
    BY <2>1 DEF CouponInv, Coupon!TypeOK, n
<1>6. \A d \in Coupons, v \in Customers :
        Coupon!Count(d, v)' = IF d = c /\ v = u THEN n ELSE Coupon!Count(d, v)
  <2> HIDE DEF n
  <2> QED
    BY <1>3, <1>4 DEF Coupon!Count
<1>7. \A d \in Coupons : d # c => Coupon!Redemptions(d)' = Coupon!Redemptions(d)
  BY <1>6 DEF Coupon!Redemptions
<1>8. Coupon!Redemptions(c)' = Coupon!Redemptions(c) \cup {<<u, n>>} /\ <<u, n>> \notin Coupon!Redemptions(c)
  BY <1>1, <1>3, <1>6 DEF Coupon!Redemptions
<1>9. Cardinality(Coupon!Redemptions(c)') = Cardinality(Coupon!Redemptions(c)) + 1
  <2> HIDE DEF n
  <2> QED
    BY <1>8, AddOne, RedemptionsFinite
<1> QED
  BY <1>1, <1>3, <1>5, <1>6, <1>7, <1>9

LEMMA CouponRedeem ==
  ASSUME CouponInv, NEW c \in Coupons, NEW u \in Customers, Coupon!RedeemCoupon(c, u)
  PROVE  CouponInv'
<1>1. CASE ~Coupon!Allowed(c, u)
  <2>1. /\ customers' = [customers EXCEPT ![c][u] = Coupon!Count(c, u)]
        /\ redeemed' = redeemed /\ limits' = limits /\ limits[c] # Nobody
    BY <1>1 DEF Coupon!RedeemCoupon
  <2>2. Coupon!Count(c, u) \in 0 .. MaxRedemptions
    BY CouponAssumption DEF CouponInv, Coupon!TypeOK, Coupon!Count
  <2>3. \A d \in Coupons, v \in Customers :
          customers'[d][v] = IF d = c /\ v = u THEN Coupon!Count(c, u) ELSE customers[d][v]
    BY <2>1 DEF CouponInv, Coupon!TypeOK
  <2>4. \A d \in Coupons, v \in Customers : Coupon!Count(d, v)' = Coupon!Count(d, v)
    BY <2>2, <2>3, CouponAssumption DEF Coupon!Count
  <2>5. \A d \in Coupons : Coupon!Redemptions(d)' = Coupon!Redemptions(d)
    BY <2>4 DEF Coupon!Redemptions
  <2>6. Coupon!TypeOK'
    BY <2>1, <2>2 DEF CouponInv, Coupon!TypeOK
  <2> QED
    BY <2>1, <2>3, <2>4, <2>5, <2>6 DEF CouponInv
<1>2. CASE Coupon!Allowed(c, u)
  <2>1. /\ customers' = [customers EXCEPT ![c][u] = Coupon!Count(c, u) + 1]
        /\ redeemed' = [redeemed EXCEPT ![c] = redeemed[c] + 1]
        /\ limits' = limits /\ limits[c] # Nobody /\ redeemed[c] < limits[c].all
    BY <1>2 DEF Coupon!RedeemCoupon
  <2>2. limits[c].all \in 1 .. MaxRedemptions /\ limits[c].each \in 1 .. MaxRedemptions
        /\ redeemed[c] \in 0 .. MaxRedemptions
    BY <2>1 DEF CouponInv, Coupon!TypeOK
  <2>3. redeemed[c] + 1 <= limits[c].all /\ redeemed[c] + 1 \in 0 .. MaxRedemptions
    BY <2>1, <2>2, CouponAssumption
  <2>4. Coupon!Count(c, u) + 1 \in 1 .. MaxRedemptions /\ Coupon!Count(c, u) + 1 <= limits[c].each
    <3>1. Coupon!Count(c, u) \in 0 .. MaxRedemptions
      BY CouponAssumption DEF CouponInv, Coupon!TypeOK, Coupon!Count
    <3> QED
      BY <1>2, <2>2, <3>1, CouponAssumption DEF Coupon!Allowed
  <2>5. Coupon!TypeOK'
    BY <1>2, <2>1, <2>3, OneMoreRedemption DEF CouponInv, Coupon!TypeOK
  <2>7. \A d \in Coupons, v \in Customers :
          Coupon!Count(d, v)' = IF d = c /\ v = u THEN Coupon!Count(c, u) + 1 ELSE Coupon!Count(d, v)
    BY <1>2, <2>1, OneMoreRedemption
  <2>6. ASSUME NEW d \in Coupons
        PROVE  /\ redeemed'[d] = Cardinality(Coupon!Redemptions(d)')
               /\ IF limits'[d] = Nobody
                  THEN \A v \in Customers : customers'[d][v] = Nobody
                  ELSE /\ redeemed'[d] <= limits'[d].all
                       /\ \A v \in Customers : Coupon!Count(d, v)' <= limits'[d].each
    <3>1. CASE d = c
      <4>1. redeemed'[c] = redeemed[c] + 1
        BY <2>1 DEF CouponInv, Coupon!TypeOK
      <4>2. redeemed'[c] = Cardinality(Coupon!Redemptions(c)')
        BY <1>2, <2>1, <4>1, OneMoreRedemption DEF CouponInv
      <4>3. \A v \in Customers : Coupon!Count(c, v)' <= limits[c].each
        <5> SUFFICES ASSUME NEW v \in Customers PROVE Coupon!Count(c, v)' <= limits[c].each
          OBVIOUS
        <5>1. Coupon!Count(c, v)' = IF v = u THEN Coupon!Count(c, u) + 1 ELSE Coupon!Count(c, v)
          BY <2>7
        <5>2. Coupon!Count(c, v) <= limits[c].each /\ Coupon!Count(c, v) \in 0 .. MaxRedemptions
          BY <2>1, CouponAssumption DEF CouponInv, Coupon!TypeOK, Coupon!Count
        <5>3. CASE v = u
          <6>1. Coupon!Count(c, v)' = Coupon!Count(c, u) + 1
            BY <5>1, <5>3
          <6> QED
            BY <2>4, <6>1
        <5>4. CASE v # u
          BY <5>1, <5>2, <5>4
        <5> QED
          BY <5>3, <5>4
      <4> QED
        BY <2>1, <2>3, <3>1, <4>1, <4>2, <4>3
    <3>2. CASE d # c
      <4>1. redeemed'[d] = redeemed[d] /\ limits'[d] = limits[d] /\ Coupon!Redemptions(d)' = Coupon!Redemptions(d)
        BY <1>2, <2>1, <3>2, OneMoreRedemption DEF CouponInv, Coupon!TypeOK
      <4>2. \A v \in Customers : customers'[d][v] = customers[d][v]
        BY <2>1, <3>2 DEF CouponInv, Coupon!TypeOK
      <4>3. \A v \in Customers : Coupon!Count(d, v)' = Coupon!Count(d, v)
        BY <4>2 DEF Coupon!Count
      <4> QED
        BY <4>1, <4>2, <4>3 DEF CouponInv
    <3> QED
      BY <3>1, <3>2
  <2> QED
    BY <2>5, <2>6 DEF CouponInv
<1> QED
  BY <1>1, <1>2

LEMMA CouponStep == CouponInv /\ [Coupon!Next]_(Coupon!couponVars) => CouponInv'
<1> SUFFICES ASSUME CouponInv, [Coupon!Next]_(Coupon!couponVars) PROVE CouponInv'
  OBVIOUS
<1>1. CASE UNCHANGED Coupon!couponVars
  BY <1>1 DEF Coupon!couponVars, CouponInv, Coupon!TypeOK, Coupon!Redemptions, Coupon!Count
<1> QED
  BY <1>1, CouponCreate, CouponRedeem DEF Coupon!Next

LEMMA CouponSound == Coupon!Spec => []CouponInv
  BY CouponInit, CouponStep, PTL DEF Coupon!Spec

LEMMA CouponCounted == CouponInv => Coupon!LimitsKept
  BY Counts DEF CouponInv, Coupon!LimitsKept

--------------------------------------------------------------------------------
(* Merchants.  A merchant without an entry has no charges, and one with an *)
(* entry has its lock or is the one that a thread registers, whoever       *)
(* charges meanwhile.                                                      *)
MerchantInv ==
  /\ Merchant!TypeOK /\ Merchant!CapsKept
  /\ \A m \in Merchants :
       IF cap[m] = 0
       THEN spent[m] = 0
       ELSE m \in locks \/ \E t \in Chargers : Merchant!InStep(t, "register") /\ charging[t].merchant = m

LEMMA MerchantInit == Merchant!Init => MerchantInv
  BY MerchantAssumption
  DEF Merchant!Init, MerchantInv, Merchant!TypeOK, Merchant!CapsKept, Merchant!InStep

LEMMA MerchantAmounts == Merchant!TypeOK => \A m \in Merchants : cap[m] \in Nat /\ spent[m] \in Nat
<1> SUFFICES ASSUME Merchant!TypeOK, NEW m \in Merchants PROVE cap[m] \in Nat /\ spent[m] \in Nat
  OBVIOUS
<1>1. cap[m] \in Cents \cup {0} /\ spent[m] \in Nat
  BY DEF Merchant!TypeOK
<1>2. Cents \subseteq Nat
  BY MerchantAssumption
<1> DEFINE c == cap[m]
           s == spent[m]
<1>3. c \in Cents \cup {0} /\ s \in Nat
  BY <1>1
<1> HIDE DEF c, s
<1>4. c \in Nat /\ s \in Nat
  BY <1>2, <1>3
<1> QED
  BY <1>4 DEF c, s

LEMMA MerchantStep == MerchantInv /\ [Merchant!Next]_(Merchant!merchantVars) => MerchantInv'
<1> SUFFICES ASSUME MerchantInv, [Merchant!Next]_(Merchant!merchantVars) PROVE MerchantInv'
  OBVIOUS
<1> USE MerchantAssumption DEF MerchantInv, Merchant!TypeOK, Merchant!InStep
<1>1. ASSUME NEW t \in Chargers, NEW m \in Merchants, NEW c \in Cents, Merchant!RegisterEntry(t, m, c)
      PROVE  MerchantInv'
  <2>1. [step |-> "register", merchant |-> m] \in Merchant!MerchantCalls
    BY DEF Merchant!MerchantCalls
  <2>2. [step |-> "register", merchant |-> m] # Nobody
    OBVIOUS
  <2>3. c \in Nat /\ c > 0 /\ c # 0 /\ cap[m] = 0 /\ charging[t] = Nobody
    BY <1>1 DEF Merchant!RegisterEntry
  <2>4. Merchant!TypeOK'
    BY <1>1, <2>1 DEF Merchant!RegisterEntry
  <2>5. Merchant!CapsKept'
    BY <1>1, <2>3 DEF Merchant!RegisterEntry, Merchant!CapsKept
  <2>6. ASSUME NEW n \in Merchants
        PROVE  IF cap'[n] = 0
               THEN spent'[n] = 0
               ELSE n \in locks' \/ \E s \in Chargers : Merchant!InStep(s, "register")' /\ charging'[s].merchant = n
    <3>1. CASE n = m
      BY <1>1, <2>2, <2>3, <3>1 DEF Merchant!RegisterEntry
    <3>2. CASE n # m
      BY <1>1, <2>3, <3>2 DEF Merchant!RegisterEntry
    <3> QED
      BY <3>1, <3>2
  <2> QED
    BY <2>4, <2>5, <2>6
<1>2. ASSUME NEW t \in Chargers, Merchant!RegisterLock(t) PROVE MerchantInv'
  <2>1. charging[t].merchant \in Merchants
    BY <1>2 DEF Merchant!RegisterLock, Merchant!MerchantCalls
  <2>2. Merchant!TypeOK'
    BY <1>2, <2>1 DEF Merchant!RegisterLock
  <2>3. Merchant!CapsKept'
    BY <1>2 DEF Merchant!RegisterLock, Merchant!CapsKept
  <2> QED
    BY <1>2, <2>2, <2>3 DEF Merchant!RegisterLock
\* Whoever finds an entry finds it with its lock, since nobody is registering one.
<1>3. ASSUME NEW t \in Chargers, NEW m \in Merchants, NEW a \in Cents, Merchant!FindMerchant(t, m, a)
      PROVE  MerchantInv'
  <2>1. [step |-> "charge", merchant |-> m, amount |-> a] \in Merchant!MerchantCalls
    BY DEF Merchant!MerchantCalls
  <2>2. m \in locks
    BY <1>3 DEF Merchant!FindMerchant, Merchant!RepoFree
  <2>3. Merchant!TypeOK'
    BY <1>3, <2>1 DEF Merchant!FindMerchant
  <2>4. Merchant!CapsKept'
    BY <1>3, <2>2 DEF Merchant!FindMerchant, Merchant!CapsKept
  <2> QED
    BY <1>3, <2>3, <2>4 DEF Merchant!FindMerchant
<1>4. ASSUME NEW t \in Chargers, Merchant!ChargeMerchant(t) PROVE MerchantInv'
  <2> DEFINE m == charging[t].merchant
             a == charging[t].amount
  <2>1. m \in Merchants /\ a \in Nat /\ charging[t].step = "charge" /\ charging[t] # Nobody
    BY <1>4 DEF Merchant!ChargeMerchant, Merchant!MerchantCalls
  <2>2. cap[m] \in Nat /\ spent[m] \in Nat /\ spent[m] + a \in Nat
    <3>1. cap[m] \in Nat /\ spent[m] \in Nat
      <4> HIDE DEF m
      <4> QED
        BY <2>1, MerchantAmounts
    <3> HIDE DEF m, a
    <3> QED
      BY <2>1, <3>1
  <2>3. \/ spent' = spent
        \/ spent' = [spent EXCEPT ![m] = spent[m] + a] /\ spent[m] + a < cap[m]
    <3>1. spent[m] + a >= cap[m] \/ spent[m] + a < cap[m]
      <4> HIDE DEF m, a
      <4> QED
        BY <2>2
    <3> QED
      BY <1>4, <3>1 DEF Merchant!ChargeMerchant, Merchant!IsAmountExceeded
  <2>4. charging' = [charging EXCEPT ![t] = Nobody] /\ UNCHANGED <<cap, locks>>
    BY <1>4 DEF Merchant!ChargeMerchant
  <2>5. spent' \in [Merchants -> Nat]
    BY <2>2, <2>3
  <2>6. \A n \in Merchants : spent'[n] = spent[n] \/ (n = m /\ spent'[n] <= cap[n] /\ cap[n] # 0)
    <3> HIDE DEF m, a, MerchantInv
    <3>1. spent[m] + a < cap[m] => cap[m] # 0
      BY <2>1, <2>2
    <3>2. \A n \in Merchants : spent'[n] = spent[n] \/ (n = m /\ spent'[n] = spent[m] + a /\ spent[m] + a < cap[m])
      <4> USE DEF MerchantInv
      <4> QED
        BY <2>1, <2>3
    <3>3. ASSUME NEW n \in Merchants, spent'[n] # spent[n]
          PROVE  n = m /\ spent'[n] <= cap[n] /\ cap[n] # 0
      <4>1. n = m /\ spent'[m] = spent[m] + a /\ spent[m] + a < cap[m]
        BY <3>2, <3>3
      <4>2. cap[m] # 0 /\ spent'[m] <= cap[m]
        BY <2>2, <3>1, <4>1
      <4> QED
        BY <4>1, <4>2
    <3> QED
      BY <3>3, Zenon
  <2>7. Merchant!CapsKept'
    BY <2>4, <2>6 DEF Merchant!CapsKept
  <2>8. ASSUME NEW n \in Merchants
        PROVE  IF cap'[n] = 0
               THEN spent'[n] = 0
               ELSE n \in locks' \/ \E s \in Chargers : Merchant!InStep(s, "register")' /\ charging'[s].merchant = n
    BY <2>1, <2>4, <2>6
  <2> QED
    BY <2>4, <2>5, <2>7, <2>8
<1>5. CASE UNCHANGED Merchant!merchantVars
  BY <1>5 DEF Merchant!merchantVars, Merchant!CapsKept
<1> QED
  BY <1>1, <1>2, <1>3, <1>4, <1>5 DEF Merchant!Next

LEMMA MerchantSound == Merchant!Spec => []MerchantInv
  BY MerchantInit, MerchantStep, PTL DEF Merchant!Spec
--------------------------------------------------------------------------------
(* Promo codes.  The redemptions of a code are those of its users, one for *)
(* each, so the size of the set that redeem compares with the limit counts *)
(* them, whatever the order of the times that the threads came with.       *)
PromoInv ==
  /\ Promo!TypeOK
  /\ \A p \in Promos :
       IF promo[p] = Nobody
       THEN \A r : r \notin redeemedAt[p]
       ELSE /\ \A r \in redeemedAt[p] :
                 r[1] \in promo[p].users /\ r[2] <= promo[p].createdAt + promo[p].days
            /\ \A r, q \in redeemedAt[p] : r[1] = q[1] => r = q
            /\ Cardinality(redeemedAt[p]) = Cardinality(promo[p].users)
            /\ Cardinality(promo[p].users) <= promo[p].max

LEMMA PromoFinite ==
  ASSUME Promo!TypeOK, NEW p \in Promos
  PROVE  /\ IsFiniteSet(redeemedAt[p]) /\ Cardinality(redeemedAt[p]) \in Nat
         /\ promo[p] # Nobody => IsFiniteSet(promo[p].users) /\ Cardinality(promo[p].users) \in Nat
<1>1. IsFiniteSet(1 .. PromoTime)
  BY FS_Interval, PromoAssumption
<1>2. IsFiniteSet(Users \X (1 .. PromoTime))
  BY <1>1, FS_Product, PromoAssumption
<1>3. redeemedAt[p] \in SUBSET (Users \X (1 .. PromoTime))
  BY DEF Promo!TypeOK
<1>4. promo[p] # Nobody => promo[p].users \in SUBSET Users
  BY DEF Promo!TypeOK
<1> QED
  BY <1>2, <1>3, <1>4, FS_Subset, FS_CardinalityType, PromoAssumption

LEMMA PromoInit == Promo!Init => PromoInv
  BY PromoAssumption DEF Promo!Init, PromoInv, Promo!TypeOK

LEMMA PromoCreate ==
  ASSUME PromoInv, NEW t \in Redeemers, NEW p \in Promos, NEW max \in Limits, NEW days \in Durations,
         Promo!CreatePromoCode(t, p, max, days)
  PROVE  PromoInv'
<1> USE PromoAssumption DEF PromoInv, Promo!TypeOK
<1> DEFINE made == [max |-> max, days |-> days, createdAt |-> pNow[t], users |-> {}]
<1>1. made \in [max : Limits, days : Durations, createdAt : 1 .. PromoTime, users : SUBSET Users]
      /\ made # Nobody
  BY DEF Promo!CreatePromoCode
<1>2. /\ promo' = [promo EXCEPT ![p] = made] /\ promo[p] = Nobody
      /\ pNow' = [pNow EXCEPT ![t] = Nobody] /\ UNCHANGED <<pClock, redeemedAt>>
  BY DEF Promo!CreatePromoCode, Promo!Leave
<1>3. Promo!TypeOK'
  <2> HIDE DEF made
  <2> QED
    BY <1>1, <1>2
<1>4. \A r : r \notin redeemedAt[p]
  BY <1>2
<1>5. Cardinality(redeemedAt[p]) = 0 /\ Cardinality(made.users) = 0
  <2>1. \A u : u \notin made.users
    OBVIOUS
  <2> QED
    BY <1>4, <2>1, NoneCounted
<1>6. max \in Nat
  OBVIOUS
<1>7. ASSUME NEW c \in Promos
      PROVE  IF promo'[c] = Nobody
             THEN \A r : r \notin redeemedAt'[c]
             ELSE /\ \A r \in redeemedAt'[c] :
                       r[1] \in promo'[c].users /\ r[2] <= promo'[c].createdAt + promo'[c].days
                  /\ \A r, q \in redeemedAt'[c] : r[1] = q[1] => r = q
                  /\ Cardinality(redeemedAt'[c]) = Cardinality(promo'[c].users)
                  /\ Cardinality(promo'[c].users) <= promo'[c].max
  <2>1. CASE c = p
    <3>1. promo'[c] = made /\ redeemedAt'[c] = redeemedAt[p] /\ made.max = max
      BY <1>2, <2>1
    <3>2. Cardinality(made.users) <= made.max
      BY <1>5, <1>6, <3>1
    <3> HIDE DEF made
    <3> QED
      BY <1>1, <1>4, <1>5, <3>1, <3>2
  <2>2. CASE c # p
    <3>1. promo'[c] = promo[c] /\ redeemedAt'[c] = redeemedAt[c]
      BY <1>2, <2>2
    <3> QED
      BY <3>1
  <2> QED
    BY <2>1, <2>2
<1> QED
  BY <1>3, <1>7

LEMMA PromoRedeem ==
  ASSUME PromoInv, NEW t \in Redeemers, NEW p \in Promos, NEW u \in Users,
         pNow[t] # Nobody, promo[p] # Nobody, Promo!Redeemable(p, u, pNow[t]),
         promo' = [promo EXCEPT ![p].users = @ \cup {u}],
         redeemedAt' = [redeemedAt EXCEPT ![p] = @ \cup {<<u, pNow[t]>>}],
         Promo!Leave(t)
  PROVE  PromoInv'
<1> USE PromoAssumption DEF PromoInv, Promo!TypeOK
<1> DEFINE code == [promo[p] EXCEPT !.users = promo[p].users \cup {u}]
           entry == <<u, pNow[t]>>
<1>1. promo[p] \in [max : Limits, days : Durations, createdAt : 1 .. PromoTime, users : SUBSET Users]
      /\ pNow[t] \in 1 .. PromoTime
  OBVIOUS
<1>2. /\ code \in [max : Limits, days : Durations, createdAt : 1 .. PromoTime, users : SUBSET Users]
      /\ code # Nobody /\ code.max = promo[p].max /\ code.days = promo[p].days
      /\ code.createdAt = promo[p].createdAt /\ code.users = promo[p].users \cup {u}
  BY <1>1
<1>3. entry \in Users \X (1 .. PromoTime) /\ entry[1] = u /\ entry[2] = pNow[t]
  BY <1>1
<1>4. /\ promo' = [promo EXCEPT ![p] = code]
      /\ redeemedAt' = [redeemedAt EXCEPT ![p] = redeemedAt[p] \cup {entry}]
      /\ pNow' = [pNow EXCEPT ![t] = Nobody] /\ UNCHANGED pClock
  BY DEF Promo!Leave
<1>5. Promo!TypeOK'
  <2> HIDE DEF code, entry
  <2> QED
    BY <1>2, <1>3, <1>4
<1>6. /\ u \notin promo[p].users /\ Cardinality(promo[p].users) # promo[p].max
      /\ pNow[t] <= promo[p].createdAt + promo[p].days
  <2>1. promo[p].createdAt \in Int /\ promo[p].days \in Int /\ pNow[t] \in Int
    BY <1>1
  <2>2. promo[p].createdAt + promo[p].days >= pNow[t]
    BY DEF Promo!Redeemable
  <2> QED
    BY <2>1, <2>2, Counts DEF Promo!Redeemable
<1>7. entry \notin redeemedAt[p]
  BY <1>3, <1>6
<1>8. /\ Cardinality(redeemedAt[p] \cup {entry}) = Cardinality(redeemedAt[p]) + 1
      /\ Cardinality(code.users) = Cardinality(promo[p].users) + 1
  <2>1. IsFiniteSet(redeemedAt[p]) /\ IsFiniteSet(promo[p].users)
    BY PromoFinite
  <2>2. code.users = promo[p].users \cup {u} /\ u \notin promo[p].users
    BY <1>2, <1>6
  <2> HIDE DEF entry, code, PromoInv
  <2>3. Cardinality(redeemedAt[p] \cup {entry}) = Cardinality(redeemedAt[p]) + 1
    BY <1>7, <2>1, AddOne
  <2>4. Cardinality(promo[p].users \cup {u}) = Cardinality(promo[p].users) + 1
    BY <2>1, <2>2, AddOne
  <2> QED
    BY <2>2, <2>3, <2>4
<1>9. Cardinality(promo[p].users) + 1 <= promo[p].max
  <2>1. Cardinality(promo[p].users) \in Nat /\ promo[p].max \in Nat /\ Cardinality(promo[p].users) <= promo[p].max
    BY <1>1, PromoFinite
  <2> HIDE DEF PromoInv
  <2> QED
    BY <1>6, <2>1
<1>10. ASSUME NEW c \in Promos
      PROVE  IF promo'[c] = Nobody
             THEN \A r : r \notin redeemedAt'[c]
             ELSE /\ \A r \in redeemedAt'[c] :
                       r[1] \in promo'[c].users /\ r[2] <= promo'[c].createdAt + promo'[c].days
                  /\ \A r, q \in redeemedAt'[c] : r[1] = q[1] => r = q
                  /\ Cardinality(redeemedAt'[c]) = Cardinality(promo'[c].users)
                  /\ Cardinality(promo'[c].users) <= promo'[c].max
  <2>1. CASE c = p
    <3>1. promo'[c] = code /\ redeemedAt'[c] = redeemedAt[p] \cup {entry}
      BY <1>4, <2>1
    <3>2. \A r \in redeemedAt[p] : r[1] \in code.users /\ r[2] <= code.createdAt + code.days
      BY <1>2
    <3>3. \A r \in redeemedAt[p] : r[1] # entry[1]
      BY <1>3, <1>6
    <3>4. \A r, q \in redeemedAt[p] : r[1] = q[1] => r = q
      OBVIOUS
    <3>5. Cardinality(redeemedAt[p]) = Cardinality(promo[p].users)
      OBVIOUS
    <3>6. entry[1] \in code.users /\ entry[2] <= code.createdAt + code.days
      BY <1>2, <1>3, <1>6
    <3> HIDE DEF code, entry, PromoInv
    <3>7. \A r \in redeemedAt'[c] : r[1] \in code.users /\ r[2] <= code.createdAt + code.days
      BY <3>1, <3>2, <3>6
    <3>8. \A r, q \in redeemedAt'[c] : r[1] = q[1] => r = q
      BY <3>1, <3>3, <3>4
    <3>9. Cardinality(redeemedAt'[c]) = Cardinality(code.users) /\ Cardinality(code.users) <= code.max
      BY <1>2, <1>8, <1>9, <3>1, <3>5
    <3> QED
      BY <1>2, <3>1, <3>7, <3>8, <3>9
  <2>2. CASE c # p
    <3>1. promo'[c] = promo[c] /\ redeemedAt'[c] = redeemedAt[c]
      BY <1>4, <2>2
    <3> QED
      BY <3>1
  <2> QED
    BY <2>1, <2>2
<1> QED
  BY <1>5, <1>10

LEMMA PromoStep == PromoInv /\ [Promo!Next]_(Promo!promoVars) => PromoInv'
<1> SUFFICES ASSUME PromoInv, [Promo!Next]_(Promo!promoVars) PROVE PromoInv'
  OBVIOUS
<1>1. ASSUME UNCHANGED <<promo, redeemedAt>>, pClock' \in 1 .. PromoTime,
             pNow' \in [Redeemers -> (1 .. PromoTime) \cup {Nobody}]
      PROVE  PromoInv'
  BY <1>1 DEF PromoInv, Promo!TypeOK
<1>2. CASE Promo!Tick
  <2>1. pClock \in 1 .. PromoTime /\ pClock < PromoTime /\ pClock' = pClock + 1
    BY <1>2 DEF Promo!Tick, PromoInv, Promo!TypeOK
  <2>2. pClock' \in 1 .. PromoTime
    BY <2>1, PromoAssumption
  <2> QED
    BY <1>1, <1>2, <2>2 DEF Promo!Tick, PromoInv, Promo!TypeOK
<1>3. ASSUME NEW t \in Redeemers, Promo!ReadClock(t) PROVE PromoInv'
  BY <1>1, <1>3 DEF Promo!ReadClock, PromoInv, Promo!TypeOK
<1>4. ASSUME NEW t \in Redeemers, NEW p \in Promos, NEW u \in Users, Promo!RedeemPromoCode(t, p, u)
      PROVE  PromoInv'
  <2>1. CASE Promo!Redeemable(p, u, pNow[t])
    BY <1>4, <2>1, PromoRedeem DEF Promo!RedeemPromoCode
  <2>2. CASE ~Promo!Redeemable(p, u, pNow[t])
    BY <1>1, <1>4, <2>2 DEF Promo!RedeemPromoCode, Promo!Leave, PromoInv, Promo!TypeOK
  <2> QED
    BY <2>1, <2>2
<1>5. CASE UNCHANGED Promo!promoVars
  BY <1>1, <1>5 DEF Promo!promoVars, PromoInv, Promo!TypeOK
<1> QED
  BY <1>2, <1>3, <1>4, <1>5, PromoCreate DEF Promo!Next

LEMMA PromoSound == Promo!Spec => []PromoInv
  BY PromoInit, PromoStep, PTL DEF Promo!Spec

LEMMA PromoCounted == PromoInv => Promo!PromosKept
<1> SUFFICES ASSUME PromoInv, NEW p \in Promos, promo[p] # Nobody
             PROVE  /\ Cardinality(redeemedAt[p]) <= promo[p].max
                    /\ \A r, q \in redeemedAt[p] : r[1] = q[1] => r = q
                    /\ \A r \in redeemedAt[p] : r[2] <= promo[p].createdAt + promo[p].days
  BY Counts DEF Promo!PromosKept
<1> QED
  BY DEF PromoInv
--------------------------------------------------------------------------------
(* Client quotas.  The requests that a client keeps are the last of those  *)
(* accepted, and those it dropped are over at any later time too, since    *)
(* the clock does not turn back.  A request is accepted when fewer than    *)
(* the quota are kept, so the one as far back as the quota was dropped.    *)
Windowed(A, R, q, w, time) ==
  /\ A \in Seq(1 .. time) /\ R \in Seq(1 .. time)
  /\ Len(R) <= Len(A) /\ Len(R) <= q
  /\ \A i \in 1 .. Len(R) : R[i] = A[Len(A) - Len(R) + i]
  /\ \A i \in 1 .. Len(A) : i <= Len(A) - Len(R) => A[i] < time - w
  /\ \A i, j \in 1 .. Len(A) : j >= i + q => A[j] > A[i] + w

LEMMA WindowedLater ==
  ASSUME NEW q \in Nat, NEW w \in Nat, NEW time \in Nat, NEW A, NEW R, Windowed(A, R, q, w, time)
  PROVE  Windowed(A, R, q, w, time + 1)
<1>1. A \in Seq(1 .. time) /\ R \in Seq(1 .. time) /\ Len(A) \in Nat /\ Len(R) \in Nat
  BY DEF Windowed
<1>2. \A i \in 1 .. Len(A) : A[i] \in 1 .. time
  BY <1>1
<1>3. A \in Seq(1 .. time + 1) /\ R \in Seq(1 .. time + 1)
  BY <1>1
<1>4. \A i \in 1 .. Len(A) : i <= Len(A) - Len(R) => A[i] < time + 1 - w
  BY <1>2 DEF Windowed
<1> QED
  BY <1>3, <1>4 DEF Windowed

\* What bisect_left keeps are again the last of those accepted.
LEMMA WindowedCut ==
  ASSUME NEW q \in Nat, NEW w \in Nat, NEW time \in Nat, NEW A, NEW R, Windowed(A, R, q, w, time),
         NEW n \in 0 .. Len(R), \A i \in 1 .. Len(R) : i <= n => R[i] < time - w
  PROVE  /\ Windowed(A, SubSeq(R, n + 1, Len(R)), q, w, time)
         /\ Len(SubSeq(R, n + 1, Len(R))) = Len(R) - n
<1> DEFINE cut == SubSeq(R, n + 1, Len(R))
<1>1. A \in Seq(1 .. time) /\ R \in Seq(1 .. time) /\ Len(A) \in Nat /\ Len(R) \in Nat
      /\ Len(R) <= Len(A) /\ Len(R) <= q
  BY DEF Windowed
<1>2. cut \in Seq(1 .. time) /\ Len(cut) = Len(R) - n
  BY <1>1
<1>3. \A i \in 1 .. Len(R) - n : cut[i] = R[n + i]
  BY <1>1
<1>4. ASSUME NEW i \in 1 .. Len(R) - n PROVE cut[i] = A[Len(A) - (Len(R) - n) + i]
  <2>1. n + i \in 1 .. Len(R) /\ Len(A) - (Len(R) - n) + i = Len(A) - Len(R) + (n + i)
    BY <1>1
  <2>2. R[n + i] = A[Len(A) - Len(R) + (n + i)]
    BY <2>1 DEF Windowed
  <2> QED
    BY <1>3, <2>1, <2>2
<1>5. ASSUME NEW i \in 1 .. Len(A), i <= Len(A) - (Len(R) - n) PROVE A[i] < time - w
  <2>1. CASE i <= Len(A) - Len(R)
    BY <2>1 DEF Windowed
  <2>2. CASE i > Len(A) - Len(R)
    <3> DEFINE k == i - (Len(A) - Len(R))
    <3>1. k \in 1 .. Len(R) /\ k <= n /\ Len(A) - Len(R) + k = i
      BY <1>1, <1>5, <2>2
    <3>2. R[k] = A[i] /\ R[k] < time - w
      BY <3>1 DEF Windowed
    <3> QED
      BY <3>2
  <2> QED
    BY <1>1, <2>1, <2>2
<1>6. Len(cut) <= Len(A) /\ Len(cut) <= q
  BY <1>1, <1>2
<1> HIDE DEF cut
<1>7. Windowed(A, cut, q, w, time)
  BY <1>1, <1>2, <1>4, <1>5, <1>6 DEF Windowed
<1> QED
  BY <1>2, <1>7 DEF cut

LEMMA WindowedAppend ==
  ASSUME NEW q \in Nat, NEW w \in Nat, NEW time \in Nat \ {0}, NEW A, NEW R,
         Windowed(A, R, q, w, time), Len(R) < q
  PROVE  Windowed(Append(A, time), Append(R, time), q, w, time)
<1> DEFINE more == Append(A, time)
           kept == Append(R, time)
<1>1. A \in Seq(1 .. time) /\ R \in Seq(1 .. time) /\ Len(A) \in Nat /\ Len(R) \in Nat
      /\ Len(R) <= Len(A) /\ Len(R) <= q /\ time \in 1 .. time
  BY DEF Windowed
<1>2. /\ more \in Seq(1 .. time) /\ Len(more) = Len(A) + 1 /\ more[Len(A) + 1] = time
      /\ \A i \in 1 .. Len(A) : more[i] = A[i]
  BY <1>1
<1>3. /\ kept \in Seq(1 .. time) /\ Len(kept) = Len(R) + 1 /\ kept[Len(R) + 1] = time
      /\ \A i \in 1 .. Len(R) : kept[i] = R[i]
  BY <1>1
<1> HIDE DEF more, kept
<1>4. ASSUME NEW i \in 1 .. Len(kept) PROVE kept[i] = more[Len(more) - Len(kept) + i]
  <2>1. Len(more) - Len(kept) + i = Len(A) - Len(R) + i
    BY <1>1, <1>2, <1>3
  <2>2. CASE i = Len(R) + 1
    <3>1. Len(A) - Len(R) + i = Len(A) + 1
      BY <1>1, <2>2
    <3> QED
      BY <1>2, <1>3, <2>1, <2>2, <3>1
  <2>3. CASE i \in 1 .. Len(R)
    <3>1. Len(A) - Len(R) + i \in 1 .. Len(A)
      BY <1>1, <2>3
    <3>2. R[i] = A[Len(A) - Len(R) + i]
      BY <2>3 DEF Windowed
    <3> QED
      BY <1>2, <1>3, <2>1, <2>3, <3>1, <3>2
  <2> QED
    BY <1>1, <1>3, <2>2, <2>3
<1>5. ASSUME NEW i \in 1 .. Len(more), i <= Len(more) - Len(kept) PROVE more[i] < time - w
  <2>1. i \in 1 .. Len(A) /\ i <= Len(A) - Len(R)
    <3>1. Len(more) - Len(kept) = Len(A) - Len(R)
      BY <1>1, <1>2, <1>3
    <3>2. i \in Nat /\ i >= 1 /\ i <= Len(A) - Len(R)
      BY <1>5, <1>2, <1>1, <3>1
    <3> QED
      BY <1>1, <3>2
  <2>2. A[i] < time - w
    BY <2>1 DEF Windowed
  <2>3. more[i] = A[i]
    BY <1>2, <2>1
  <2> QED
    BY <2>2, <2>3
<1>6. ASSUME NEW i \in 1 .. Len(more), NEW j \in 1 .. Len(more), j >= i + q PROVE more[j] > more[i] + w
  <2>1. i \in 1 .. Len(A)
    BY <1>1, <1>2, <1>6
  <2>2. more[i] = A[i] /\ A[i] \in 1 .. time
    <3>1. more[i] = A[i]
      BY <1>2, <2>1
    <3>2. A[i] \in 1 .. time
      BY <1>1, <2>1
    <3> QED
      BY <3>1, <3>2
  <2>3. CASE j = Len(A) + 1
    <3>1. i <= Len(A) - Len(R)
      BY <1>1, <1>6, <2>1, <2>3
    <3>2. A[i] < time - w
      BY <2>1, <3>1 DEF Windowed
    <3>3. more[j] = time
      BY <1>2, <2>3
    <3> QED
      BY <2>2, <3>2, <3>3
  <2>4. CASE j \in 1 .. Len(A)
    BY <1>2, <1>6, <2>1, <2>2, <2>4 DEF Windowed
  <2> QED
    BY <1>1, <1>2, <2>3, <2>4
<1>7. Len(kept) <= Len(more) /\ Len(kept) <= q
  BY <1>1, <1>2, <1>3
<1>8. Windowed(more, kept, q, w, time)
  BY <1>2, <1>3, <1>4, <1>5, <1>6, <1>7 DEF Windowed
<1> QED
  BY <1>8 DEF more, kept

QuotaInv ==
  /\ quota \in [Clients -> [quota : Quotas \cup {0}, window : Windows \cup {0}]]
  /\ qClock \in 1 .. QuotaTime
  /\ DOMAIN requests = Clients /\ DOMAIN accepted = Clients
  /\ requests = [c \in Clients |-> requests[c]] /\ accepted = [c \in Clients |-> accepted[c]]
  /\ \A c \in Clients :
       /\ Windowed(accepted[c], requests[c], quota[c].quota, quota[c].window, qClock)
       /\ quota[c].quota = 0 => accepted[c] = <<>>

LEMMA QuotaConstants ==
  ASSUME QuotaInv, NEW c \in Clients
  PROVE  quota[c].quota \in Nat /\ quota[c].window \in Nat /\ qClock \in Nat \ {0}
<1>1. quota[c].quota \in Quotas \cup {0} /\ quota[c].window \in Windows \cup {0}
  BY DEF QuotaInv
<1>2. \A n \in Quotas \cup {0} : n \in Nat
  BY QuotaAssumption
<1>3. \A n \in Windows \cup {0} : n \in Nat
  BY QuotaAssumption
<1>4. qClock \in Nat \ {0}
  BY QuotaAssumption DEF QuotaInv
<1> QED
  BY <1>1, <1>2, <1>3, <1>4

LEMMA QuotaInit == Quota!Init => QuotaInv
<1> SUFFICES ASSUME Quota!Init PROVE QuotaInv
  OBVIOUS
<1>1. \A w : Windowed(<<>>, <<>>, 0, w, 1)
  BY DEF Windowed
<1> QED
  BY <1>1, QuotaAssumption DEF Quota!Init, QuotaInv

LEMMA QuotaStep == QuotaInv /\ [Quota!Next]_(Quota!quotaVars) => QuotaInv'
<1> SUFFICES ASSUME QuotaInv, [Quota!Next]_(Quota!quotaVars) PROVE QuotaInv'
  OBVIOUS
<1>1. ASSUME NEW c \in Clients, NEW q \in Quotas, NEW w \in Windows, Quota!CreateClient(c, q, w)
      PROVE  QuotaInv'
  <2> DEFINE client == [quota |-> q, window |-> w]
  <2>1. /\ client \in [quota : Quotas \cup {0}, window : Windows \cup {0}]
        /\ client.quota = q /\ client.window = w /\ q # 0 /\ q \in Nat /\ w \in Nat
    BY QuotaAssumption
  <2>2. quota' = [quota EXCEPT ![c] = client] /\ quota[c].quota = 0 /\ UNCHANGED <<requests, qClock, accepted>>
    BY <1>1 DEF Quota!CreateClient
  <2>3. accepted[c] = <<>> /\ Windowed(<<>>, requests[c], 0, quota[c].window, qClock)
    BY <2>2 DEF QuotaInv
  <2>4. Windowed(accepted[c], requests[c], q, w, qClock)
    BY <2>1, <2>3 DEF Windowed
  <2> HIDE DEF client
  <2> QED
    BY <2>1, <2>2, <2>4 DEF QuotaInv
<1>2. ASSUME NEW c \in Clients, Quota!RecordRequest(c) PROVE QuotaInv'
  <2> DEFINE A == accepted[c]
             R == requests[c]
  <2>1. quota[c].quota # 0 /\ UNCHANGED <<quota, qClock>>
    BY <1>2 DEF Quota!RecordRequest
  <2>2. Windowed(A, R, quota[c].quota, quota[c].window, qClock)
    BY DEF QuotaInv
  <2>3. R \in Seq(1 .. qClock) /\ DOMAIN R = 1 .. Len(R)
    BY <2>2 DEF Windowed
  <2>4. PICK n \in 0 .. Len(R) :
          LET inWindow == SubSeq(R, n + 1, Len(R)) IN
          /\ Quota!Over(c, n)
          /\ \/ /\ requests' = [requests EXCEPT ![c] = inWindow] /\ UNCHANGED accepted
             \/ /\ ~(Len(inWindow) >= quota[c].quota)
                /\ requests' = [requests EXCEPT ![c] = Append(inWindow, qClock)]
                /\ accepted' = [accepted EXCEPT ![c] = Append(A, qClock)]
    BY <1>2 DEF Quota!RecordRequest
  <2> DEFINE inWindow == SubSeq(R, n + 1, Len(R))
  <2>5. \A i \in 1 .. Len(R) : i <= n => R[i] < qClock - quota[c].window
    BY <2>3, <2>4 DEF Quota!Over
  <2>6. Windowed(A, inWindow, quota[c].quota, quota[c].window, qClock) /\ Len(inWindow) = Len(R) - n
    BY <2>2, <2>5, QuotaConstants, WindowedCut
  <2>7. Len(R) - n \in Nat
    BY <2>3
  <2> HIDE DEF A, R, inWindow
  <2>8. PICK A2, R2 : /\ requests' = [requests EXCEPT ![c] = R2]
                      /\ accepted' = [accepted EXCEPT ![c] = A2]
                      /\ Windowed(A2, R2, quota[c].quota, quota[c].window, qClock)
    <3>1. CASE requests' = [requests EXCEPT ![c] = inWindow] /\ UNCHANGED accepted
      <4>1. accepted' = [accepted EXCEPT ![c] = A]
        BY <3>1 DEF QuotaInv, A
      <4> QED
        BY <2>6, <3>1, <4>1
    <3>2. CASE /\ ~(Len(inWindow) >= quota[c].quota)
               /\ requests' = [requests EXCEPT ![c] = Append(inWindow, qClock)]
               /\ accepted' = [accepted EXCEPT ![c] = Append(A, qClock)]
      <4>1. Len(inWindow) < quota[c].quota
        BY <2>6, <2>7, <3>2, QuotaConstants
      <4>2. Windowed(Append(A, qClock), Append(inWindow, qClock), quota[c].quota, quota[c].window, qClock)
        BY <2>6, <4>1, QuotaConstants, WindowedAppend
      <4> QED
        BY <3>2, <4>2
    <3> QED
      BY <2>4, <3>1, <3>2 DEF inWindow
  <2>9. \A d \in Clients : IF d = c THEN requests'[d] = R2 /\ accepted'[d] = A2
                           ELSE requests'[d] = requests[d] /\ accepted'[d] = accepted[d]
    BY <2>8 DEF QuotaInv
  <2>10. /\ DOMAIN requests' = Clients /\ DOMAIN accepted' = Clients
         /\ requests' = [d \in Clients |-> requests'[d]] /\ accepted' = [d \in Clients |-> accepted'[d]]
    BY <2>8 DEF QuotaInv
  <2> QED
    BY <2>1, <2>8, <2>9, <2>10 DEF QuotaInv
<1>3. CASE Quota!Tick
  <2>1. qClock \in Nat /\ qClock' = qClock + 1 /\ qClock' \in 1 .. QuotaTime
    <3>1. qClock \in 1 .. QuotaTime /\ qClock < QuotaTime /\ qClock' = qClock + 1
      BY <1>3 DEF Quota!Tick, QuotaInv
    <3> QED
      BY <3>1, QuotaAssumption
  <2>2. UNCHANGED <<quota, requests, accepted>>
    BY <1>3 DEF Quota!Tick
  <2>3. \A c \in Clients : Windowed(accepted[c], requests[c], quota[c].quota, quota[c].window, qClock + 1)
    BY <2>1, QuotaConstants, WindowedLater DEF QuotaInv
  <2> QED
    BY <2>1, <2>2, <2>3 DEF QuotaInv
<1>4. CASE UNCHANGED Quota!quotaVars
  BY <1>4 DEF Quota!quotaVars, QuotaInv
<1> QED
  BY <1>1, <1>2, <1>3, <1>4 DEF Quota!Next

LEMMA QuotaSound == Quota!Spec => []QuotaInv
  BY QuotaInit, QuotaStep, PTL DEF Quota!Spec

LEMMA QuotaTyped == QuotaInv => Quota!TypeOK
<1> SUFFICES ASSUME QuotaInv PROVE Quota!TypeOK
  OBVIOUS
<1>1. \A S, T : S \subseteq T => \A s \in Seq(S) : s \in Seq(T)
  OBVIOUS
<1>2. 1 .. qClock \subseteq 1 .. QuotaTime
  BY QuotaAssumption DEF QuotaInv
<1>3. \A c \in Clients : /\ requests[c] \in Seq(1 .. QuotaTime) /\ accepted[c] \in Seq(1 .. QuotaTime)
                         /\ Len(requests[c]) <= quota[c].quota
  BY <1>1, <1>2 DEF QuotaInv, Windowed
<1> QED
  BY <1>3 DEF QuotaInv, Quota!TypeOK

LEMMA QuotaCounted == QuotaInv => Quota!QuotaHolds
<1> SUFFICES ASSUME QuotaInv, NEW c \in Clients
             PROVE  \A i, j \in DOMAIN accepted[c] :
                      j >= i + quota[c].quota => accepted[c][j] > accepted[c][i] + quota[c].window
  BY DEF Quota!QuotaHolds
<1>1. accepted[c] \in Seq(1 .. qClock) /\ DOMAIN accepted[c] = 1 .. Len(accepted[c])
  BY DEF QuotaInv, Windowed
<1> QED
  BY <1>1 DEF QuotaInv, Windowed
--------------------------------------------------------------------------------
(* The rate limiter.  What has been let through from b on and the tokens   *)
(* left are at most a full bucket, the time from b to the bucket's, and    *)
(* the time that was counted again.  A call takes its own bound with it:   *)
(* no stretch of time that ends before it gains anything.                  *)
Inside == {p \in Callers : now[p] # Nobody}

Passed(b, e) == Cardinality(Limiter!AllowedIn(b, e))

BucketInv ==
  /\ Limiter!TypeOK
  /\ \A t \in 1 .. LimiterTime : allowed[t] + Cardinality(Inside) <= calls
  /\ last = Nobody \/ inserted => \A t \in 1 .. LimiterTime : allowed[t] = 0
  /\ \A b, e \in 1 .. LimiterTime : b <= e =>
       /\ Passed(b, e) <= CAP + (e - b) + stale
       /\ Passed(b, e) = 0 \/ (last # Nobody /\ Passed(b, e) <= CAP + (last - b) - tokens + stale)

LEMMA InsideFinite == IsFiniteSet(Inside) /\ Cardinality(Inside) \in Nat
<1>1. Inside \in SUBSET Callers
  BY DEF Inside
<1> QED
  BY <1>1, FS_Subset, FS_CardinalityType, LimiterAssumption

LEMMA PassedFinite == \A b, e : IsFiniteSet(Limiter!AllowedIn(b, e)) /\ Passed(b, e) \in Nat
<1>1. IsFiniteSet(1 .. LimiterTime) /\ IsFiniteSet(1 .. MaxCalls)
  BY FS_Interval, LimiterAssumption
<1>2. IsFiniteSet((1 .. LimiterTime) \X (1 .. MaxCalls))
  BY <1>1, FS_Product
<1>3. \A b, e : Limiter!AllowedIn(b, e) \in SUBSET ((1 .. LimiterTime) \X (1 .. MaxCalls))
  BY DEF Limiter!AllowedIn
<1> QED
  BY <1>2, <1>3, FS_Subset, FS_CardinalityType DEF Passed

LEMMA NonePassed ==
  ASSUME \A t \in 1 .. LimiterTime : allowed[t] = 0
  PROVE  \A b, e : Passed(b, e) = 0
<1>1. \A b, e : \A k : k \notin Limiter!AllowedIn(b, e)
  BY DEF Limiter!AllowedIn
<1> QED
  BY <1>1, NoneCounted DEF Passed

\* Whoever leaves is one fewer inside.
LEMMA OneLeaves ==
  ASSUME BucketInv, NEW p \in Callers, now[p] # Nobody, now' = [now EXCEPT ![p] = Nobody]
  PROVE  /\ Cardinality(Inside') = Cardinality(Inside) - 1
         /\ Cardinality(Inside') \in Nat
         /\ now' \in [Callers -> (1 .. LimiterTime) \cup {Nobody}]
<1>1. Inside' = Inside \ {p} /\ p \in Inside
  BY DEF Inside, BucketInv, Limiter!TypeOK
<1>2. Cardinality(Inside') = Cardinality(Inside) - 1 /\ IsFiniteSet(Inside')
  BY <1>1, InsideFinite, DropOne
<1>3. now' \in [Callers -> (1 .. LimiterTime) \cup {Nobody}]
  BY DEF BucketInv, Limiter!TypeOK
<1> QED
  BY <1>2, <1>3, FS_CardinalityType

LEMMA BucketInit == Limiter!Init => BucketInv
<1> SUFFICES ASSUME Limiter!Init PROVE BucketInv
  OBVIOUS
<1>1. \A k : k \notin Inside
  BY DEF Inside, Limiter!Init
<1>2. Cardinality(Inside) = 0
  BY <1>1, NoneCounted
<1>3. \A t \in 1 .. LimiterTime : allowed[t] = 0
  BY DEF Limiter!Init
<1>4. \A b, e : Passed(b, e) = 0
  BY <1>3, NonePassed
<1>5. Limiter!TypeOK
  <2>1. inserted \in BOOLEAN
    BY DEF Limiter!Init
  <2> QED
    BY <2>1, LimiterAssumption DEF Limiter!Init, Limiter!TypeOK
<1>6. stale = 0 /\ calls = 0
  BY DEF Limiter!Init
<1>7. \A b, e \in 1 .. LimiterTime : b <= e => 0 <= CAP + (e - b) + stale
  BY <1>6, LimiterAssumption
<1> QED
  BY <1>2, <1>3, <1>4, <1>5, <1>6, <1>7 DEF BucketInv

\* A bound on what a bucket has let through stays with the clock that a caller read.
LEMMA LateCall ==
  ASSUME NEW C \in Nat, NEW L \in Nat, NEW T \in Nat, NEW K \in Nat, NEW S \in Nat, NEW S2 \in Nat,
         NEW B \in Nat, NEW P \in Nat, T + S2 >= L + S, P <= C + (L - B) - K + S
  PROVE  P <= C + (T - B) - 0 + S2
  OBVIOUS

\* The call that a bucket lets through or refuses, under whatever lock.
LEMMA BucketTakes ==
  ASSUME BucketInv, NEW p \in Callers, now[p] # Nobody, last # Nobody, Limiter!Take(p),
         holder' \in Callers \cup {Nobody}, inserted' = FALSE, UNCHANGED naive
  PROVE  BucketInv'
<1> DEFINE t == now[p]
           left == Limiter!Refill(t) - 1
<1>1. /\ t \in 1 .. LimiterTime /\ last \in 1 .. LimiterTime /\ tokens \in 0 .. CAP /\ stale \in Nat
      /\ allowed \in [1 .. LimiterTime -> 0 .. MaxCalls] /\ calls \in 0 .. MaxCalls
  BY DEF BucketInv, Limiter!TypeOK
<1>2. t \in Nat /\ last \in Nat /\ tokens \in Nat /\ tokens <= CAP /\ CAP \in Nat /\ stale \in Nat
  BY <1>1, LimiterAssumption
<1>3. left \in Int /\ left <= tokens + (t - last) - 1 /\ left <= CAP - 1
      /\ (left < 0 => tokens + (t - last) < 1 \/ CAP < 1)
  <2> HIDE DEF t
  <2> QED
    BY <1>2 DEF Limiter!Refill
<1>4. last' = t /\ now' = [now EXCEPT ![p] = Nobody] /\ UNCHANGED <<lClock, calls>>
  BY DEF Limiter!Take
<1>5. Cardinality(Inside') = Cardinality(Inside) - 1 /\ Cardinality(Inside') \in Nat
      /\ now' \in [Callers -> (1 .. LimiterTime) \cup {Nobody}] /\ Cardinality(Inside) \in Nat
  BY <1>4, OneLeaves, InsideFinite
<1>6. last' # Nobody /\ ~inserted'
  BY <1>1, <1>4, LimiterAssumption
<1>7. \A b, e \in 1 .. LimiterTime : b <= e =>
       /\ Passed(b, e) <= CAP + (e - b) + stale
       /\ Passed(b, e) = 0 \/ Passed(b, e) <= CAP + (last - b) - tokens + stale
  BY DEF BucketInv
<1>8. CASE left < 0
  <2>1. tokens' = 0 /\ allowed' = allowed /\ stale' = stale + (IF t < last THEN last - t ELSE 0)
    BY <1>8 DEF Limiter!Take
  <2>2. stale' \in Nat /\ stale' >= stale /\ t + stale' >= last + stale
    <3> HIDE DEF t
    <3> QED
      BY <1>2, <2>1
  <2>3. \A b, e : Passed(b, e)' = Passed(b, e)
    BY <2>1 DEF Passed, Limiter!AllowedIn
  <2>4. ASSUME NEW b \in 1 .. LimiterTime, NEW e \in 1 .. LimiterTime, b <= e
        PROVE  /\ Passed(b, e)' <= CAP + (e - b) + stale'
               /\ Passed(b, e)' = 0 \/ Passed(b, e)' <= CAP + (t - b) - 0 + stale'
    <3>1. Passed(b, e) \in Nat /\ b \in Nat /\ e \in Nat
      BY PassedFinite
    <3>2. /\ Passed(b, e) <= CAP + (e - b) + stale
          /\ Passed(b, e) = 0 \/ Passed(b, e) <= CAP + (last - b) - tokens + stale
      BY <1>7, <2>4
    <3> HIDE DEF t, left
    <3>3. Passed(b, e) <= CAP + (e - b) + stale'
      BY <1>2, <2>2, <3>1, <3>2
    <3>4. ASSUME Passed(b, e) # 0 PROVE Passed(b, e) <= CAP + (t - b) - 0 + stale'
      <4>1. Passed(b, e) <= CAP + (last - b) - tokens + stale
        BY <3>2, <3>4
      <4> QED
        BY <1>2, <2>2, <3>1, <4>1, LateCall
    <3> QED
      BY <2>3, <3>3, <3>4
  <2>5. Limiter!TypeOK'
    <3>1. inserted' \in BOOLEAN
      OBVIOUS
    <3>2. lClock' \in 1 .. LimiterTime /\ tokens' \in 0 .. CAP
      BY <1>4, <2>1, LimiterAssumption DEF BucketInv, Limiter!TypeOK
    <3> QED
      BY <1>1, <1>4, <1>5, <2>1, <2>2, <3>1, <3>2 DEF BucketInv, Limiter!TypeOK
  <2>6. \A u \in 1 .. LimiterTime : allowed'[u] + Cardinality(Inside') <= calls'
    <3>1. \A u \in 1 .. LimiterTime : allowed[u] \in Nat /\ allowed[u] + Cardinality(Inside) <= calls /\ calls \in Nat
      BY <1>1, LimiterAssumption DEF BucketInv
    <3> QED
      BY <1>4, <1>5, <2>1, <3>1
  <2>7. last' = t /\ tokens' = 0
    BY <1>4, <2>1
  <2> HIDE DEF t
  <2> QED
    BY <1>6, <2>4, <2>5, <2>6, <2>7 DEF BucketInv
<1>9. CASE ~(left < 0)
  <2>1. tokens' = left /\ allowed' = [allowed EXCEPT ![t] = allowed[t] + 1] /\ stale' = stale
    BY <1>9 DEF Limiter!Take
  <2>2. left \in 0 .. CAP /\ left \in Nat
    <3> HIDE DEF left
    <3> QED
      BY <1>2, <1>3, <1>9
  <2>3. Cardinality(Inside) >= 1
    BY <1>5
  <2>4. allowed[t] \in Nat /\ allowed[t] + 1 \in 1 .. MaxCalls
        /\ \A u \in 1 .. LimiterTime : allowed[u] \in Nat /\ allowed[u] + Cardinality(Inside) <= calls
    <3>1. \A u \in 1 .. LimiterTime : allowed[u] \in Nat /\ allowed[u] + Cardinality(Inside) <= calls
      BY <1>1 DEF BucketInv
    <3>2. allowed[t] \in Nat /\ allowed[t] + Cardinality(Inside) <= calls /\ calls \in Nat /\ calls <= MaxCalls
      BY <1>1, <3>1
    <3>3. allowed[t] + 1 \in 1 .. MaxCalls
      <4> HIDE DEF t
      <4> QED
        BY <1>5, <3>2, LimiterAssumption
    <3> QED
      BY <3>1, <3>2, <3>3
  <2>5. /\ allowed' \in [1 .. LimiterTime -> 0 .. MaxCalls]
        /\ \A u \in 1 .. LimiterTime : allowed'[u] = IF u = t THEN allowed[t] + 1 ELSE allowed[u]
    <3>1. allowed[t] + 1 \in 0 .. MaxCalls
      BY <2>4
    <3> HIDE DEF t
    <3> QED
      BY <1>1, <2>1, <3>1
  <2>6. ASSUME NEW b \in 1 .. LimiterTime, NEW e \in 1 .. LimiterTime
        PROVE  Passed(b, e)' = IF t \in b .. e THEN Passed(b, e) + 1 ELSE Passed(b, e)
    <3>1. CASE t \in b .. e
      <4> DEFINE k == <<t, allowed[t] + 1>>
      <4>1. Limiter!AllowedIn(b, e)' = Limiter!AllowedIn(b, e) \cup {k} /\ k \notin Limiter!AllowedIn(b, e)
        <5>1. /\ t \in 1 .. LimiterTime /\ allowed[t] \in Nat /\ allowed[t] + 1 \in 1 .. MaxCalls
              /\ \A u \in 1 .. LimiterTime : allowed[u] \in Nat
          BY <1>1, <2>4
        <5> HIDE DEF t
        <5>2. \A u \in 1 .. LimiterTime, n \in 1 .. MaxCalls :
                n <= allowed'[u] <=> n <= allowed[u] \/ <<u, n>> = k
          BY <2>5, <5>1
        <5>3. k \in (1 .. LimiterTime) \X (1 .. MaxCalls) /\ k[1] \in b .. e /\ ~(k[2] <= allowed[k[1]])
          BY <3>1, <5>1
        <5> HIDE DEF k
        <5> QED
          BY <5>2, <5>3 DEF Limiter!AllowedIn
      <4> HIDE DEF k
      <4>2. Cardinality(Limiter!AllowedIn(b, e)') = Cardinality(Limiter!AllowedIn(b, e)) + 1
        BY <4>1, PassedFinite, AddOne
      <4> QED
        BY <3>1, <4>2 DEF Passed
    <3>2. CASE t \notin b .. e
      <4>1. Limiter!AllowedIn(b, e)' = Limiter!AllowedIn(b, e)
        BY <1>1, <2>5, <3>2 DEF Limiter!AllowedIn
      <4> QED
        BY <3>2, <4>1 DEF Passed
    <3> QED
      BY <3>1, <3>2
  <2>7. ASSUME NEW b \in 1 .. LimiterTime, NEW e \in 1 .. LimiterTime, b <= e
        PROVE  /\ Passed(b, e)' <= CAP + (e - b) + stale
               /\ Passed(b, e)' = 0 \/ Passed(b, e)' <= CAP + (t - b) - left + stale
    <3>1. Passed(b, e) \in Nat /\ b \in Nat /\ e \in Nat
      BY PassedFinite
    <3>2. /\ Passed(b, e) <= CAP + (e - b) + stale
          /\ Passed(b, e) = 0 \/ Passed(b, e) <= CAP + (last - b) - tokens + stale
      BY <1>7, <2>7
    <3>3. Passed(b, e) = 0 \/ Passed(b, e) + 1 <= CAP + (t - b) - left + stale
      <4> HIDE DEF t, left
      <4> QED
        BY <1>2, <1>3, <2>2, <3>1, <3>2
    <3>4. CASE t \in b .. e
      <4>1. Passed(b, e)' = Passed(b, e) + 1
        BY <2>6, <3>4
      <4> HIDE DEF t, left
      <4>2. Passed(b, e) + 1 <= CAP + (t - b) - left + stale
        BY <1>2, <1>3, <2>2, <3>1, <3>3, <3>4
      <4>3. Passed(b, e) + 1 <= CAP + (e - b) + stale
        BY <1>2, <2>2, <3>1, <3>4, <4>2
      <4> QED
        BY <4>1, <4>2, <4>3
    <3>5. CASE t \notin b .. e
      <4>1. Passed(b, e)' = Passed(b, e)
        BY <2>6, <3>5
      <4> HIDE DEF t, left
      <4> QED
        BY <1>2, <2>2, <3>1, <3>2, <3>3, <4>1
    <3> QED
      BY <3>4, <3>5
  <2>8. Limiter!TypeOK'
    BY <1>1, <1>4, <1>5, <2>1, <2>2, <2>5, LimiterAssumption DEF BucketInv, Limiter!TypeOK
  <2>9. ASSUME NEW u \in 1 .. LimiterTime PROVE allowed'[u] + Cardinality(Inside') <= calls'
    <3>1. allowed[u] \in Nat /\ allowed[u] + Cardinality(Inside) <= calls /\ calls \in Nat
      BY <1>1, <2>4
    <3>2. allowed'[u] \in Nat /\ allowed'[u] <= allowed[u] + 1
      BY <2>4, <2>5
    <3>3. calls' = calls
      BY <1>4
    <3> HIDE DEF t, left
    <3> QED
      BY <1>5, <3>1, <3>2, <3>3
  <2>10. last' = t /\ tokens' = left /\ stale' = stale
    BY <1>4, <2>1
  <2> HIDE DEF t, left
  <2> QED
    BY <1>6, <2>7, <2>8, <2>9, <2>10 DEF BucketInv
<1> QED
  BY <1>8, <1>9

LEMMA BucketCall ==
  ASSUME BucketInv, NEW p \in Callers, Limiter!Enter(p), naive' \subseteq Callers
  PROVE  BucketInv'
<1>1. /\ now[p] = Nobody /\ now' = [now EXCEPT ![p] = lClock] /\ calls < MaxCalls /\ calls' = calls + 1
      /\ UNCHANGED <<tokens, last, lClock, holder, inserted, allowed, stale>>
  BY DEF Limiter!Enter
<1>2. calls \in Nat /\ calls' \in 0 .. MaxCalls /\ lClock \in 1 .. LimiterTime /\ lClock # Nobody
  BY <1>1, LimiterAssumption DEF BucketInv, Limiter!TypeOK
<1>3. Inside' = Inside \cup {p} /\ p \notin Inside
  BY <1>1, <1>2 DEF Inside, BucketInv, Limiter!TypeOK
<1>4. Cardinality(Inside') = Cardinality(Inside) + 1
  BY <1>3, InsideFinite, AddOne
<1>5. Limiter!TypeOK'
  BY <1>1, <1>2 DEF BucketInv, Limiter!TypeOK
<1>6. ASSUME NEW t \in 1 .. LimiterTime PROVE allowed'[t] + Cardinality(Inside') <= calls'
  <2>1. allowed[t] \in Nat /\ allowed[t] + Cardinality(Inside) <= calls
    BY DEF BucketInv, Limiter!TypeOK
  <2> QED
    BY <1>1, <1>2, <1>4, <2>1, InsideFinite
<1>7. \A b, e : Passed(b, e)' = Passed(b, e)
  BY <1>1 DEF Passed, Limiter!AllowedIn
<1> QED
  BY <1>1, <1>5, <1>6, <1>7 DEF BucketInv

\* A bucket is made full, when nothing has been let through.
LEMMA BucketMade ==
  ASSUME BucketInv, NEW p \in Callers, now[p] # Nobody, last = Nobody,
         tokens' = CAP, last' = now[p], UNCHANGED <<lClock, now, naive, calls, allowed, stale>>,
         holder' \in Callers \cup {Nobody}, inserted' \in BOOLEAN
  PROVE  BucketInv'
<1>1. \A t \in 1 .. LimiterTime : allowed'[t] = 0
  BY DEF BucketInv
<1>2. \A b, e : Passed(b, e)' = 0 /\ Passed(b, e)' = Passed(b, e)
  <2>1. \A b, e : Passed(b, e) = 0
    BY <1>1, NonePassed
  <2>2. \A b, e : Passed(b, e)' = Passed(b, e)
    BY DEF Passed, Limiter!AllowedIn
  <2> QED
    BY <2>1, <2>2
<1>3. Limiter!TypeOK'
  BY LimiterAssumption DEF BucketInv, Limiter!TypeOK
<1>4. Inside' = Inside
  BY DEF Inside
<1>5. \A b, e \in 1 .. LimiterTime : b <= e => Passed(b, e)' <= CAP + (e - b) + stale'
  BY <1>2 DEF BucketInv
<1>6. \A t \in 1 .. LimiterTime : allowed'[t] + Cardinality(Inside') <= calls'
  BY <1>4 DEF BucketInv
<1> QED
  BY <1>1, <1>2, <1>3, <1>5, <1>6 DEF BucketInv

\* A call that raises changes nothing, and a connection that is lost takes back its own
\* row at most, wherever its caller was.
LEMMA BucketLost ==
  ASSUME BucketInv, NEW p \in Callers, Limiter!LoseConnection(p) \/ Limiter!RaiseTypeError(p)
  PROVE  BucketInv'
<1>1. /\ now' = [now EXCEPT ![p] = Nobody] /\ naive' = naive \ {p}
      /\ UNCHANGED <<lClock, calls, allowed, stale>>
      /\ (holder' = Nobody /\ inserted' = FALSE) \/ (holder' = holder /\ inserted' = inserted)
      /\ (tokens' = 0 /\ last' = Nobody /\ inserted) \/ (tokens' = tokens /\ last' = last)
  BY DEF Limiter!LoseConnection, Limiter!RaiseTypeError
<1>2. Cardinality(Inside') <= Cardinality(Inside) /\ Cardinality(Inside') \in Nat
      /\ now' \in [Callers -> (1 .. LimiterTime) \cup {Nobody}] /\ Cardinality(Inside) \in Nat
  <2>1. CASE now[p] # Nobody
    <3>1. Cardinality(Inside') = Cardinality(Inside) - 1 /\ Cardinality(Inside') \in Nat
          /\ now' \in [Callers -> (1 .. LimiterTime) \cup {Nobody}]
      BY <1>1, <2>1, OneLeaves
    <3> QED
      BY <3>1, InsideFinite
  <2>2. CASE now[p] = Nobody
    <3>1. now' = now
      BY <1>1, <2>2 DEF BucketInv, Limiter!TypeOK
    <3>2. Inside' = Inside
      BY <3>1 DEF Inside
    <3> QED
      BY <3>1, <3>2, InsideFinite DEF BucketInv, Limiter!TypeOK
  <2> QED
    BY <2>1, <2>2
<1>3. Limiter!TypeOK'
  <2>1. inserted \in BOOLEAN
    BY DEF BucketInv, Limiter!TypeOK
  <2>2. inserted' \in BOOLEAN
    BY <1>1, <2>1, Zenon
  <2>3. tokens' \in 0 .. CAP /\ last' \in (1 .. LimiterTime) \cup {Nobody} /\ holder' \in Callers \cup {Nobody}
    BY <1>1, LimiterAssumption DEF BucketInv, Limiter!TypeOK
  <2> QED
    BY <1>1, <1>2, <2>2, <2>3 DEF BucketInv, Limiter!TypeOK
<1>4. ASSUME NEW t \in 1 .. LimiterTime PROVE allowed'[t] + Cardinality(Inside') <= calls'
  <2>1. allowed[t] \in Nat /\ calls \in Nat /\ allowed[t] + Cardinality(Inside) <= calls
    BY LimiterAssumption DEF BucketInv, Limiter!TypeOK
  <2> QED
    BY <1>1, <1>2, <2>1
<1>5. last' = Nobody \/ inserted' => \A t \in 1 .. LimiterTime : allowed'[t] = 0
  BY <1>1 DEF BucketInv
<1>6. \A b, e : Passed(b, e)' = Passed(b, e)
  BY <1>1 DEF Passed, Limiter!AllowedIn
<1>7. inserted => \A b, e : Passed(b, e) = 0
  BY NonePassed DEF BucketInv
<1>8. ASSUME NEW b \in 1 .. LimiterTime, NEW e \in 1 .. LimiterTime, b <= e
      PROVE  /\ Passed(b, e)' <= CAP + (e - b) + stale'
             /\ Passed(b, e)' = 0 \/ (last' # Nobody /\ Passed(b, e)' <= CAP + (last' - b) - tokens' + stale')
  <2>1. /\ Passed(b, e) <= CAP + (e - b) + stale
        /\ Passed(b, e) = 0 \/ (last # Nobody /\ Passed(b, e) <= CAP + (last - b) - tokens + stale)
    BY <1>8 DEF BucketInv
  <2> QED
    BY <1>1, <1>6, <1>7, <2>1
<1> QED
  BY <1>3, <1>4, <1>5, <1>8 DEF BucketInv

LEMMA BucketTick ==
  ASSUME BucketInv, Limiter!Tick \/ UNCHANGED Limiter!limiterVars
  PROVE  BucketInv'
<1>1. /\ UNCHANGED <<tokens, last, now, naive, holder, inserted, calls, allowed, stale>>
      /\ lClock' \in 1 .. LimiterTime
  <2>1. lClock \in 1 .. LimiterTime
    BY DEF BucketInv, Limiter!TypeOK
  <2>2. CASE Limiter!Tick
    BY <2>1, <2>2, LimiterAssumption DEF Limiter!Tick, Limiter!rowVars
  <2>3. CASE UNCHANGED Limiter!limiterVars
    BY <2>1, <2>3 DEF Limiter!limiterVars
  <2> QED
    BY <2>2, <2>3
<1> QED
  BY <1>1 DEF BucketInv, Limiter!TypeOK, Inside, Passed, Limiter!AllowedIn

\* In memory nobody holds a row's lock.
LimiterInv == BucketInv /\ ~inserted

LEMMA LimiterStep == LimiterInv /\ [Limiter!Next]_(Limiter!limiterVars) => LimiterInv'
<1> SUFFICES ASSUME LimiterInv, [Limiter!Next]_(Limiter!limiterVars) PROVE LimiterInv'
  OBVIOUS
<1> USE DEF LimiterInv
<1>1. ASSUME NEW p \in Callers, Limiter!CallAllow(p) PROVE LimiterInv'
  BY <1>1, BucketCall DEF Limiter!CallAllow, Limiter!Enter, BucketInv, Limiter!TypeOK
<1>2. ASSUME NEW p \in Callers, Limiter!MakeBucket(p) PROVE LimiterInv'
  BY <1>2, BucketMade DEF Limiter!MakeBucket, Limiter!rowVars, BucketInv, Limiter!TypeOK
<1>3. ASSUME NEW p \in Callers, Limiter!AllowRequest(p) PROVE LimiterInv'
  BY <1>3, BucketTakes DEF Limiter!AllowRequest, Limiter!rowVars, BucketInv, Limiter!TypeOK
<1>4. CASE Limiter!Tick \/ UNCHANGED Limiter!limiterVars
  BY <1>4, BucketTick DEF Limiter!Tick, Limiter!limiterVars, Limiter!rowVars
<1> QED
  BY <1>1, <1>2, <1>3, <1>4 DEF Limiter!Next

\* In rows there is a row to hold the lock of, and only its holder can have inserted it.
RowsInv ==
  /\ BucketInv
  /\ IF holder = Nobody THEN ~inserted ELSE last # Nobody

LEMMA RowsStep == RowsInv /\ [Limiter!RowsNext]_(Limiter!limiterVars) => RowsInv'
<1> SUFFICES ASSUME RowsInv, [Limiter!RowsNext]_(Limiter!limiterVars) PROVE RowsInv'
  OBVIOUS
<1> USE LimiterAssumption DEF RowsInv
<1>1. ASSUME NEW p \in Callers, Limiter!CallAllow(p) \/ Limiter!CallNaive(p) PROVE RowsInv'
  <2>1. Limiter!Enter(p) /\ naive' \subseteq Callers
    BY <1>1 DEF Limiter!CallAllow, Limiter!CallNaive, BucketInv, Limiter!TypeOK
  <2>2. UNCHANGED <<last, holder, inserted>>
    BY <2>1 DEF Limiter!Enter
  <2> QED
    BY <2>1, <2>2, BucketCall
<1>2. ASSUME NEW p \in Callers, Limiter!UpsertBucket(p) PROVE RowsInv'
  <2>1. now[p] # Nobody /\ holder' = p /\ p # Nobody /\ inserted' \in BOOLEAN
        /\ UNCHANGED <<lClock, now, naive, calls, allowed, stale>>
    BY <1>2 DEF Limiter!UpsertBucket
  <2>2. CASE last = Nobody
    <3>1. tokens' = CAP /\ last' = now[p]
      BY <1>2, <2>2 DEF Limiter!UpsertBucket
    <3> QED
      BY <2>1, <2>2, <3>1, BucketMade
  <2>3. CASE last # Nobody
    <3>1. UNCHANGED <<tokens, last>> /\ inserted' = FALSE
      BY <1>2, <2>3 DEF Limiter!UpsertBucket
    <3>2. Limiter!TypeOK'
      BY <2>1, <3>1 DEF BucketInv, Limiter!TypeOK
    <3>3. BucketInv'
      BY <2>1, <2>3, <3>1, <3>2 DEF BucketInv, Inside, Passed, Limiter!AllowedIn
    <3> QED
      BY <2>1, <2>3, <3>1, <3>3
  <2> QED
    BY <2>2, <2>3
<1>3. ASSUME NEW p \in Callers, Limiter!UpdateBucket(p) PROVE RowsInv'
  BY <1>3, BucketTakes DEF Limiter!UpdateBucket
<1>4. ASSUME NEW p \in Callers, Limiter!LoseConnection(p) \/ Limiter!RaiseTypeError(p) PROVE RowsInv'
  <2>1. BucketInv'
    BY <1>4, BucketLost
  <2>2. \/ holder' = Nobody /\ inserted' = FALSE
        \/ UNCHANGED <<holder, inserted, last>>
    BY <1>4 DEF Limiter!LoseConnection, Limiter!RaiseTypeError
  <2> QED
    BY <2>1, <2>2
<1>5. CASE Limiter!Tick \/ UNCHANGED Limiter!limiterVars
  BY <1>5, BucketTick DEF Limiter!Tick, Limiter!limiterVars, Limiter!rowVars
<1> QED
  BY <1>1, <1>2, <1>3, <1>4, <1>5 DEF Limiter!RowsNext

LEMMA LimiterStarts == Limiter!Init => LimiterInv /\ RowsInv
  BY BucketInit DEF Limiter!Init, LimiterInv, RowsInv

LEMMA BucketCounted == BucketInv => Limiter!RateHolds
  BY Counts DEF BucketInv, Limiter!RateHolds, Passed
--------------------------------------------------------------------------------
(* The services together.  A step of a behaviour is a step of its subject, *)
(* and the others do nothing.                                              *)
HoldsInv ==
  /\ SeatInv /\ LibraryInv /\ SupportInv /\ StockInv /\ CouponInv /\ MerchantInv /\ PromoInv /\ QuotaInv
  /\ IF subject = "limiter rows" THEN RowsInv ELSE LimiterInv

holdsVars == <<subject, seatVars, mcLibraryVars, mcSupportVars, counterVars>>

LEMMA StepsOfServices ==
  ASSUME [MCNext]_holdsVars
  PROVE  /\ [Next]_seatVars
         /\ [Library!Next]_(Library!libVars)
         /\ [Support!Next]_(Support!supportVars)
         /\ [Stock!Next \/ Stock!NextWithoutConfirm]_(Stock!stockVars)
         /\ [Coupon!Next]_(Coupon!couponVars)
         /\ [Merchant!Next]_(Merchant!merchantVars)
         /\ [Promo!Next]_(Promo!promoVars)
         /\ [Quota!Next]_(Quota!quotaVars)
         /\ UNCHANGED subject
         /\ IF subject = "limiter rows"
            THEN [Limiter!RowsNext]_(Limiter!limiterVars)
            ELSE [Limiter!Next]_(Limiter!limiterVars)
<1> USE DEF counterVars, holdsVars
<1>1. [CounterNext \/ UNCHANGED counterVars]_counterVars
  BY DEF MCNext
<1>2. UNCHANGED subject
  BY DEF MCNext
<1>3. [Next]_seatVars
  BY DEF MCNext
<1>4. [Library!Next]_mcLibraryVars /\ [Support!Next]_mcSupportVars
  BY DEF MCNext
<1>5. [Stock!Next \/ Stock!NextWithoutConfirm]_stockVars /\ [Coupon!Next]_couponVars
  BY DEF MCNext, CounterNext
<1>6. [Merchant!Next]_merchantVars /\ [Promo!Next]_promoVars /\ [Quota!Next]_quotaVars
  BY DEF MCNext, CounterNext
<1>7. IF subject = "limiter rows" THEN [Limiter!RowsNext]_limiterVars ELSE [Limiter!Next]_limiterVars
  BY DEF MCNext, CounterNext
<1> QED
  BY <1>2, <1>3, <1>4, <1>5, <1>6, <1>7
  DEF mcLibraryVars, Library!libVars, mcSupportVars, Support!supportVars, stockVars, Stock!stockVars,
      couponVars, Coupon!couponVars, merchantVars, Merchant!merchantVars, promoVars, Promo!promoVars,
      quotaVars, Quota!quotaVars, limiterVars, Limiter!limiterVars

LEMMA HoldsInit == MCInit => HoldsInv
  BY SeatInit, LibraryInit, SupportInit, StockInit, CouponInit, MerchantInit, PromoInit, QuotaInit,
     LimiterStarts
  DEF MCInit, HoldsInv

LEMMA HoldsStep == HoldsInv /\ [MCNext]_holdsVars => HoldsInv'
<1> SUFFICES ASSUME HoldsInv, [MCNext]_holdsVars PROVE HoldsInv'
  OBVIOUS
<1>1. SeatInv' /\ LibraryInv' /\ SupportInv' /\ StockInv'
  BY StepsOfServices, SeatStep, LibraryStep, SupportStep, StockStep DEF HoldsInv
<1>2. CouponInv' /\ MerchantInv' /\ PromoInv' /\ QuotaInv'
  BY StepsOfServices, CouponStep, MerchantStep, PromoStep, QuotaStep DEF HoldsInv
<1>3. IF subject' = "limiter rows" THEN RowsInv' ELSE LimiterInv'
  BY StepsOfServices, LimiterStep, RowsStep DEF HoldsInv
<1> QED
  BY <1>1, <1>2, <1>3 DEF HoldsInv

LEMMA HoldsSound == MCSpec => []HoldsInv
  BY HoldsInit, HoldsStep, PTL DEF MCSpec, holdsVars

\* The variables of every service keep their types, whatever sizes it is given.
THEOREM HoldTypesCorrect == MCSpec => []HoldTypes
<1>1. HoldsInv => HoldTypes
  <2> SUFFICES ASSUME HoldsInv PROVE HoldTypes
    OBVIOUS
  <2>1. TypeOK /\ Library!TypeOK /\ Support!TypeOK
    BY DEF HoldsInv, SeatInv, LibraryInv, SupportInv
  <2>2. Stock!TypeOK /\ Coupon!TypeOK /\ Merchant!TypeOK /\ Promo!TypeOK
    BY DEF HoldsInv, StockInv, CouponInv, MerchantInv, PromoInv
  <2>3. Quota!TypeOK /\ Limiter!TypeOK
    BY QuotaTyped DEF HoldsInv, RowsInv, LimiterInv, BucketInv
  <2> QED
    BY <2>1, <2>2, <2>3 DEF HoldTypes
<1> QED
  BY <1>1, HoldsSound, PTL

\* Whatever books are added, borrowed and returned and whatever tickets are assigned and
\* resolved, no more copies of a book are lent than there are, no member has a loan off
\* the record or beyond the limit, and an agent's load is the tickets it is assigned,
\* within its capacity.
THEOREM NothingBeyondLimits == MCSpec => []WithinLimits
<1>1. HoldsInv => WithinLimits
  BY LibraryRecorded, LoadCounted DEF HoldsInv, LibraryInv, WithinLimits
<1> QED
  BY <1>1, HoldsSound, PTL

\* What each service counts adds up: the units of stock, the redemptions of a coupon and
\* of a promo code, the charges of a merchant, and the requests let through in any
\* stretch of time, by sliding window and by bucket, in memory and in rows, whichever
\* threads come late with the times that they read.
THEOREM CountsAddUp == MCSpec => []CountsHold
<1>1. HoldsInv => CountsHold
  <2> SUFFICES ASSUME HoldsInv PROVE CountsHold
    OBVIOUS
  <2>1. Stock!StockConserved /\ Coupon!LimitsKept /\ Merchant!CapsKept
    BY CouponCounted DEF HoldsInv, StockInv, MerchantInv
  <2>2. Promo!PromosKept /\ Quota!QuotaHolds
    BY PromoCounted, QuotaCounted DEF HoldsInv
  <2>3. Limiter!RateHolds
    BY BucketCounted DEF HoldsInv, RowsInv, LimiterInv
  <2> QED
    BY <2>1, <2>2, <2>3 DEF CountsHold
<1> QED
  BY <1>1, HoldsSound, PTL

\* The behaviours of the instance are those of the seats and of the support desk, so what
\* their steps never do, its steps never do.
THEOREM HoldsKeepSeats == MCSpec => []HoldsHaveReservations /\ NoSeatTaken /\ RefusalInvisible
<1>1. MCInit => Init
  BY DEF MCInit
<1>2. [MCNext]_holdsVars => [Next]_seatVars
  BY StepsOfServices
<1>3. MCSpec => Spec
  BY <1>1, <1>2, PTL DEF MCSpec, holdsVars, Spec
<1> QED
  BY <1>3, HeldSeatsAreReserved, HoldsAreSafe, RefusalsLeaveNothing, PTL

\* A live ticket leaves the queue only with a pull refused for want of capacity.
THEOREM HoldsKeepTickets == MCSpec => OnlyRefusalsDrop
<1>1. MCInit => Support!Init
  BY DEF MCInit
<1>2. [MCNext]_holdsVars => [Support!Next]_(Support!supportVars)
  BY StepsOfServices
<1>3. MCSpec => Support!Spec
  BY <1>1, <1>2, PTL DEF MCSpec, holdsVars, Support!Spec
<1> QED
  BY <1>3, LiveTicketsStay, PTL DEF OnlyRefusalsDrop
================================================================================
