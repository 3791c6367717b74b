----------------------------- MODULE LibraryService -----------------------------
(***************************************************************************)
(* src/build-it: a library with several copies of each book.  A loan is    *)
(* written twice, with the book and with the member; a return updates the  *)
(* book only.  Every method is one section under the service lock.         *)
(***************************************************************************)
EXTENDS Integers, FiniteSets

CONSTANTS
  Books, Members,
  Limit,      \* MAX_NUMBER_OF_BOOKS_PER_MEMBER
  Deltas,     \* what add_copies_to_book is called with: any integer
  MaxCopies,  \* bound on the copies of a book, as is not having fewer than none
  Absent

VARIABLES
  copies,     \* number_of_copies of a BookCapacity, Absent before add_book
  borrowers,  \* its borrowers
  loans       \* _books_by_member, Absent for no entry

libVars == <<copies, borrowers, loans>>

TypeOK ==
  /\ copies \in [Books -> (0 .. MaxCopies) \cup {Absent}]
  /\ borrowers \in [Books -> SUBSET Members]
  /\ loans \in [Members -> (SUBSET Books) \cup {Absent}]

Init ==
  /\ copies = [b \in Books |-> Absent]
  /\ borrowers = [b \in Books |-> {}]
  /\ loans = [m \in Members |-> Absent]

Known(m) == loans[m] # Absent

\* list_member_borrowed_books, and the set that borrow_book makes for a new member.
BooksOf(m) == IF Known(m) THEN loans[m] ELSE {}

AddBook(b, n) ==
  /\ copies[b] = Absent
  /\ copies' = [copies EXCEPT ![b] = n]
  /\ UNCHANGED <<borrowers, loans>>

\* Mutant: the comparison lets one too many through.
CanBeBorrowed_OffByOne(b, m) == Cardinality(borrowers[b]) # copies[b] + 1 /\ m \notin borrowers[b]

\* can_be_borrowed: an equality, not a bound.
CanBeBorrowed(b, m) == Cardinality(borrowers[b]) # copies[b] /\ m \notin borrowers[b]

CheckCanBeBorrowed(b, m) == CanBeBorrowed(b, m) /\ Cardinality(BooksOf(m)) # Limit

BorrowBook(m, b) ==
  /\ copies[b] # Absent
  /\ CheckCanBeBorrowed(b, m)
  /\ borrowers' = [borrowers EXCEPT ![b] = @ \cup {m}]
  /\ loans' = [loans EXCEPT ![m] = BooksOf(m) \cup {b}]
  /\ UNCHANGED copies

\* A refused loan still makes the member known.
RefuseBorrow(m, b) ==
  /\ copies[b] # Absent
  /\ ~CheckCanBeBorrowed(b, m)
  /\ loans' = [loans EXCEPT ![m] = BooksOf(m)]
  /\ UNCHANGED <<copies, borrowers>>

ReturnBook(m, b) ==
  /\ copies[b] # Absent /\ m \in borrowers[b]
  /\ borrowers' = [borrowers EXCEPT ![b] = @ \ {m}]
  /\ UNCHANGED <<copies, loans>>

AddCopies(b, d) ==
  /\ copies[b] # Absent
  /\ copies[b] + d \in 0 .. MaxCopies
  /\ copies' = [copies EXCEPT ![b] = @ + d]
  /\ UNCHANGED <<borrowers, loans>>

Next ==
  \E b \in Books :
    \/ \E n \in 0 .. MaxCopies : AddBook(b, n)
    \/ \E m \in Members : BorrowBook(m, b) \/ RefuseBorrow(m, b) \/ ReturnBook(m, b)
    \/ \E d \in Deltas : AddCopies(b, d)

Spec == Init /\ [][Next]_libVars

--------------------------------------------------------------------------------
\* A copy is lent once: while copies are only added, no more members have a book
\* than there are copies, although borrow_book compares with equality.
NeverOverLent ==
  Deltas \subseteq Nat =>
    \A b \in Books : copies[b] # Absent => Cardinality(borrowers[b]) <= copies[b]

\* No loan is missing from the member's record, so nobody has more than Limit books.
LoansRecorded ==
  \A m \in Members :
    LET has == {b \in Books : m \in borrowers[b]} IN
    has \subseteq BooksOf(m) /\ Cardinality(has) <= Limit
================================================================================
