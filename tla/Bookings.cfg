SPECIFICATION MCSpec
CONSTANTS
  Subjects = {"lists", "keys", "payments"}
  Null = Null
  Rooms = {r1, r2}
  Users = {u1, u2}
  Slots <- MCSlots
  Bookings = {b1, b2, b3}
  Threads = {t1, t2}
  MoreBookings = {d1, d2, d3, d4}
  Keys = {k1, k2, k3, k4}
  PaymentKeys = {i1, i2}
  Payments = {y1, y2, y3}
  Charges = {g1, g2}
SYMMETRY Symmetry
INVARIANT BookingTypes
INVARIANT RoomsBookedOnce
INVARIANT KnownBookingsListed
PROPERTY BooksUnderNewKey
CHECK_DEADLOCK FALSE
