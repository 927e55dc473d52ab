SPECIFICATION Spec
CONSTANTS
  Requests = {r1, r2}
  Slots = {s1, s2}
  MaxChanges = 3
INVARIANTS
  TypeOK
  OneMailPerChange
  PaymentAnnouncedOnce
PROPERTIES
  SlotsReturn
