SPECIFICATION Spec
CONSTANTS
  Requests = {r1, r2, r3}
  Invoices = {i1, i2}
  NoRequest = NoRequest
  NoInvoice = NoInvoice
  OtherPayment = OtherPayment
  HeldReports = {"HOLD", "PENDING"}
  CarefulReset = TRUE
  CarefulConfirm = TRUE
  ClientPaysBeforeDispute = TRUE
  SweepWaitsForExpiry = TRUE
CHECK_DEADLOCK FALSE
SYMMETRY Symmetry
INVARIANTS
  TypeOK
  PayoutsExclusive
  ReleasedMeansForwarded
  RefundedMeansReturned
  PayoutAfterSettle
  LivePayoutMarked
  HungPayoutConfirmable
PROPERTIES
  LifecycleHonoured
  MoneyMovesOnce
