SPECIFICATION FairLifeSpec
CONSTANTS
  Requests = {r1, r2}
  Invoices = {i1}
  NoRequest = NoRequest
  NoInvoice = NoInvoice
  OtherPayment = OtherPayment
  HeldReports = {"HOLD", "PENDING"}
  CarefulReset = TRUE
  CarefulConfirm = TRUE
  ClientPaysBeforeDispute = TRUE
  SweepWaitsForExpiry = TRUE
CHECK_DEADLOCK FALSE
INVARIANTS
  NoStrandedPayment
  CreatedStaysPayable
PROPERTIES
  EscrowTakesOver
  RequestsFinish
  DeadInvoiceSwept
