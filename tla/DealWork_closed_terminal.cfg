SPECIFICATION WorkSpec
CONSTANTS
  Requests = {r1, w1}
  MoneyCalls = {r1}
  Invoices = {i1}
  Artifacts = {a1}
  NoRequest = NoRequest
  NoInvoice = NoInvoice
  OtherPayment = OtherPayment
  HeldReports = {"HOLD", "PENDING"}
  NoArtifact = NoArtifact
  CarefulReset = TRUE
  CarefulConfirm = TRUE
  ClientPaysBeforeDispute = TRUE
  SweepWaitsForExpiry = TRUE
  AnswersLost = FALSE
PROPERTY
  ClosedIsTerminal
