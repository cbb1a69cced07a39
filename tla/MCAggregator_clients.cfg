SPECIFICATION Spec
CONSTANTS
  c1 = c1
  c2 = c2
  c3 = c3
  Clients <- ThreeClients
  Outcomes <- OneOutcome
  MaxCalls = 2
INVARIANTS
  TypeOK
  NoSendAfterExit
  SummariesAddUp
PROPERTIES
  ImplementsLedger
  CallsReturn
