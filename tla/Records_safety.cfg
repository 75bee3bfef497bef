\* Three attempts, with raises, kills and a mail provider that may refuse.
SPECIFICATION RSpec
CONSTANTS
  a = a
  b = b
  Source = {a, b}
  SourceOrder <- TwoInOrder
  Mail <- VerdictThenBroken
  MayRaise <- Anywhere
  MayBeKilled = TRUE
  Supervised = TRUE
  HighImpactKinds <- Default
  AllowOutboundToOthers = FALSE
  MaxAttempts = 3
  Channel = "sendgrid"
INVARIANTS
  RTypeOK
  LedgerCoversCheckpoint
  IdsNeverRunAhead
  LedgerIsAHistory
  EventsAreBacked
  OneActPerAttempt
  OneReportPerAttempt
  MemoryLostOnlyInASave
PROPERTIES
  ClosedCyclesStayClosed
  KeepsStandingLedger
