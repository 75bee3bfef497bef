\* Verdicts coming in and reports going out, without APScheduler: an exception
\* ends the process.  The operator wants to be asked before memory is related.
SPECIFICATION RSpec
CONSTANTS
  a = a
  b = b
  Source = {a, b}
  SourceOrder <- TwoInOrder
  Mail <- VerdictsAndOthers
  MayRaise <- Anywhere
  MayBeKilled = TRUE
  Supervised = FALSE
  HighImpactKinds <- RelatingGated
  AllowOutboundToOthers = FALSE
  MaxAttempts = 3
  Channel = "local_outbox"
INVARIANTS
  GateHolds
  EventsAreBacked
  VerdictsComeInOrder
  ReportsLeaveARecord
