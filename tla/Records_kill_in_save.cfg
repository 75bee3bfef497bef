\* The process is killed while it writes its memory.
SPECIFICATION RSpec
CONSTANTS
  a = a
  b = b
  Source = {a}
  SourceOrder <- OneInOrder
  Mail <- NoMail
  MayRaise <- Nowhere
  MayBeKilled = TRUE
  Supervised = TRUE
  HighImpactKinds <- Default
  AllowOutboundToOthers = FALSE
  MaxAttempts = 2
  Channel = "local_outbox"
INVARIANT
  MemoryComesBack
