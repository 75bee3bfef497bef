\* The shipped build(): one live source, the heartbeat.
SPECIFICATION FairSpec
CONSTANTS
  a = a
  b = b
  c = c
  Source = {a}
  SourceOrder <- OneInOrder
  Mail <- NoMail
  MayRaise <- Nowhere
  MayBeKilled = FALSE
  Supervised = TRUE
  HighImpactKinds <- Default
  AllowOutboundToOthers = FALSE
PROPERTY
  KeepsReporting
