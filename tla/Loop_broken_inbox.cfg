\* A line of the inbox that is JSON but no object.
SPECIFICATION FairSpec
CONSTANTS
  a = a
  b = b
  c = c
  Source = {a, b}
  SourceOrder <- TwoInOrder
  Mail <- BrokenMail
  MayRaise <- Nowhere
  MayBeKilled = FALSE
  Supervised = TRUE
  HighImpactKinds <- Default
  AllowOutboundToOthers = FALSE
PROPERTY
  KeepsCompletingCycles
