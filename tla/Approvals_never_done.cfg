\* An operator who wants to be asked before memory is related, and says yes.
SPECIFICATION AFairSpec
CONSTANTS
  a = a
  b = b
  Source = {a, b}
  SourceOrder <- TwoInOrder
  Mail <- NoMail
  MayRaise <- Nowhere
  MayBeKilled = FALSE
  Supervised = TRUE
  HighImpactKinds <- RelatingGated
  AllowOutboundToOthers = FALSE
PROPERTY
  ApprovedIsDone
