\* Three sources, failures that come and go, and a verdict ahead of a line on
\* which every cycle raises.
SPECIFICATION FairSpec
CONSTANTS
  a = a
  b = b
  c = c
  Source = {a, b, c}
  SourceOrder <- ThreeInOrder
  Mail <- VerdictThenUnreadable
  MayRaise <- Anywhere
  MayBeKilled = TRUE
  Supervised = TRUE
  HighImpactKinds <- Default
  AllowOutboundToOthers = FALSE
PROPERTIES
  GapsClose
  KeepsReporting
  VerdictsAreHeard
