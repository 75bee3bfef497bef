\* Three sources, mail that makes the cycle raise, an operator who wants to be
\* asked before reports; every step may raise, the process be killed anywhere.
SPECIFICATION Spec
CONSTANTS
  a = a
  b = b
  c = c
  Source = {a, b, c}
  SourceOrder <- ThreeInOrder
  Mail <- UnreadableThenMalformed
  MayRaise <- Anywhere
  MayBeKilled = TRUE
  Supervised = TRUE
  HighImpactKinds <- ReportsGated
  AllowOutboundToOthers = FALSE
INVARIANTS
  TypeOK
  ActsOnFreshReferencesOnly
  MemoryNeverBehindItsFile
  RecordedMemoryIsSaved
  RelationsFormForest
