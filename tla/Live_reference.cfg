\* Three sources of which each process registers two, in one order or the other.
SPECIFICATION FairSpec
CONSTANTS
  s1 = s1
  s2 = s2
  s3 = s3
  Source = {s1, s2, s3}
  Assemblies <- MCAssemblies
  Budget <- MCBudget
INVARIANTS
  LTypeOK
  FlagsTellTheTruth
PROPERTIES
  LongestLostStaysFirst
  SeesAsSightDoes
  LossIsNoticed
  RecoveryIsNoticed
