\* Stored conditions across reconciles of a WPA not in DryRun.
CONSTANTS
  DryRun = FALSE
  MaxTime = 2
SPECIFICATION CSpec
INVARIANT CTypeOK
INVARIANT UniqueConditionTypes
