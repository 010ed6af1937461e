\* New versions of a law are expected to be announced.
SPECIFICATION PartsSpec
CONSTANTS
  None = None
  Run <- TwoRuns
  PublicStages <- TwoStages
  MaxCallbacks = 6
PROPERTIES NewVersionsAnnounced
CHECK_DEADLOCK FALSE
