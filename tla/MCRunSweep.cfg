SPECIFICATION CampaignSpec
CONSTANTS
  Matrix <- MCMatrix
  Key <- MCKey
  Predicted <- MCPredicted
  Commits = {"c1", "c2"}
  MaxSessions = 2
INVARIANTS
  PublishedIsWhole
PROPERTIES
  NoMeasurementLost
  ResumeRedoesNothing
  FinishedMeansMeasured
