SPECIFICATION LiveSpec
CONSTANTS
  Depth = 1
  Recordings = 1
  MaxRuns = 2
  MaxEdits = 1
  MaxFaults = 2
 
PROPERTIES CommittedIsImmutable CampaignEnds
CHECK_DEADLOCK FALSE
