CONSTANTS
  MaxJobs = 2
  MaxThreads = 2
SPECIFICATION FairSpec
INVARIANTS
  JobNotLost
  JobScanned
PROPERTIES
  JobTaken
CHECK_DEADLOCK FALSE
