CONSTANTS
  Users <- MCUsers
  Defaults <- MCDefaults
  Api <- MCApi
  MaxJobs = 1
  Runs <- MCRuns
  MaxMishaps = 1
SPECIFICATION FairSpec
INVARIANTS TypeOK SeededWithUser OneRowPerCenter
PROPERTIES LoopSurvives Onboarded
CHECK_DEADLOCK FALSE
