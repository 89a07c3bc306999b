SPECIFICATION MCSchedFairSpec
CONSTANTS
  w1 = w1
  w2 = w2
  d1 = d1
  u1 = u1
  NoOne = NoOne
  Workers = {w1, w2}
  Documents = {d1}
  Frequencies = {1, 3}
  Technicians = {u1}
  RevisionItems <- MCRevisionItems
  Monthly = 2
  CascadeOverride <- MCCascadeOverride
  LeadTime = 0
  MaxDay = 2
  MaxJobs = 2
  MaxEvents = 1
  MaxAttempts = 2
  VoidInOneStep = TRUE
INVARIANTS
  ScheduleCreditsWorkDone
  LeasedSweepsAreAlone
PROPERTIES
  DueVisitIsRaised
CHECK_DEADLOCK FALSE
