SPECIFICATION Spec
CONSTANTS
  Programs <- GuidePrograms
  Many = 6
  MaxWorkers = 2
  MaxSpurious = 2
INVARIANTS TypeOK ElapsedAsClaimed ResultsAsClaimed NoLostWakeup PollsAsClaimed
PROPERTIES EverythingEnds
CHECK_DEADLOCK FALSE
