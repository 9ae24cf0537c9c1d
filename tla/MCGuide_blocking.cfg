SPECIFICATION Spec
CONSTANTS
  Programs <- GuidePrograms
  Many = 1
  MaxWorkers = 2
  MaxSpurious = 0
INVARIANTS BlockingIsSequential
CHECK_DEADLOCK FALSE
