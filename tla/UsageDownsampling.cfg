SPECIFICATION Spec
CONSTANTS
  Job = {j1, j2}
  Daily <- MCDaily
  Event <- MCEvent
  YearStart <- MCYearStart
  MonthStart <- MCMonthStart
  Step = {42}
  FirstDay = 56
  LastDay = 224
  MaxJobs = 3
  Once = {"overlap", "late", "crash"}
SYMMETRY Jobs
CHECK_DEADLOCK FALSE
INVARIANTS
  TypeOK
  KeptOnce
  TakenOnlyFromAnchor
  NothingIsStranded
