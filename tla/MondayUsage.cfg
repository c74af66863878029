SPECIFICATION Spec
CONSTANTS
  Job = {j1}
  Daily <- MondayDaily
  Event <- MCEvent
  YearStart <- MCYearStart
  MonthStart <- MCMonthStart
  Step = {7}
  FirstDay = 28
  LastDay = 49
  MaxJobs = 1
  Once = {"overlap", "late", "crash"}
CHECK_DEADLOCK FALSE
INVARIANTS
  HistoryIsKept
