\* Two projects sharing the job worker, and two failures, lost jobs or restarts.
SPECIFICATION FairSpec
CONSTANTS
  Project = {p1, p2}
  Title = {t1, t2}
  Admin = {a1}
  Applicant = {u1}
  NoProject = NoProject
  NoTitle = NoTitle
  MaxGroups = 2
  MaxDecisions = 2
  MaxQueue = 1
  MaxTroubles = 2
INVARIANTS
  TypeOK
  UnfinishedIsVisible
  RowIsResumePoint
  RunningFlagIsReal
PROPERTIES
  ApprovedIsProvisioned
\* The bounds on decisions and troubles let every project come to rest.
CHECK_DEADLOCK FALSE
