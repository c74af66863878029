\* Two applicants' calls of requestProjectAgain in flight at once.
SPECIFICATION Spec
PROPERTY OnlyRejectedIsResubmitted
CONSTANTS
  Project = {p1}
  Title = {t1, t2}
  Admin = {a1}
  Applicant = {u1, u2}
  NoProject = NoProject
  NoTitle = NoTitle
  MaxGroups = 2
  MaxDecisions = 3
  MaxQueue = 1
  MaxTroubles = 0
\* The bounds on decisions and troubles let every project come to rest.
CHECK_DEADLOCK FALSE
