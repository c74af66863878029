\* One project whose first approval is abandoned after its group was created.
SPECIFICATION Spec
PROPERTY RemovedRowMeansSuccess
CONSTANTS
  Project = {p1}
  Title = {t1, t2}
  Admin = {a1}
  Applicant = {u1}
  NoProject = NoProject
  NoTitle = NoTitle
  MaxGroups = 2
  MaxDecisions = 2
  MaxQueue = 1
  MaxTroubles = 2
\* The bounds on decisions and troubles let every project come to rest.
CHECK_DEADLOCK FALSE
