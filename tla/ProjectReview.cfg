\* Two projects, two approvals and two resubmissions in flight, one failure or restart.
SPECIFICATION Spec
CONSTANTS
  Project = {p1, p2}
  Title = {t1, t2}
  Admin = {a1, a2}
  Applicant = {u1, u2}
  NoProject = NoProject
  NoTitle = NoTitle
  MaxGroups = 2
  MaxDecisions = 3
  MaxQueue = 1
  MaxTroubles = 1
SYMMETRY Symmetry
INVARIANTS
  ReviewInStep
  ActiveGroupIsOwn
PROPERTIES
  ImplementsLifecycle
\* The bounds on decisions and troubles let every project come to rest.
CHECK_DEADLOCK FALSE
