\* Three events of two days, two aggregations, three reviews and one failure;
\* one group project that may take the name of another's OpenStack usage.
SPECIFICATION Spec
CONSTANTS
  User = {"ann"}
  Account <- MCAccount
  Customers <- MCCustomers
  Collector = {c1}
  Job = {j1, j2}
  Batch <- MCBatch
  GroupProject = {1}
  Slug <- MCSlug
  PersonalId <- MCPersonalId
  PersonalSlug <- MCPersonalSlug
  Day = {1, 2}
  MaxEvents = 3
  MaxJobs = 2
  MaxReviews = 3
  MaxMishaps = 1
  MaxTotal = 5
SYMMETRY MCSymmetry
CHECK_DEADLOCK FALSE
INVARIANTS
  TypeOK
  MappingIsRight
  NoOverCount
  ExactInOrder
  BackfillIsComplete
  OfferedIsShown
