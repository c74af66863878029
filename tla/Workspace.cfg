SPECIFICATION Spec
CONSTANTS
  Person = {"pi", "boss", "guest"}
  Address = {"pi@a", "me@a", "boss@a", "guest@a", "p.i@a"}
  Title <- MCTitle
  OldAddress <- MCOld
  NewAddress <- MCNew
  SlugOf <- MCSlug
  Entitled <- MCEntitled
  Session = {s1, s2}
  Budgets <- MCBudgets
  Project = {"a", "b"}
  FirstProjects <- MCProjects
  Batch <- MCBatch
  Work = {"w", "v"}
  IdType = {"doi"}
  FirstPubs <- MCPubs
  AttributeName = {"cores", "quantity_ram"}
  Quantity = {"quantity_ram"}
  Form <- MCForm
  FirstTypes <- MCTypes
  Orcid = {"o1", "o2", "o3"}
  Notice <- MCNotice
  FirstUsers <- MCUsers
  FirstPersonal <- MCPersonal
SYMMETRY Sessions
CHECK_DEADLOCK FALSE
INVARIANTS
  TypeOK
  NobodyIsLockedOut
  MembershipsAgree
PROPERTIES
  ApprovalStands
