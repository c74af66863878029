\* Two handlers on one clone, two requests filed out of four, two of
\* them processed or one twice, two mishaps: days, edits, failures, restarts.
SPECIFICATION Spec
CONSTANTS
  ConfiguredDomains = {}
  FallbackDomain = "einfra"
  QuotaKeys = {"cores"}
  SlugWords <- MCSlugWords
  CustomerRows <- MCCustomerRows
  OrganizationRows <- MCOrganizationRows
  WorkplaceRows <- MCWorkplaceRows
  ProjectRow <- MCProjectRow
  EmailOf <- MCEmailOf
  NoEmail = "none"
  NoName = "none"
  Handler = {h1, h2}
  RequestId = {1, 2}
  Filing <- MCFiling
  TerraformAt <- MCTerraformAt
  Path <- MCPath
  Missing = Missing
  MaxSuffix = 1
  MaxBranches = 2
  MaxDay = 1
  MaxTerraform = 2
  MaxMishaps = 2
SYMMETRY MCSymmetry
CHECK_DEADLOCK FALSE
INVARIANTS
  TypeOK
  DocumentsAreSound
  OwnFilesOnly
  CloneIsReady
PROPERTIES
  SettledStaysSettled
  RefusalsHaveALateCause
