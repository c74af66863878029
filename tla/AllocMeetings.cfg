\* Two handlers interleaved at every await, and which of them met; one of them
\* fails half-way.
SPECIFICATION MeetSpec
CONSTANTS
  Domain = {d1, d2}
  Project = {p1}
  PersonalProject = {}
  Resource = {os}
  CloudResource = {os}
  NamedOpenStack = {os}
  Handler = {h1, h2}
  Decision = {"active", "denied", "revoked"}
  None = None
  MaxAllocations = 1
  MaxRequests = 3
  MaxMergeRequests = 2
  MaxFailures = 1
SYMMETRY Symmetry
INVARIANTS
  TypeOK
  HandlersInStep
  DomainIsFixed
  MergeRequestsWereDecided
  RecordedUrlIsOwn
  PendingIsShown
  ActiveWasProposed
  OrphansComeFromFailures
PROPERTIES
  ImplementsLedger
  DenialKeepsActive
  RecordedUrlStands
