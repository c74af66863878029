\* The restriction checked when an allocation is requested, not when it is
\* activated.
SPECIFICATION Spec
CONSTANTS
  Domain = {d1}
  Project = {p1}
  PersonalProject = {}
  Resource = {os}
  CloudResource = {os}
  NamedOpenStack = {os}
  Handler = {h1}
  Decision = {"active", "denied"}
  None = None
  MaxAllocations = 2
  MaxRequests = 2
  MaxMergeRequests = 2
  MaxFailures = 0
INVARIANTS
  OneActiveOpenstackAllocation
