\* Two handlers resumed fairly, a personal project, a resource that is not a cloud.
SPECIFICATION MeetFairSpec
CONSTANTS
  Domain = {d1}
  Project = {p1, me}
  PersonalProject = {me}
  Resource = {os, hpc}
  CloudResource = {os}
  NamedOpenStack = {os}
  Handler = {h1, h2}
  Decision = {"active", "denied", "revoked"}
  None = None
  MaxAllocations = 1
  MaxRequests = 2
  MaxMergeRequests = 2
  MaxFailures = 1
PROPERTIES
  ApprovedIsProcessed
