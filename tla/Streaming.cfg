SPECIFICATION FairStreamSpec
CONSTANTS
  Slot = {s1, s2}
  Key <- MCKey
  Requests <- MCRequests
  ReasoningBudget = 1
  None = None
INVARIANTS SidecarExclusive OneUpstream HonestReply
PROPERTIES StreamReleasesWorker RouteEnds
CHECK_DEADLOCK FALSE
