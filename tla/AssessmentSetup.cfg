SPECIFICATION FairSetup
CONSTANTS
  RestStarts = {r1, r2}
  GrpcStarts = {g1, launch}
  AgentStatuses <- MCAgentStatuses
  Launch = launch
  Emails <- MCEmails
  Groups <- MCGroups
  Memberships <- MCMemberships
  Files = {f1, f2}
  HasRubric = TRUE
  NULL = NULL
INVARIANTS
  LaunchedIsComplete
  CurrentWorkflowIsAnnounced
PROPERTIES
  StartsAsIfAlone
  OnlyGrpcRepairsALostStart
  StartsTakeEffect
CHECK_DEADLOCK FALSE
