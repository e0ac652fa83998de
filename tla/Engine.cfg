SPECIFICATION Spec
CONSTANTS
  NumJobs = 3
  Parallel = 2
  Mutation <- MCMutation
  Suppression <- MCSuppression
  Walk <- MCWalk
  Rank <- MCRank
  Replay = FALSE
  Wanted <- MCMutation
  NoOp = {"masked"}
  Uncovered = {"bare"}
  TceSame = {"same"}
  Index <- MCIndex
  StoreOpen = TRUE
INVARIANTS
  TypeOK
  OneMutationAtATime
  ReportedOnce
  PromptStop
  NoSendAfterClose
  CachedBeforeReturn
  ReportOrder
PROPERTIES
  ImplementsRun
