SPECIFICATION Spec
CONSTANTS
  NumJobs = 2
  Parallel = 2
  Mutation <- MCMutation
  Suppression <- MCSuppression
  Walk <- ReplayWalks
  Rank <- MCRank
  Replay = TRUE
  Wanted <- JustHit
  NoOp = {"masked"}
  Uncovered = {"bare"}
  TceSame = {"same"}
  Index <- MCIndex
  StoreOpen = TRUE
INVARIANTS
  CompleteUnlessError
