SPECIFICATION FairSpec
CONSTANTS
  MaxStep = 3
  MaxExtra = 1
  Kind <- AllKinds
  MaxRuns = 2
  MaxTouch = 1
CHECK_DEADLOCK FALSE
INVARIANTS LinksMutual LinksRegistered StackIsPath CompleteIsSound DoneMeansBuilt OutputsFresh
PROPERTIES ProcessEnds
