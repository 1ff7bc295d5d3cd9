SPECIFICATION Spec
CONSTANTS
  LocalCheckpoints <- MCLocalCheckpoints
  MaxAncestryDepth = 2
  Disks <- MCDisks
  Served <- MCServed
  ActionSteps <- MCActionSteps
  Sidecars <- MCNamingSidecars
  Moves <- MCMoves
  MaxEpisodes = 2
  MaxRequests = 2
INVARIANTS
  CertifiedMeansIntended
