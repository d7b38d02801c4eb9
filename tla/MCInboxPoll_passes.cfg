SPECIFICATION Spec
CONSTANTS
  Conversations <- MCTwo
  PageLimit = 2
  SeedBatch = 1
  SweepSize = 1
  MaxRefreshPerPoll = 1
  Unseen = Unseen
  NoDiscovery = NoDiscovery
  MaxMessages = 1
  MaxFaults = 2
INVARIANTS
  InboxIsSound
PROPERTIES
  TurnsAreKept
  EveryoneIsSeen
  EveryoneIsAnswered
