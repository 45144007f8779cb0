SPECIFICATION Spec
CONSTANTS
  Capacity = 4
  Word = 8
  InBlocks <- MixedInBlocks
  OutBlocks <- MixedOutBlocks
  CountWord = 2
  MaxTotal = 6
INVARIANTS TypeOK UnreadIntact PlayedInOrder NoSlotRace
PROPERTY ImplementsQueue
