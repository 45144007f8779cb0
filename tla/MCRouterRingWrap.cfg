SPECIFICATION Spec
CONSTANTS
  Capacity = 4
  Word = 8
  InBlocks <- EqualBlocks
  OutBlocks <- EqualBlocks
  CountWord = 2
  MaxTotal = 14
INVARIANT UnreadIntact
