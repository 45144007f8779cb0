\* The code breaks both: take one away to see the other.
SPECIFICATION Spec
CONSTANTS
  Capacity = 4
  Word = 8
  InBlocks <- MixedInBlocks
  OutBlocks <- MixedOutBlocks
  CountWord = 16
  MaxTotal = 7
INVARIANT TransferredWereAccepted
PROPERTY PeakOnlyRises
