SPECIFICATION Spec
CONSTANTS
  Null = Null
  HeadSize = 4
  Base = 1
  Top = 38
  MinSize = 4
  LastClass = 4
  Requests <- Asked
  Boundaries <- Pairs
INVARIANTS
  HeapTiled
  FreeListed
  BlocksApart
  FindsWhatFits
