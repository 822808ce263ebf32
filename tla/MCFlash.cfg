SPECIFICATION FairSpec
CONSTANTS
  ClockMod = 4
  Pages = 3
  PageWords = 1
  Protected <- MCProtected
  EraseTime = 1
  MaxLag = 1
  MaxDrops = 1
INVARIANTS TypeOK OkIsTrue
PROPERTIES OnlyWhereAsked NotGivenUpEarly CommandEnds
