CONSTANTS
  N = 2
  T = 3
  Items = {1, 2}
  Versions = {TRUE, FALSE}
SPECIFICATION FairSpec
INVARIANT ReportsAgree
PROPERTIES HandsOverEach EverybodyEnds
