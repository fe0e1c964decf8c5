SPECIFICATION FairSpec
CONSTANTS
  u1 = u1
  w1 = w1
  w2 = w2
  MaxVideos = 2
  Users = {u1}
  Author <- AuthorOf
  Flaws <- FlawsOf
  Workers = {w1, w2}
  Nothing = Nothing
  Award = 2
  MonthlyCap = 3
  MaxTroubles = 1
INVARIANTS
  FilesAreThere
  
  CreditsAreSound
CHECK_DEADLOCK FALSE
PROPERTIES
  VerdictIsFinal
  EveryVideoIsDecided
