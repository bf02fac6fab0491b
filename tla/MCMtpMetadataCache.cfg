SPECIFICATION Spec
CONSTANTS
  i1 = i1  i2 = i2   v1 = v1  v2 = v2
  Ids <- TwoIds
  Values <- TwoValues
  MaxAge = 1
  MaxFetch = 1
  MaxTime = 4
  MaxSerial = 3
INVARIANTS TypeOK ListMatchesLookup OldestFirst StaleEntriesAreRecent FillInProgress
PROPERTIES AnswersRecent ImplementsMap
