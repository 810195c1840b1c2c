CONSTANTS
  Last = 3
  Refs <- MCRefs
  w1 = w1
  w2 = w2
  Worker = {w1, w2}
  MaxRefreshes = 2
SPECIFICATION Spec
CHECK_DEADLOCK FALSE
INVARIANTS
  TypeOK
  EachImportedOnce
  AnswerIsStored
  StoredIsAnnounced
PROPERTIES
  RepliesAreLinked
  NewPostsAreAnnounced
