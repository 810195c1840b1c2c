CONSTANTS
  Last = 2
  Refs <- MCRefs
  w1 = w1
  w2 = w2
  Worker = {w1}
  MaxRefreshes = 1
SPECIFICATION Spec
CHECK_DEADLOCK FALSE
PROPERTIES
  OnlyNewPostsAreAdded
