CONSTANTS
  turn = turn
  other = other
  review = review
  listen = listen
  reset = reset
  live = live
  sweep = sweep
  nobody = nobody
  u1 = u1
  u2 = u2
  s1 = s1
  s2 = s2
  item = item
  Graders = {turn, other, review}
  Listeners = {listen}
  Owners = {reset, live, sweep}
  Learners = {u1, u2, nobody}
  Rows = {s1, s2, item}
  LearnerOf <- MCLearnerOf
  RowOf <- MCRowOf
  Wanted <- MCWanted
  MaxConns = 5
SPECIFICATION FairSpec
CHECK_DEADLOCK FALSE
PROPERTIES
  OnlyTheseHangs
