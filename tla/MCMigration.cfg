SPECIFICATION MCSpec
CONSTANTS
  Repositories <- MCRepositories
  Limit = 1
  Today = 6
  MaxStops = 2
  MaxEdits = 4
  None = None
  pre = pre
  post = post
  ci = ci
  gone = gone
  map = map
  done = done
INVARIANTS
  Faithful
  ReleasedDescribes
  Told
  RunAgainAgrees
PROPERTIES
  NeverLost
CHECK_DEADLOCK FALSE
