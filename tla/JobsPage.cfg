\* An old job and a new one; one refresh not read yet, two lists on their way.
CONSTANTS
  Jobs = {j1, j2}
  Old = {j1}
  Seen = {"queued", "cancelling", "cancelled"}
  NoList = NoList
  MaxAsks = 1
  MaxFlying = 2
SPECIFICATION FairSpec
INVARIANT TypeOK
PROPERTY WatchedPageIsRight
PROPERTY ShownGoesForward
CHECK_DEADLOCK FALSE
