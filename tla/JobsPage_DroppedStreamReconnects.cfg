\* Two old jobs and the page's first refresh; DroppedStreamReconnects is expected to fail.
CONSTANTS
  Jobs = {j1, j2}
  Old = {j1, j2}
  Seen = {"queued", "cancelling", "cancelled"}
  NoList = NoList
  MaxAsks = 1
  MaxFlying = 1
SPECIFICATION FairSpec
PROPERTY DroppedStreamReconnects
CHECK_DEADLOCK FALSE
