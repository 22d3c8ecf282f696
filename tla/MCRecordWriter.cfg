SPECIFICATION FairSpec
CONSTANTS
  video = video
  meta = meta
  reply = reply
  Producers = {video, meta, reply}
  Droppable = {video, meta}
  Fatal = {video}
  QueueLimit = 2
  MaxSeals = 4
  NoOne = NoOne
CHECK_DEADLOCK FALSE
INVARIANTS PeerInSync QueueBounded
PROPERTIES WireOrderIsSealOrder StopEnds EverySealDelivered
