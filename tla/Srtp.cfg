SPECIFICATION FairSpec
CONSTANTS
  Buffers = {b1, b2}
  DtlsCap = 1
  RtpCap = 1
  Writers = {w1, w2}
  MaxWrites = 2
  None = None
INVARIANTS OneOwner
PROPERTIES WireInOrder DemuxEnds DeadlineHeard
CHECK_DEADLOCK FALSE
