\* One message is sent on a connection that nobody stops.
CONSTANTS
  HeaderSize = 2
  IgnoreBuffer = 2
  Limits = {1}
  Payloads = {0, 1}
  MaxSends = 1
  MaxLimits = 0
  MaxFrames = 0
  MaxStops = 0
CHECK_DEADLOCK FALSE
SPECIFICATION FairSpec
PROPERTY QueueDrains
