\* Frames below, at and beyond the limit arrive while the application sends, changes
\* the limit and stops; HeaderSize is 2 and the ignore buffer takes 2 of up to 3 bytes.
CONSTANTS
  HeaderSize = 2
  IgnoreBuffer = 2
  Limits = {0, 1}
  Payloads = {0, 1, 3}
  MaxSends = 2
  MaxLimits = 1
  MaxFrames = 3
  MaxStops = 1
CHECK_DEADLOCK FALSE
SPECIFICATION FairSpec
INVARIANTS TypeOK FramingKept OneWriter
PROPERTIES StoppedReleases EofCloses
