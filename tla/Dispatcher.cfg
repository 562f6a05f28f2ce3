\* Payloads of up to three items, in buffers from too short to ample, read whole or cut,
\* as the arguments of five opcodes.
CONSTANTS
  Base = 16
  Items <- MCItems
  MaxItems = 3
  Slack = {0, 1, 2, 3, 6, 10}
  MaxCut = 3
  Data = {"null", "array"}
  Opcodes <- MCOpcodes
  Offered <- MCOffered
CHECK_DEADLOCK FALSE
SPECIFICATION DispatchSpec
INVARIANTS RoundTrip TruncationFound SizeFallsShort CallAsSent PayloadsNeverLeave
