SPECIFICATION LayersSpec
CONSTANTS
  AdbRing = 3
  Keys = {k1, k2}
  Reply = reply
  Tick = tick
  NoPacket = none
  MaxPackets = 5
  MaxRequests = 2
  Commands = {"time", "reset"}
  Payload <- TwoBytes
  Length <- Lengths
  MaxReply = 4
  MaxCalls = 3
  MaxPolls = 2
CHECK_DEADLOCK FALSE
INVARIANT SpinsForAReset
