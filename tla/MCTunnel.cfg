\* Packets of less than a frame, of two frames (the last one full or not), and too long ones.
SPECIFICATION FairSpec
CONSTANTS
  Ids = {a, b, c}
  Bodies = {0, 2, 3, 4, 6}
  Header = 1
  MaxFrameLen = 3
  MaxPacketLen = 4
  MaxPendingLen = 4
  MaxInFlight = 2
INVARIANTS
  TypeOK
  HoldsOneBeginning
PROPERTIES
  RefusedForSize
  DeliversPackets
  DeliversEventually
