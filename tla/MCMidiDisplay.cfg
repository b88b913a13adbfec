SPECIFICATION DisplaySpec
CONSTANTS
  Byte = {1, 64, 128, 144, 192, 240, 241, 242, 243, 244, 247, 248, 249}
  SysExBufferSize = 5
  Length <- MCLength
  Width = 1
  SyxExTextBufferSize = 3
  SysExOffsets = {0, 2}
  SysExSizes = {1, 3}
  ControlMister = FALSE
  Uses <- MCUses
  ScrollRate = 1
  ScrollDelay = 2
  SystemMessageDisplayTime = 2
  SC55DisplayTime = 2
  MaxLag = 1
  Channels = {0, 1, 9}
  Parts = {1}
  Notes = {0, 127}
  ReleaseTime = 0
  Sends <- MCSends
  MaxClockLag = 1
  LowTicks = 1
INVARIANTS DisplayTypeOK BufferInv DrawnWithin FollowsKeys
PROPERTIES StreamSpec ShownItsTime DisplaySettles EndsWhenOver
