SPECIFICATION Spec
CONSTANTS
  Byte = {1, 64, 144, 192, 240, 241, 242, 244, 246, 247, 248, 249}
  SysExBufferSize = 4
INVARIANT TuneRequestStandsAlone
