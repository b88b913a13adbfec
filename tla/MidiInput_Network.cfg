SPECIFICATION Spec
CONSTANTS
  none = none
  NoSwitch = none
  Messages <- MCMessages
  Datagrams <- MCDatagrams
  SoundFonts <- MCSoundFonts
  Capacity = 6
  SysExBufferSize = 7
  MaxMessages = 1
  MaxDatagrams = 1
INVARIANT NetworkNotesDiscarded
