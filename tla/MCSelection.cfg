CONSTANTS
  Setups <- MCSetups
  QueueSize = 5
  ButtonStateHistoryLength = 2
  Intervals = {31}
  FontOrder <- MCFonts
SPECIFICATION Spec
INVARIANTS TypeOK ReportedOnce DetentsCounted AsSelected
PROPERTIES Honoured Converges RepeatsEnd
