SPECIFICATION Spec
CONSTANTS
  Slack = 12
  MAX_EVENTS = 2
  MAX_DESC = 2
  MaxStreams = 3
  MaxEvents = 3
  PmtSections <- MCPmtSections
  EitSections <- MCEitSections
  Calendar <- MCCalendar
  HeaderOf <- MCHeaderOf
  ClockOf <- MCClockOf
INVARIANTS PmtExact EitExact InPlaceUntilCut OnlyWrongEventLeaks TimeIsRight TextFits
PROPERTY PmtReadsInside
CHECK_DEADLOCK FALSE
