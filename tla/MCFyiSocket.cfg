SPECIFICATION ClientSpec
CONSTANTS
  MaxStarts = 2
  MaxCalls = 2
  MaxInbox = 1
  Pushed = {1}
INVARIANTS
  StatusIsShown
PROPERTIES
  StoppedSocketEnds
  DeadSiteIsNoticed
  LiveSiteIsKept
  OnlyRefusalEnds
