CONSTANTS
  Device = {d1, d2}
  Hooked = {"arrived", "removed", "bound", "unbound"}
  Burst = 4
  MaxBacklog = 3
  MaxEvents = 6
  Source = {s1, s2}
  NoSource = NoSource
  MaxCalls = 3
  MaxServerChange = 2
  MaxFault = 3
  Node <- Nodes
  Link <- Links
  Target <- Targets
  Capture <- Captures
  Driver <- Drivers
  MaxMove = 2
  MaxDescriptor = 4
  MaxOther = 2
SPECIFICATION MCSpec
INVARIANTS TypesOK NothingIsSkipped AnswersAreTrue EverythingIsReleased ListedAsFound
PROPERTY CallReturns
CHECK_DEADLOCK FALSE
