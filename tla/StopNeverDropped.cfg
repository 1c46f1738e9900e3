CONSTANTS
  MaxCommands = 2
  MaxFaults = 0
SPECIFICATION Spec
PROPERTY StopNeverDropped
