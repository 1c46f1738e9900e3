CONSTANTS
  MaxCommands = 1
  MaxFaults = 0
SPECIFICATION Spec
PROPERTY NoActionRefused
