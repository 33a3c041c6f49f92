\* Two handlers at a time, two tokens, any number of deaths of the app.
CONSTANTS
  Tasks = {a, b}
  None = None
  MaxTokens = 2
  MaxCommands = 2
SPECIFICATION Spec
CONSTRAINT SecondTokenAtRest
SYMMETRY Symmetry
INVARIANTS
  OnlyRacesLeaveData
  ValidTokenIsKept
  NoHiddenTunnel
