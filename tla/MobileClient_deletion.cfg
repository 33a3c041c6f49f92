\* A deletion crosses the answer to another request.
CONSTANTS
  Tasks = {a, b}
  None = None
  MaxTokens = 1
  MaxCommands = 2
SPECIFICATION Spec
SYMMETRY Symmetry
INVARIANTS
  DeletionClearsDevice
