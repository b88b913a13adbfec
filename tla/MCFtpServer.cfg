CONSTANTS
  Names = {"SD", "USB", "x", "y", "A", "I", "E", "right", "wrong", "address", "none"}
  Volumes = {"SD", "USB"}
  Default = "SD"
  Paths <- MCPaths
  Tree <- MCTree
  Commands <- MCCommands
  MaxChunks = 1
SPECIFICATION Spec
INVARIANTS OneFinalReply StoreComplete
PROPERTIES ServiceSpec SlotFreed
