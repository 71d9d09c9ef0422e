SPECIFICATION MCSpec
CONSTANTS
  AdapterNames = {"claude", "session", "codex", "droid", "goose"}
  MaxLines <- LinesOf
  ChunkCap = 1
  EventCap = 1
  ConfigAdapters = {"claude", "session", "codex", "droid", "goose", "llm", "live"}
  MaxKeys = 2
INVARIANTS AdapterSafe ConfigSafe
PROPERTY LaunchReturns
CHECK_DEADLOCK FALSE
