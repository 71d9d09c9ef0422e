SPECIFICATION ConfigSpec
CONSTANTS
  AdapterNames = {"codex"}
  MaxLines <- LinesOf
  ChunkCap = 1
  EventCap = 1
  ConfigAdapters = {"llm"}
  MaxKeys = 1
INVARIANT ReactReachesModel
CHECK_DEADLOCK FALSE
