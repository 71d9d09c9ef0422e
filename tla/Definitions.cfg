SPECIFICATION MCSpec
CONSTANTS
  MaxIters = 2
  MaxAttempts = 2
  Items = {0, 1}
  Programs <- AllPrograms
  LlmProviders = {"openai", "anthropic", "gemini", "ollama"}
  MaxItems = 3
  MaxHost = 7
  MaxRef = 5
  MaxCond = 4
  MaxLong = 7
  MaxStr = 7
  BaseDefs <- SmallDefs
  MaxEdits = 2
  MaxStarts = 3
  Width = 14
  Overrides <- RetryBlocks
  Hints = {0, 3, 200, 1000}
  MaxTries = 18
  Decoded <- JuryWorkflows
  Trees <- AllTrees
  Changes <- DiskChanges
  MaxChanges = 2
  Home <- HomeDir
  RootFile = "m.awf.yaml"
  maxImportDepth = 2
  MaxAssetFileBytes = 3
  MaxAssetTotalBytes = 6
  MaxAssetFiles = 5
INVARIANTS ReferencesSound LlmSafe TemplatesFaithful EditedResumeSound RetrySane JuryLowered LoadSafe
CHECK_DEADLOCK FALSE
