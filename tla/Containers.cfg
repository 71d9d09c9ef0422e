SPECIFICATION MCSpec
CONSTANTS
  Names = {"a", "img", "lab"}
  Compose = {"lab"}
  Pulled = {"img"}
  Scaled = {}
  Probed = {"a"}
  Paths = {"p", "q"}
  ImagePaths = {"p"}
  Callers = {1}
  MaxBlob = 1
  MaxIds = 2
  MaxRefs = 1
  MaxFaults = 1
  MaxEpochs = 2
  Execs = {1, 2}
  MaxExecs <- MCMaxExecs
  Writers = {1}
  MaxOut = 1
  ChunkCap = 1
  MaxBreaks = 1
  Leftovers <- MCLeftovers
  Backends = {"docker", "native"}
  NPaths = {1, 2}
  MaxEntries = 1
  MaxArchives = 1
  MaxLives = 2
  MaxErrors = 1
INVARIANTS ExecSafe
PROPERTIES DockerSafe NativeSafe ContainerCallsReturn
CHECK_DEADLOCK FALSE
