SPECIFICATION Spec
CONSTANTS
    Launchers = {"a", "b"}
    Recovery <- Mixed
    MaxAttempts = 2
    MaxEpochs = 2
    MaxFaults = 2
    Paths = {"bin", "opt"}
    Versions = {"v1", "v2"}
    Installed <- Found
    Callers = {"x", "y"}
    Servers = {1, 2}
    LastEvent = 2
    Capacity = 1
    MaxStops = 1
    Launches = {"p", "q", "r"}
    Document <- Documents
    MaxUses = 2
    MaxExpiries = 2
    MaxErrors = 1
INVARIANTS RegistrySafe CacheSafe
PROPERTIES ClientSafe RegistrySteps
CHECK_DEADLOCK FALSE
