\* Every configuration, any freezing and limiting, three calls at most.  No statuses:
\* the router sees in them what it sees in "unavailable", nothing or a number.
CONSTANTS
    Backends <- MCBackends
    copilot = "copilot"
    NoBackend = "none"
    Models <- MCModels
    model = "sonnet-4.6"
    CopilotName <- MCCopilotName
    Configs <- MCConfigs
    Statuses = {}
    MAX_FALLBACK_ATTEMPTS = 3
SPECIFICATION FairSpec
INVARIANTS IdeKeepsModel StopIsKept NobodyForgotten
PROPERTIES CallsUsable Promised
