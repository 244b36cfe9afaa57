SPECIFICATION FairSpec
CONSTANTS
    Requests = {r1, r2}
    Inputs <- MCInputs
    UpstreamErrors = {401}
    Environments <- MCEnvironments
    HttpUrls = {"http", "ready", "sidecar"}
    DatabaseUrls = {"postgres"}
    Nothing = Nothing
    Blank = Blank
    Undecodable = Undecodable
    DEFAULT_SIDECAR_URL = "sidecar"
    DEFAULT_SIDECAR_READINESS_URL = "ready"
    DEFAULT_REGISTRY_PATH = "registry"
    ShareOne = 10
    READINESS_DEPENDENCY_TIMEOUT = 1
    STANDARD_REQUEST_TIMEOUT = 2
    INFERENCE_REQUEST_TIMEOUT = 3
    SHUTDOWN_TIMEOUT = 2
    STANDARD_PAYLOAD_SIZE = 1
    INFERENCE_PAYLOAD_SIZE = 2
CHECK_DEADLOCK FALSE
INVARIANTS
    AccessIsByKey
    NobodyIsCutShort
    ReadinessFollowsSidecar
PROPERTIES
    HandlersEnd
    ShutdownEnds
