\* The gates before a tool, with policy changes, "always" answers and a grounded run; and the client of a tool server that two goroutines share.
SPECIFICATION MCSpec
CONSTANTS
    Call <- AllCalls
    File <- OneFile
    Permission <- AskAll
    Policies <- GateOrAuto
    Enforced = TRUE
    AutoApproveAll = FALSE
    Previews = TRUE
    Answers <- AllAnswers
    Threshold = 2
    HistoryMax = 2
    GroundingMax = 1
    MaxVersions = 3
    MaxStamps = 2
    RemoteTool <- ToolNames
    Callers = {1, 2}
    Endpoint = "mcp"
    Hosts = {"mcp", "cdn"}
    Catalogs <- Offers
    Bodies <- Replies
    RegistryName <- Sanitized
    MaxTools = 3
    MaxPages = 2
    MaxRedirects = 2
    MaxRequests = 5
INVARIANTS LoopsBounded GatesHold McpKept
PROPERTIES RejectedUntouched RereadAfterRefusal
CHECK_DEADLOCK FALSE
