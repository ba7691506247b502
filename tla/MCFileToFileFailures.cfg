SPECIFICATION CalmOrShortSpec
CONSTANTS
    Videos <- FailingVideos
    Failures = {"open", "compile", "evaluate"}
    MaxRead = 2
    MaxOut = 2
    MaxWrite = 2
    Lookahead = 0
    SizeModulus = 1024
    CalmStages = {"frame", "interframe"}
    PromptThreads = {"pipeline", "compiler", "sink"}
    LateVideos <- NoVideo
INVARIANTS
    CallsFindContext
    FinishedIsComplete
    OneOutcome
