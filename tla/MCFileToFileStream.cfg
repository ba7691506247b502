SPECIFICATION CalmSpec
CONSTANTS
    Videos <- ManyVideos
    Failures = {}
    MaxRead = 2
    MaxOut = 2
    MaxWrite = 2
    Lookahead = 1
    SizeModulus = 1024
    CalmStages = {"frame", "interframe"}
    PromptThreads = {"source"}
    LateVideos <- OnePacket
INVARIANTS
    TypeOK NoNumberTwice NoFrameLost FinishedIsComplete
PROPERTY
    TransfersVideo
