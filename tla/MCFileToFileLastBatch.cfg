SPECIFICATION CalmSpec
CONSTANTS
    Videos <- OnePacket
    Failures = {}
    MaxRead = 2
    MaxOut = 2
    MaxWrite = 2
    Lookahead = 0
    SizeModulus = 1024
    CalmStages = {"frame", "interframe"}
    PromptThreads = {}
    LateVideos <- NoVideo
INVARIANTS
    EveryPairWritten
