SPECIFICATION CalmSpec
CONSTANTS
    Videos <- OnePacket
    Failures = {}
    MaxRead = 2
    MaxOut = 2
    MaxWrite = 1
    Lookahead = 0
    SizeModulus = 1024
    CalmStages = {"frame"}
    PromptThreads = {}
    LateVideos <- NoVideo
INVARIANTS
    PairsUseTheirScript
