SPECIFICATION CalmFairSpec
CONSTANTS
    Videos <- FullBatch
    Failures = {}
    MaxRead = 1
    MaxOut = 1
    MaxWrite = 1
    Lookahead = 0
    SizeModulus = 1024
    CalmStages = {"frame", "interframe"}
    PromptThreads = {}
    LateVideos <- NoVideo
PROPERTY
    EndOfStreamFlushed
CHECK_DEADLOCK FALSE
