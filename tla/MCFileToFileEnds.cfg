SPECIFICATION CalmFairSpec
CONSTANTS
    Videos <- EndingInputs
    Failures = {}
    MaxRead = 2
    MaxOut = 2
    MaxWrite = 1
    Lookahead = 1
    SizeModulus = 1024
    CalmStages = {"frame", "interframe"}
    PromptThreads = {"sink"}
    LateVideos <- NoVideo
PROPERTY
    ResultComes
