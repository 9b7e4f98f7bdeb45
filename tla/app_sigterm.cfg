SPECIFICATION AppFairSpec
CONSTANTS
    ExitCodes = {"ok"}
    MaxTerms = 1
    MaxOthers = 1
PROPERTY SigtermTaken
CHECK_DEADLOCK FALSE
