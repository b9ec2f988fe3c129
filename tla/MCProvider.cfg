SPECIFICATION FairSpec
CONSTANTS
    Configs <- MCConfigs
    Retries = 1
    IdleMax = 3
    QuestionMax = 2
    TotalMax = 4
    MaxChunks = 2

    
PROPERTIES
    
    RunEnds
