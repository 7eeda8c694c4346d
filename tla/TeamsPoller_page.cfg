CONSTANTS
    PageSize = 3
    SameChannel = TRUE
    Backlogs <- MCBacklogs
    MaxPosts = 3
    MaxFailures = 1
    MaxRestarts = 1
SPECIFICATION Spec
INVARIANTS TypeOK NoneLost
PROPERTIES OldestFirst EveryQuestionAnswered
CHECK_DEADLOCK FALSE
