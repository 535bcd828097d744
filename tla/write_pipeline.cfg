CONSTANTS
    Users = {u1, u2}
    Nothing = Nothing
    MaxPendingWrites = 2
    MaxWrites = 3
    MaxTasks = 3
    MaxChanges = 2
    MaxFailures = 2
    Failures = {"token", "stream", "refusal", "failedWrite", "kill"}
SPECIFICATION FairSpec
INVARIANTS TypeOK PipelineIsPrefix AnswersMatchPipeline OwnCredentials AssertionsHold InOrder
PROPERTIES Delivery EventuallyAnswered
CHECK_DEADLOCK FALSE
