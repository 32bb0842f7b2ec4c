\* The proposal as it is posted: a text without buttons.
SPECIFICATION FairSpec
CONSTANTS
    MaxRuns = 1
    Handlers = {h1}
    MaxToolLoops = 0
    Buttons = {}
    MaxAborts = 0
    MaxDeliveries = 0
PROPERTIES ApprovalIsApplied
CHECK_DEADLOCK FALSE
