\* One replica, as after the service scaled in, and one message.
SPECIFICATION FairSpec
CONSTANTS
    Messages = {m1}
    Malformed = {}
    Replicas = {r1}
    MaxReceives = 2
    MaxBatch = 1
PROPERTY PollsContinuously
