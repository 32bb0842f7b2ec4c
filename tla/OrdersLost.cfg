\* One order, one message, received twice.
SPECIFICATION Spec
CONSTANTS
    Webhooks = {o1}
    Containers = {c1}
    EnvSecret = FALSE
    Skus = {s1, s2}
    MaxBegun = 2
    MaxAttempts = 1
    MaxReceives = 2
INVARIANT NeverLosesAnOrder
CHECK_DEADLOCK FALSE
