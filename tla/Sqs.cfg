\* Two replicas, a webhook and a body that is not JSON, two receives of each.
\* No symmetry: a liveness property is checked.
SPECIFICATION FairSpec
CONSTANTS
    Messages = {m1, m2}
    Malformed = {m2}
    Replicas = {r1, r2}
    MaxReceives = 2
    MaxBatch = 2
INVARIANTS TypeOK OneHandlerAtATime
PROPERTIES DeliversAtLeastOnce MessagesSettle
