\* One order that is sent twice at most, each message received twice, and two
\* transactions in Odoo.  No symmetry: a liveness property is checked.
SPECIFICATION FairSpec
CONSTANTS
    Webhooks = {o1}
    Containers = {c1}
    EnvSecret = FALSE
    Skus = {s1}
    MaxBegun = 2
    MaxAttempts = 2
    MaxReceives = 2
INVARIANTS TypeOK AcknowledgedIsQueued HandledIsImported ImportedOnce CatalogTidy
PROPERTY AcknowledgedIsSettled
CHECK_DEADLOCK FALSE
