\* Two clicks, two executions at a time, one execution cut short.
SPECIFICATION FairSpec
CONSTANTS
    Orders = {o1}
    Handlers = {h1, h2}
    MaxClicks = 2
    MaxReceives = 2
    MaxAborts = 1
INVARIANTS TypeOK SerialDecisionsAgree CardAgrees
PROPERTIES ClicksAreUsed OverForGood HonoursContract PausedRunIsDecided
CHECK_DEADLOCK FALSE
