\* Two clicks that overlap.
SPECIFICATION Spec
CONSTANTS
    Orders = {o1}
    Handlers = {h1, h2}
    MaxClicks = 2
    MaxReceives = 1
    MaxAborts = 0
SYMMETRY HandlerSymmetry
INVARIANT SecondDecisionIsNoOp
CHECK_DEADLOCK FALSE
