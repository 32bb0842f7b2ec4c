\* The main location is in the back warehouse, and the shop feeds Shopify.
SPECIFICATION Spec
CONSTANTS
    Internal = {shop, back, cage}
    Tree = {shop, back}
    Main = back
    Feeds = {shop}
    Levels = {online, till}
    FirstLevel = online
    Partners = {"customer"}
    Amounts = {1}
    Counts = {3}
    Targets = {3}
    Units = {0, 1}
    MaxLimit = 2
    MaxMoves = 2
    MaxTampers = 1
INVARIANT ConfiguredCorrectionIsMade
CHECK_DEADLOCK FALSE
