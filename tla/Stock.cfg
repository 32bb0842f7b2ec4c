\* A shop that feeds Shopify, a back warehouse, and a location outside both.
SPECIFICATION Spec
CONSTANTS
    Internal = {shop, back, cage}
    Tree = {shop, back}
    Main = shop
    Feeds = {shop}
    Levels = {online, till}
    FirstLevel = online
    Partners = {"customer"}
    Amounts = {1}
    Counts = {3}
    Targets = {3}
    Units = {0, 1}
    MaxLimit = 2
    MaxMoves = 2
    MaxTampers = 1
INVARIANTS TypeOK LedgerTells KindsAddUp FlaggedMovesAreFound OversellingIsExplained CorrectionIsMade
CHECK_DEADLOCK FALSE
