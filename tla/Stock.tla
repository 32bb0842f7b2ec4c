-------------------------------- MODULE Stock --------------------------------
(***************************************************************************)
(* The stock of one product in Odoo and in Shopify, as ai.ops.inventory     *)
(* reads it for a reconciliation and writes its outcome.  Odoo journals     *)
(* every change of a quant as a stock.move; Shopify keeps a level for each  *)
(* of its own locations.                                                    *)
(*                                                                         *)
(* Between what an investigation reads (discrepancy_context) and what is    *)
(* written after the approval, everybody goes on working.  How a run gets   *)
(* to its write is the business of Reconciliation; here only quantities     *)
(* count.  They are in halves of a unit, because Odoo's are fractional and  *)
(* Shopify's are not.  One company, and one quant for each location.        *)
(***************************************************************************)
EXTENDS Integers, Sequences, FiniteSets, FiniteSetsExt, SequencesExt

CONSTANTS
    Internal,    \* Odoo's internal locations
    Tree,        \* those that lie under a warehouse
    Main,        \* the stock location of the company's first warehouse
    Feeds,       \* the locations whose stock Shopify really sells
    Levels,      \* Shopify's locations
    FirstLevel,  \* the one that Shopify lists first
    Partners,    \* the usages at which moves begin or end: customer, supplier, transit
    Amounts,     \* quantities of moves, in halves
    Counts,      \* what anyone may count, in halves
    Targets,     \* what the model may propose, up or down, besides the on-hand it was told
    Units,       \* what Shopify may have, in units
    MaxLimit,    \* MAX_LIMIT
    MaxMoves, MaxTampers  \* bounds: moves in all, direct writes

ASSUME StockAssumption ==
    /\ IsFiniteSet(Internal) /\ IsFiniteSet(Levels)
    /\ "loss" \notin Internal /\ "internal" \notin Partners
    /\ Main \in Tree /\ Tree \subseteq Internal /\ Feeds \subseteq Tree
    /\ FirstLevel \in Levels
    /\ Amounts \subseteq Nat \ {0} /\ Counts \subseteq Nat /\ Units \subseteq Nat
    /\ Targets \subseteq Nat
    /\ MaxLimit \in Nat \ {0}
    /\ MaxMoves \in Nat /\ MaxTampers \in Nat

VARIABLES
    moves,     \* stock.move, in the order of their dates
    quant,     \* stock.quant.quantity
    level,     \* Shopify's available quantities
    setting,   \* the Shopify Stock Location of the settings, with its children
    run,       \* an investigation, and what it wrote
    \* History, read by the properties only:
    tampers,   \* what code wrote to quants past the ledger
    fresh      \* no quantity changed since the investigation, but by its write

vars == <<moves, quant, level, setting, run, tampers, fresh>>

Usage(place) == IF place \in Internal THEN "internal" ELSE place
Places == Internal \cup Partners \cup {"loss"}

Move == [from: Places, to: Places, qty: Nat, done: BOOLEAN,
         is_inventory: BOOLEAN, scrap: BOOLEAN]

NoRun == [pc |-> "none", onHand |-> 0, warned |-> FALSE, qty |-> 0]

Init ==
    /\ moves = <<>>
    /\ quant = [l \in Internal |-> 0]
    /\ level = [v \in Levels |-> 0]
    /\ setting \in {{}, Feeds}
    /\ run = NoRun
    /\ tampers = <<>>
    /\ fresh = TRUE

SumOver(f, S) == MapThenSumSet(LAMBDA x : f[x], S)

-----------------------------------------------------------------------------
(* What the readers compute. *)

\* Mutant: the destination is looked at first.
KindByDestination(m) ==
    IF m.is_inventory THEN "inventory_adjustment"
    ELSE IF m.scrap THEN "scrap"
    ELSE IF Usage(m.to) = "internal" THEN "incoming"
    ELSE IF Usage(m.from) = "internal" THEN "outgoing"
    ELSE "other"

\* _move_kind: the flags come first, then the pair of usages.
Kind(m) ==
    IF m.is_inventory THEN "inventory_adjustment"
    ELSE IF m.scrap THEN "scrap"
    ELSE IF Usage(m.from) = "internal" /\ Usage(m.to) = "internal" THEN "internal_transfer"
    ELSE IF Usage(m.to) = "internal" THEN "incoming"
    ELSE IF Usage(m.from) = "internal" THEN "outgoing"
    ELSE "other"

Done == {i \in DOMAIN moves : moves[i].done}

Total(S) == MapThenSumSet(LAMBDA i : moves[i].qty, S)

\* Mutant: the flags are left to the filter on the rows that were read.
NoFlag(kinds) == Done

\* The search domain of warehouse_moves knows the two flags.
Searched(kinds) ==
    CASE kinds = {"inventory_adjustment"} -> {i \in Done : moves[i].is_inventory}
      [] kinds = {"scrap"} -> {i \in Done : moves[i].scrap}
      [] OTHER -> Done

\* _clamp_limit.
Clamped(limit) == Max({1, Min({limit, MaxLimit})})

Newest(S, limit) == {i \in S : Cardinality({j \in S : j > i}) < limit}

\* The other kinds are narrowed after the limit; no kinds are all kinds.
WarehouseMoves(kinds, limit) ==
    {i \in Newest(Searched(kinds), Clamped(limit)) : kinds = {} \/ Kind(moves[i]) \in kinds}

\* Mutant: a transfer between internal locations counts as incoming.
AnythingIn(m) == Usage(m.to) = "internal"

MovedIn(m) == Usage(m.to) = "internal" /\ Usage(m.from) # "internal"
MovedOut(m) == Usage(m.from) = "internal" /\ Usage(m.to) # "internal"

\* ledger_check.
ExpectedFromMoves ==
    Total({i \in Done : MovedIn(moves[i])}) - Total({i \in Done : MovedOut(moves[i])})
ActualInQuants == SumOver(quant, Internal)
Balanced == ActualInQuants = ExpectedFromMoves

\* product.qty_available, of all warehouses or of one location and its children.
QtyAvailable(S) == SumOver(quant, S)

\* Mutant: the setting is ignored.
ComparedEverywhere == Tree

\* _odoo_on_hand_for_shopify.
Compared == IF setting = {} THEN Tree ELSE setting
OnHand == QtyAvailable(Compared)
Stocked == {l \in Internal : quant[l] # 0}
Ambiguous == setting = {} /\ Cardinality(Stocked) > 1

\* get_available_inventory.
Available == SumOver(level, Levels)

\* Mutant: the quantity is sent as it is.
Unrounded(halves) == halves

\* int(round(float(qty))): to the nearest unit, and from the middle to the even one.
Rounded(halves) ==
    CASE halves % 2 = 0 -> halves
      [] halves % 4 = 1 -> halves - 1
      [] OTHER -> halves + 1

-----------------------------------------------------------------------------
(* What everybody else does. *)

PlanMove(from, to, qty, scrap) ==
    /\ Len(moves) < MaxMoves
    /\ from # to /\ (from \in Internal \/ to \in Internal)
    /\ scrap => from \in Internal /\ to = "loss"
    /\ "loss" \in {from, to} => scrap
    /\ moves' = Append(moves, [from |-> from, to |-> to, qty |-> qty, done |-> FALSE,
                               is_inventory |-> FALSE, scrap |-> scrap])
    /\ UNCHANGED <<quant, level, setting, run, tampers, fresh>>

\* Stock may become negative.
Moved(m) ==
    quant' = [l \in Internal |-> quant[l] + (IF l = m.to THEN m.qty ELSE 0)
                                          - (IF l = m.from THEN m.qty ELSE 0)]

\* A validated move is dated now.
ValidateMove(i) ==
    /\ ~moves[i].done
    /\ moves' = Append(RemoveAt(moves, i), [moves[i] EXCEPT !.done = TRUE])
    /\ Moved(moves[i])
    /\ fresh' = FALSE
    /\ UNCHANGED <<level, setting, run, tampers>>

\* An inventory adjustment sets a quant, and journals the difference as a move
\* from or to the inventory loss.
Adjustment(from, to, qty) ==
    [from |-> from, to |-> to, qty |-> qty, done |-> TRUE,
     is_inventory |-> TRUE, scrap |-> FALSE]

Adjust(l, counted) ==
    /\ Len(moves) < MaxMoves
    /\ quant' = [quant EXCEPT ![l] = counted]
    /\ moves' = Append(moves, IF counted > quant[l]
                              THEN Adjustment("loss", l, counted - quant[l])
                              ELSE Adjustment(l, "loss", quant[l] - counted))

\* Someone counts, and enters it in Odoo.
CountByHand(l, counted) ==
    /\ Adjust(l, counted)
    /\ fresh' = FALSE
    /\ UNCHANGED <<level, setting, run, tampers>>

\* Code writes the readonly quantity of a quant.
Tamper(l, diff) ==
    /\ Len(tampers) < MaxTampers
    /\ quant' = [quant EXCEPT ![l] = @ + diff]
    /\ tampers' = Append(tampers, diff)
    /\ fresh' = FALSE
    /\ UNCHANGED <<moves, level, setting, run>>

\* Sales, and people at work in Shopify.
ShopifyChanges(v, units) ==
    /\ level' = [level EXCEPT ![v] = 2 * units]
    /\ level' # level
    /\ fresh' = FALSE
    /\ UNCHANGED <<moves, quant, setting, run, tampers>>

SetLocation ==
    /\ setting' \in {{}, Feeds} \ {setting}
    /\ fresh' = FALSE
    /\ UNCHANGED <<moves, quant, level, run, tampers>>

-----------------------------------------------------------------------------
(* The reconciliation. *)

\* discrepancy_context.
Gather ==
    /\ run.pc = "none"
    /\ run' = [run EXCEPT !.pc = "gathered", !.onHand = OnHand, !.warned = Ambiguous]
    /\ fresh' = TRUE
    /\ UNCHANGED <<moves, quant, level, setting, tampers>>

\* The actions that write, with any quantity the model came to.  Its prompt wants Odoo's
\* on-hand pushed, and nothing written after a warning about the scope; no code
\* checks either.
Propose(action, qty) ==
    /\ run.pc = "gathered"
    /\ run' = [run EXCEPT !.pc = action, !.qty = qty]
    /\ UNCHANGED <<moves, quant, level, setting, tampers, fresh>>

\* Mutant: whatever internal location is found first.
AnyLocation == CHOOSE l \in Internal : l # Main

\* The default for the location that the agent's call leaves out.
PatchLocation == Main

ApplyInventoryPatch ==
    /\ run.pc = "adjust_odoo"
    /\ Adjust(PatchLocation, run.qty)
    /\ run' = [run EXCEPT !.pc = "adjusted"]
    /\ UNCHANGED <<level, setting, tampers, fresh>>

\* set_inventory_quantity sets the first level of the item.
PushInventoryToShopify ==
    /\ run.pc = "update_shopify"
    /\ level' = [level EXCEPT ![FirstLevel] = Rounded(run.qty)]
    /\ run' = [run EXCEPT !.pc = "pushed"]
    /\ UNCHANGED <<moves, quant, setting, tampers, fresh>>

Next ==
    \/ \E f, t \in Places, q \in Amounts, scrap \in BOOLEAN : PlanMove(f, t, q, scrap)
    \/ \E i \in DOMAIN moves : ValidateMove(i)
    \/ \E l \in Internal, c \in Counts : CountByHand(l, c)
    \/ \E l \in Internal, d \in Amounts : Tamper(l, d) \/ Tamper(l, -d)
    \/ \E v \in Levels, u \in Units : ShopifyChanges(v, u)
    \/ SetLocation
    \/ Gather
    \/ \E action \in {"update_shopify", "adjust_odoo"}, q \in Targets :
          Propose(action, q) \/ Propose(action, -q) \/ Propose(action, run.onHand)
    \/ ApplyInventoryPatch \/ PushInventoryToShopify

Spec == Init /\ [][Next]_vars
-----------------------------------------------------------------------------
TypeOK ==
    /\ moves \in Seq(Move) /\ Len(moves) <= MaxMoves
    /\ quant \in [Internal -> Int]
    /\ level \in [Levels -> Int] /\ \A v \in Levels : level[v] % 2 = 0
    /\ setting \in {{}, Feeds}
    /\ run \in [pc: {"none", "gathered", "update_shopify", "adjust_odoo", "pushed",
                     "adjusted"}, onHand: Int, warned: BOOLEAN, qty: Int]
    /\ tampers \in Seq(Int) /\ fresh \in BOOLEAN

\* "The ledger does not cry wolf" (test_reconciliation.py:229), nor does it keep
\* silent: ledger_check reports a gap exactly when code wrote to quants past the
\* ledger and what it wrote does not cancel out, and never because of a transfer,
\* of a location outside every warehouse, or of negative stock.
LedgerTells == Balanced <=> FoldSeq(LAMBDA d, sum : d + sum, 0, tampers) = 0

\* The kinds the model is told account for the stock: what came in, less what
\* went out or was scrapped, and the adjustments up and down.
OfKind(kind) == {i \in Done : Kind(moves[i]) = kind}

KindsAddUp ==
    LET up == {i \in OfKind("inventory_adjustment") : moves[i].from = "loss"}
        down == OfKind("inventory_adjustment") \ up
    IN ExpectedFromMoves = Total(OfKind("incoming")) + Total(up)
                           - Total(OfKind("outgoing")) - Total(OfKind("scrap")) - Total(down)

\* Who asks warehouse_moves for the adjustments, or for the scraps, gets the newest
\* of them, however many other moves there are.
FlaggedMovesAreFound ==
    \A kind \in {"inventory_adjustment", "scrap"}, limit \in 0..MaxMoves :
        WarehouseMoves({kind}, limit) = Newest(OfKind(kind), Clamped(limit))

\* A push that the prompt allows: of the on-hand that was compared, without a warning.
PushesCompared == run.pc = "pushed" /\ run.qty = run.onHand /\ ~run.warned

\* "Comparing Odoo's *total* on-hand against Shopify only works when every internal
\* location feeds Shopify" (ai_ops_inventory.py:603-604).  If the model pushes the
\* on-hand that was compared, and was not warned, then Shopify offers more than the
\* feeding locations hold, by more than half a unit, for three reasons only: a quantity or
\* the setting changed since the investigation, Shopify also stocks the item in a
\* location that is not written, or no location is configured and all the stock is in
\* one that does not feed Shopify, where the code calls the totals comparable.
OversellingIsExplained ==
    PushesCompared =>
        \/ Available <= QtyAvailable(Feeds) + 1
        \/ ~fresh
        \/ \E v \in Levels \ {FirstLevel} : level[v] # 0
        \/ setting = {} /\ \E l \in Tree \ Feeds : Stocked = {l}

\* An approved correction makes the on-hand that was compared what the proposal
\* says, unless anything else changed, if all the stock that was compared is in
\* the main location.
CorrectionIsMade ==
    (/\ run.pc = "adjusted" /\ fresh
     /\ Main \in Compared /\ \A l \in Compared \ {Main} : quant[l] = 0)
    => OnHand = run.qty

\* "Apply an inventory adjustment so on-hand quantity == counted_qty"
\* (ai_ops_inventory.py:510): so it is whenever the settings name the location
\* that was compared.
ConfiguredCorrectionIsMade ==
    (run.pc = "adjusted" /\ fresh /\ setting # {}) => OnHand = run.qty
=============================================================================
