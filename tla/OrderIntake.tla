----------------------------- MODULE OrderIntake -----------------------------
(***************************************************************************)
(* Odoo's import of Shopify orders: ai.ops.order.intake and its controller. *)
(*                                                                         *)
(* A delivery is one POST of an orders/create webhook.  Its transaction     *)
(* reads a snapshot (Begin...) and becomes visible later (Commit), as in     *)
(* Gatekeeper; but nothing it writes is a row that another one writes, so   *)
(* two of them never conflict.  The controller turns an exception into a    *)
(* 500 answer, and the transaction of an answered request commits.          *)
(*                                                                         *)
(* All orders are the first ones of one customer, known by an e-mail        *)
(* address, and have one line for each of Skus, none of which is in the     *)
(* catalog yet.  Amounts, addresses, and payloads without an order id are   *)
(* left out.                                                                *)
(***************************************************************************)
EXTENDS Naturals, FiniteSets

CONSTANTS Deliveries,   \* the POSTs that may reach Odoo
          OrderOf(_),   \* the Shopify order of a delivery
          Skus,         \* the SKUs of its line items
          MaxBegun      \* bound: POSTs for which Odoo finds a worker

VARIABLES
    request,     \* each delivery: its transaction and what that will write
    sale,        \* the sale.order a delivery inserted, committed
    partners,    \* deliveries that inserted the customer's res.partner
    products,    \* for each SKU, deliveries that inserted its product
    \* History, read by the properties only:
    overlapped   \* deliveries that were open while another one was

intakeVars == <<request, sale, partners, products, overlapped>>

\* Its lines.  That a confirmation may be refused, and the order stays a draft, is
\* not told apart.
Row == [exists: {TRUE}, lines: SUBSET Skus]
NoRow == [exists |-> FALSE, lines |-> {}]

\* pc: posted (waiting for a worker), open, then answered with ok (200) or with
\* an error (500, or a connection that breaks).
Request == [pc: {"none", "posted", "open", "ok", "error"},
            row: Row \cup {NoRow},
            partner: BOOLEAN,
            products: SUBSET Skus,
            answer: {"ok", "error"}]

NoRequest == [pc |-> "none", row |-> NoRow, partner |-> FALSE, products |-> {},
              answer |-> "error"]

IntakeInit ==
    /\ request = [d \in Deliveries |-> NoRequest]
    /\ sale = [d \in Deliveries |-> NoRow]
    /\ partners = {}
    /\ products = [s \in Skus |-> {}]
    /\ overlapped = {}

-----------------------------------------------------------------------------
\* What a transaction finds in its snapshot.

Rows(o) == {d \in Deliveries : OrderOf(d) = o /\ sale[d] # NoRow}

\* Mutant: no search for the order.
NoneFound(o) == {}

Existing(o) == Rows(o)

\* _find_or_create_product creates what default_code does not find.
MissingProducts(skus) == {s \in skus : products[s] = {}}

\* Mutant: no search for the e-mail address.
AlwaysMissing == TRUE

\* _find_or_create_partner, by email.
PartnerMissing == partners = {}

Begun == {d \in Deliveries : request[d].pc \notin {"none", "posted"}}
Open == {d \in Deliveries : request[d].pc = "open"}

\* The body of process_order_create has run: what the commit will write.
Ran(d, row, partner, new, answer) ==
    /\ request[d].pc = "posted" /\ Cardinality(Begun) < MaxBegun
    /\ request' = [request EXCEPT ![d] = [pc |-> "open", row |-> row,
                                          partner |-> partner, products |-> new,
                                          answer |-> answer]]
    /\ overlapped' = IF Open = {} THEN overlapped ELSE overlapped \cup Open \cup {d}
    /\ UNCHANGED <<sale, partners, products>>

\* The order exists, whatever became of its import.
FindsDuplicate(d) ==
    /\ Existing(OrderOf(d)) # {}
    /\ Ran(d, NoRow, FALSE, {}, "ok")

\* The order, its customer and its products, confirmed or left as a draft.
Imports(d) ==
    /\ Existing(OrderOf(d)) = {}
    /\ Ran(d, [exists |-> TRUE, lines |-> Skus], PartnerMissing,
           MissingProducts(Skus), "ok")

\* Refused for its token or its JSON (401, 503 or 400).
Refused(d) == Ran(d, NoRow, FALSE, {}, "error")

\* An exception before the sale.order was created, with the partner made or not.
FailsEarly(d) ==
    /\ Existing(OrderOf(d)) = {}
    /\ \E partner \in {FALSE, PartnerMissing} : Ran(d, NoRow, partner, {}, "error")

\* An exception after it was created, in a product, in a line, or in the message
\* about the confirmation that was refused.
FailsLate(d) ==
    /\ Existing(OrderOf(d)) = {}
    /\ \E lines \in SUBSET Skus : \E tried \in {lines} \cup {lines \cup {s} : s \in Skus} :
          Ran(d, [exists |-> TRUE, lines |-> lines], PartnerMissing,
              MissingProducts(tried), "error")

Post(d) ==
    /\ request[d].pc = "none"
    /\ request' = [request EXCEPT ![d].pc = "posted"]
    /\ UNCHANGED <<sale, partners, products, overlapped>>

\* The controller returned, with 200 or with 500, and Odoo commits either.
Commit(d) ==
    /\ request[d].pc = "open"
    /\ sale' = [sale EXCEPT ![d] = request[d].row]
    /\ partners' = IF request[d].partner THEN partners \cup {d} ELSE partners
    /\ products' = [s \in Skus |-> IF s \in request[d].products
                                   THEN products[s] \cup {d} ELSE products[s]]
    /\ request' = [request EXCEPT ![d] = [NoRequest EXCEPT !.pc = request[d].answer]]
    /\ UNCHANGED overlapped

\* The worker dies, or PostgreSQL aborts the transaction.
Rollback(d) ==
    /\ request[d].pc = "open"
    /\ request' = [request EXCEPT ![d] = [NoRequest EXCEPT !.pc = "error"]]
    /\ UNCHANGED <<sale, partners, products, overlapped>>

IntakeStep(d) ==
    \/ Refused(d) \/ FindsDuplicate(d)
    \/ Imports(d) \/ FailsEarly(d) \/ FailsLate(d)
    \/ Commit(d) \/ Rollback(d)
-----------------------------------------------------------------------------
IntakeTypeOK ==
    /\ request \in [Deliveries -> Request]
    /\ sale \in [Deliveries -> Row \cup {NoRow}]
    /\ partners \in SUBSET Deliveries
    /\ products \in [Skus -> SUBSET Deliveries]
    /\ overlapped \in SUBSET Deliveries

Whole(d) == sale[d].lines = Skus

\* "Idempotent ... a second delivery for the same shopify_order_id returns the
\* existing order instead of duplicating it" (ai_ops_order_intake.py:17-19), for
\* deliveries that do not overlap; shopify_order_id is not unique.
ImportedOnce ==
    \A d, e \in Deliveries :
        (d # e /\ OrderOf(d) = OrderOf(e) /\ sale[d] # NoRow /\ sale[e] # NoRow)
        => d \in overlapped /\ e \in overlapped

\* Neither the customer nor a product is created twice by deliveries that do not
\* overlap, of whatever orders, not even after an import that failed half-way.
CatalogTidy ==
    \A made \in {partners} \cup {products[s] : s \in Skus} :
        \A d, e \in made : d # e => d \in overlapped /\ e \in overlapped
=============================================================================
