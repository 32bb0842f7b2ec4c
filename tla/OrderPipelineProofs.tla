------------------------- MODULE OrderPipelineProofs -------------------------
(***************************************************************************)
(* Proofs about OrderPipeline, for any number of webhooks, containers,      *)
(* attempts, receives and SKUs: what a sender saw acknowledged is queued,   *)
(* what the agent is done with is imported, and deliveries that do not      *)
(* overlap import nothing twice.                                           *)
(*                                                                         *)
(* A transaction is as good as committed while it is open: who begins after *)
(* it was committed finds its rows, who begins before overlaps it.          *)
(***************************************************************************)
EXTENDS OrderPipeline, TLAPS

Answered(d) == request[d].pc \in {"ok", "error"}

\* What a delivery inserted, or will insert when it commits.
MadeSale(d) ==
    \/ sale[d] # Intake!NoRow
    \/ request[d].pc = "open" /\ request[d].row # Intake!NoRow
MadePartner(d) ==
    \/ d \in partners
    \/ request[d].pc = "open" /\ request[d].partner
MadeProduct(s, d) ==
    \/ d \in products[s]
    \/ request[d].pc = "open" /\ s \in request[d].products

Overlap(d, e) == d \in overlapped /\ e \in overlapped

SalesOK == \A d, e \in Deliveries :
    d # e /\ OrderOf(d) = OrderOf(e) /\ MadeSale(d) /\ MadeSale(e) => Overlap(d, e)
PartnersOK == \A d, e \in Deliveries :
    d # e /\ MadePartner(d) /\ MadePartner(e) => Overlap(d, e)
ProductsOK == \A s \in Skus : \A d, e \in Deliveries :
    d # e /\ MadeProduct(s, d) /\ MadeProduct(s, e) => Overlap(d, e)

\* A sale.order of the order is committed.
Imported(o) == \E d \in Deliveries : OrderOf(d) = o /\ sale[d] # Intake!NoRow

\* What a delivery knows of the import: an answer of 200 leaves the order in Odoo.
ImportOK(d) ==
    /\ sale[d] # Intake!NoRow =>
          /\ Answered(d)
          /\ request[d].pc = "ok" => sale[d].lines = Skus
    /\ request[d].pc = "open" /\ request[d].answer = "ok" =>
          IF request[d].row = Intake!NoRow THEN Imported(OrderOf(d))
                                           ELSE request[d].row.lines = Skus
    /\ request[d].pc = "ok" => Imported(OrderOf(d))

IInv ==
    /\ TypeOK
    /\ AcknowledgedIsQueued
    /\ SalesOK /\ PartnersOK /\ ProductsOK
    /\ \A d \in Deliveries : ImportOK(d)
    /\ \A m \in handled : Imported(WebhookOf(m))

-----------------------------------------------------------------------------
(* Operators *)

LEMMA DeliveryParts ==
    /\ \A d \in Deliveries : MessageOf(d) \in Messages
    /\ \A m \in Messages : WebhookOf(m) \in Webhooks
BY DEF Deliveries, Messages, MessageOf, WebhookOf

LEMMA Rows == \A o : Intake!Existing(o) = {} <=> ~Imported(o)
BY DEF Intake!Existing, Intake!Rows, Imported

LEMMA Types ==
    /\ Intake!NoRow \notin Intake!Row
    /\ Intake!NoRequest \in Intake!Request
    /\ Intake!NoRequest.pc = "none" /\ Intake!NoRequest.row = Intake!NoRow
    /\ \A lines \in SUBSET Skus : [exists |-> TRUE, lines |-> lines] \in Intake!Row
BY DEF Intake!NoRow, Intake!Row, Intake!NoRequest, Intake!Request

-----------------------------------------------------------------------------
(* The import *)

\* It is enough to look at the delivery whose transaction moves.
LEMMA OneDelivery ==
    ASSUME IInv, NEW d \in Deliveries,
           UNCHANGED <<edgeVars, queueVars, waiting>>, Intake!IntakeTypeOK',
           \A x \in Deliveries \ {d} : request'[x] = request[x] /\ sale'[x] = sale[x],
           \A o : Imported(o) => Imported(o)',
           SalesOK', PartnersOK', ProductsOK', ImportOK(d)'
    PROVE  IInv'
<1>1. UNCHANGED <<cache, attempts, acked, stage, received, handled, waiting>>
    BY DEF edgeVars, queueVars
<1>2. Edge!EdgeTypeOK'
    BY <1>1 DEF IInv, TypeOK, Edge!EdgeTypeOK
<1>3. TypeOK' /\ AcknowledgedIsQueued'
    BY <1>1, <1>2 DEF IInv, TypeOK, AcknowledgedIsQueued, MessagesOf
<1>4. ASSUME NEW x \in Deliveries PROVE ImportOK(x)'
    <2>1. CASE x = d
        BY <2>1
    <2>2. CASE x # d
        BY <2>2 DEF IInv, ImportOK, Answered
    <2> QED BY <2>1, <2>2
<1>5. \A m \in handled' : Imported(WebhookOf(m))'
    BY <1>1 DEF IInv
<1> QED BY <1>3, <1>4, <1>5 DEF IInv

\* A transaction reads its snapshot: what it means to insert was not there, so
\* whoever means to insert it too is open as well.
LEMMA RanInv ==
    ASSUME IInv, NEW d \in Deliveries,
           NEW row \in Intake!Row \cup {Intake!NoRow}, NEW partner \in BOOLEAN,
           NEW new \in SUBSET Skus, NEW answer \in {"ok", "error"},
           Intake!Ran(d, row, partner, new, answer),
           UNCHANGED <<edgeVars, queueVars, waiting>>,
           row # Intake!NoRow => ~Imported(OrderOf(d)),
           partner => partners = {},
           \A s \in new : products[s] = {},
           answer = "ok" => IF row = Intake!NoRow THEN Imported(OrderOf(d))
                                                  ELSE row.lines = Skus
    PROVE  IInv'
<1> DEFINE rec == [pc |-> "open", row |-> row, partner |-> partner,
                   products |-> new, answer |-> answer]
<1>1. /\ request' = [request EXCEPT ![d] = rec] /\ request[d].pc = "posted"
      /\ UNCHANGED <<sale, partners, products>>
    BY DEF Intake!Ran
<1>2. /\ rec \in Intake!Request /\ rec.pc = "open" /\ rec.row = row
      /\ rec.partner = partner /\ rec.products = new /\ rec.answer = answer
    BY DEF Intake!Request
<1> HIDE DEF rec
<1>3. /\ request'[d] = rec /\ request' \in [Deliveries -> Intake!Request]
      /\ \A x \in Deliveries \ {d} : request'[x] = request[x]
    BY <1>1, <1>2 DEF IInv, TypeOK, Intake!IntakeTypeOK
<1>4. /\ overlapped \subseteq overlapped' /\ overlapped' \subseteq Deliveries
      /\ \A x \in Deliveries : request[x].pc = "open" => Overlap(x, d)'
    BY DEF Intake!Ran, Intake!Open, Overlap, IInv, TypeOK, Intake!IntakeTypeOK
<1>5. Intake!IntakeTypeOK'
    BY <1>1, <1>3, <1>4 DEF IInv, TypeOK, Intake!IntakeTypeOK
<1>6. SalesOK'
    <2>1. ASSUME NEW a \in Deliveries, NEW b \in Deliveries, a # b,
                 OrderOf(a) = OrderOf(b), MadeSale(a)', MadeSale(b)', b # d
          PROVE  Overlap(a, b)'
        <3>1. MadeSale(b)
            BY <1>1, <1>3, <2>1 DEF MadeSale
        <3>2. CASE MadeSale(a)
            BY <1>4, <2>1, <3>1, <3>2 DEF IInv, SalesOK, Overlap
        <3>3. CASE ~MadeSale(a)
            <4>1. a = d /\ row # Intake!NoRow
                BY <1>1, <1>2, <1>3, <2>1, <3>3 DEF MadeSale
            <4>2. request[b].pc = "open"
                BY <2>1, <3>1, <4>1 DEF MadeSale, Imported
            <4> QED BY <1>4, <4>1, <4>2 DEF Overlap
        <3> QED BY <3>2, <3>3
    <2> QED BY <2>1 DEF SalesOK, Overlap
<1>7. PartnersOK'
    <2>1. ASSUME NEW a \in Deliveries, NEW b \in Deliveries, a # b,
                 MadePartner(a)', MadePartner(b)', b # d
          PROVE  Overlap(a, b)'
        <3>1. MadePartner(b)
            BY <1>1, <1>3, <2>1 DEF MadePartner
        <3>2. CASE MadePartner(a)
            BY <1>4, <2>1, <3>1, <3>2 DEF IInv, PartnersOK, Overlap
        <3>3. CASE ~MadePartner(a)
            <4>1. a = d /\ partner
                BY <1>1, <1>2, <1>3, <2>1, <3>3 DEF MadePartner
            <4>2. request[b].pc = "open"
                BY <3>1, <4>1 DEF MadePartner
            <4> QED BY <1>4, <4>1, <4>2 DEF Overlap
        <3> QED BY <3>2, <3>3
    <2> QED BY <2>1 DEF PartnersOK, Overlap
<1>8. ProductsOK'
    <2>1. ASSUME NEW s \in Skus, NEW a \in Deliveries, NEW b \in Deliveries, a # b,
                 MadeProduct(s, a)', MadeProduct(s, b)', b # d
          PROVE  Overlap(a, b)'
        <3>1. MadeProduct(s, b)
            BY <1>1, <1>3, <2>1 DEF MadeProduct
        <3>2. CASE MadeProduct(s, a)
            BY <1>4, <2>1, <3>1, <3>2 DEF IInv, ProductsOK, Overlap
        <3>3. CASE ~MadeProduct(s, a)
            <4>1. a = d /\ s \in new
                BY <1>1, <1>2, <1>3, <2>1, <3>3 DEF MadeProduct
            <4>2. request[b].pc = "open"
                BY <3>1, <4>1 DEF MadeProduct
            <4> QED BY <1>4, <4>1, <4>2 DEF Overlap
        <3> QED BY <3>2, <3>3
    <2> QED BY <2>1 DEF ProductsOK, Overlap
<1>9. \A o : Imported(o) => Imported(o)'
    BY <1>1 DEF Imported
<1>10. ImportOK(d)'
    <2>1. sale'[d] = Intake!NoRow
        BY <1>1 DEF IInv, ImportOK, Answered
    <2> QED BY <1>2, <1>3, <1>9, <2>1 DEF ImportOK, Answered
<1> QED BY <1>1, <1>3, <1>5, <1>6, <1>7, <1>8, <1>9, <1>10, OneDelivery

\* A transaction that inserts no order, and no product.
LEMMA NoRowRan ==
    ASSUME IInv, NEW d \in Deliveries,
           NEW partner \in BOOLEAN, NEW answer \in {"ok", "error"},
           Intake!Ran(d, Intake!NoRow, partner, {}, answer),
           UNCHANGED <<edgeVars, queueVars, waiting>>,
           partner => partners = {},
           answer = "ok" => Imported(OrderOf(d))
    PROVE  IInv'
<1> DEFINE row == Intake!NoRow
           new == {}
<1>1. /\ row \in Intake!Row \cup {Intake!NoRow} /\ row = Intake!NoRow
      /\ new \in SUBSET Skus /\ \A s \in new : products[s] = {}
    OBVIOUS
<1>2. Intake!Ran(d, row, partner, new, answer)
    OBVIOUS
<1> HIDE DEF row, new
<1> QED BY <1>1, <1>2, RanInv

\* What process_order_create may do, and answer.
LEMMA SnapshotInv ==
    ASSUME IInv, NEW d \in Deliveries,
           \/ Intake!Refused(d) \/ Intake!FindsDuplicate(d) \/ Intake!Imports(d)
           \/ Intake!FailsEarly(d) \/ Intake!FailsLate(d),
           UNCHANGED <<edgeVars, queueVars, waiting>>
    PROVE  IInv'
<1>1. CASE Intake!Refused(d)
    <2> DEFINE partner == FALSE
               answer == "error"
    <2>1. /\ partner \in BOOLEAN /\ ~partner /\ answer \in {"ok", "error"}
          /\ answer # "ok" /\ Intake!Ran(d, Intake!NoRow, partner, {}, answer)
        BY <1>1 DEF Intake!Refused
    <2> HIDE DEF partner, answer
    <2> QED BY <2>1, NoRowRan
<1>2. CASE Intake!FindsDuplicate(d)
    <2> DEFINE partner == FALSE
               answer == "ok"
    <2>1. /\ partner \in BOOLEAN /\ ~partner /\ answer \in {"ok", "error"}
          /\ Imported(OrderOf(d)) /\ Intake!Ran(d, Intake!NoRow, partner, {}, answer)
        BY <1>2, Rows DEF Intake!FindsDuplicate
    <2> HIDE DEF partner, answer
    <2> QED BY <2>1, NoRowRan
<1>3. ASSUME NEW skus \in SUBSET Skus
      PROVE  /\ Intake!MissingProducts(skus) \in SUBSET Skus
             /\ \A s \in Intake!MissingProducts(skus) : products[s] = {}
    BY DEF Intake!MissingProducts
<1>4. /\ Intake!PartnerMissing \in BOOLEAN
      /\ Intake!PartnerMissing => partners = {}
    BY DEF Intake!PartnerMissing
<1>5. CASE Intake!Imports(d)
    <2> DEFINE row == [exists |-> TRUE, lines |-> Skus]
    <2>1. /\ row \in Intake!Row /\ row # Intake!NoRow /\ row.lines = Skus
        BY DEF Intake!Row, Intake!NoRow
    <2>2. /\ ~Imported(OrderOf(d))
          /\ Intake!Ran(d, row, Intake!PartnerMissing, Intake!MissingProducts(Skus), "ok")
        BY <1>5, Rows DEF Intake!Imports
    <2> HIDE DEF row
    <2> QED BY <1>3, <1>4, <2>1, <2>2, RanInv
<1>6. CASE Intake!FailsEarly(d)
    <2>1. PICK partner \in {FALSE, Intake!PartnerMissing} :
            Intake!Ran(d, Intake!NoRow, partner, {}, "error")
        BY <1>6 DEF Intake!FailsEarly
    <2> DEFINE answer == "error"
    <2>2. partner \in BOOLEAN /\ (partner => partners = {})
        <3>1. CASE partner = FALSE
            BY <3>1
        <3>2. CASE partner = Intake!PartnerMissing
            BY <1>4, <3>2
        <3> QED BY <2>1, <3>1, <3>2
    <2>3. /\ answer \in {"ok", "error"} /\ answer # "ok"
          /\ Intake!Ran(d, Intake!NoRow, partner, {}, answer)
        BY <2>1
    <2> HIDE DEF answer
    <2> QED BY <2>2, <2>3, NoRowRan
<1>7. CASE Intake!FailsLate(d)
    <2>0. PICK lines \in SUBSET Skus :
            \E tried \in {lines} \cup {lines \cup {s} : s \in Skus} :
                Intake!Ran(d, [exists |-> TRUE, lines |-> lines],
                           Intake!PartnerMissing, Intake!MissingProducts(tried), "error")
        BY <1>7 DEF Intake!FailsLate
    <2>1. PICK tried \in {lines} \cup {lines \cup {s} : s \in Skus} :
            Intake!Ran(d, [exists |-> TRUE, lines |-> lines], Intake!PartnerMissing,
                       Intake!MissingProducts(tried), "error")
        BY <2>0
    <2>2. tried \in SUBSET Skus /\ ~Imported(OrderOf(d))
        BY <1>7, <2>1, Rows DEF Intake!FailsLate
    <2> DEFINE row == [exists |-> TRUE, lines |-> lines]
    <2>3. row \in Intake!Row
        BY Types
    <2>4. Intake!Ran(d, row, Intake!PartnerMissing, Intake!MissingProducts(tried), "error")
        BY <2>1
    <2> HIDE DEF row
    <2> QED BY <1>3, <1>4, <2>2, <2>3, <2>4, RanInv
<1> QED BY <1>1, <1>2, <1>5, <1>6, <1>7

\* The commit makes visible what the delivery had already made; a rollback undoes it.
LEMMA EndInv ==
    ASSUME IInv, NEW d \in Deliveries, Intake!Commit(d) \/ Intake!Rollback(d),
           UNCHANGED <<edgeVars, queueVars, waiting>>
    PROVE  IInv'
<1>1. /\ request[d].pc = "open" /\ request[d] \in Intake!Request
      /\ sale[d] = Intake!NoRow /\ UNCHANGED overlapped
    BY DEF Intake!Commit, Intake!Rollback, IInv, ImportOK, Answered, TypeOK,
           Intake!IntakeTypeOK
<1>2. PICK new \in Intake!Request :
        /\ request' = [request EXCEPT ![d] = new]
        /\ new.pc = IF Intake!Commit(d) THEN request[d].answer ELSE "error"
    <2>1. CASE Intake!Commit(d)
        <3> DEFINE new == [Intake!NoRequest EXCEPT !.pc = request[d].answer]
        <3>1. new \in Intake!Request /\ new.pc = request[d].answer
            BY <1>1 DEF Intake!NoRequest, Intake!Request, Intake!NoRow
        <3>2. request' = [request EXCEPT ![d] = new]
            BY <2>1 DEF Intake!Commit
        <3> QED BY <2>1, <3>1, <3>2
    <2>2. CASE ~Intake!Commit(d)
        <3> DEFINE new == [Intake!NoRequest EXCEPT !.pc = "error"]
        <3>1. new \in Intake!Request /\ new.pc = "error"
            BY <1>1 DEF Intake!NoRequest, Intake!Request, Intake!NoRow
        <3>2. request' = [request EXCEPT ![d] = new]
            BY <2>2 DEF Intake!Rollback
        <3> QED BY <2>2, <3>1, <3>2
    <2> QED BY <2>1, <2>2
<1>3. /\ request'[d] = new /\ request' \in [Deliveries -> Intake!Request]
      /\ \A x \in Deliveries \ {d} : request'[x] = request[x]
      /\ new.pc \in {"ok", "error"}
    BY <1>1, <1>2 DEF IInv, TypeOK, Intake!IntakeTypeOK, Intake!Request
<1>4. /\ sale'[d] = IF Intake!Commit(d) THEN request[d].row ELSE Intake!NoRow
      /\ sale' \in [Deliveries -> Intake!Row \cup {Intake!NoRow}]
      /\ \A x \in Deliveries \ {d} : sale'[x] = sale[x]
    BY <1>1 DEF Intake!Commit, Intake!Rollback, IInv, TypeOK, Intake!IntakeTypeOK,
                Intake!Request
<1>5. /\ partners' \in SUBSET Deliveries
      /\ \A x \in Deliveries : MadePartner(x)' => MadePartner(x)
    BY <1>1, <1>3
    DEF Intake!Commit, Intake!Rollback, MadePartner, IInv, TypeOK, Intake!IntakeTypeOK
<1>6. /\ products' \in [Skus -> SUBSET Deliveries]
      /\ \A s \in Skus, x \in Deliveries : MadeProduct(s, x)' => MadeProduct(s, x)
    BY <1>1, <1>3
    DEF Intake!Commit, Intake!Rollback, MadeProduct, IInv, TypeOK, Intake!IntakeTypeOK
<1>7. Intake!IntakeTypeOK'
    BY <1>1, <1>3, <1>4, <1>5, <1>6 DEF IInv, TypeOK, Intake!IntakeTypeOK
<1>8. ASSUME NEW x \in Deliveries, MadeSale(x)' PROVE MadeSale(x)
    BY <1>1, <1>3, <1>4, <1>8 DEF MadeSale
<1>9. SalesOK' /\ PartnersOK' /\ ProductsOK'
    BY <1>1, <1>5, <1>6, <1>8 DEF IInv, SalesOK, PartnersOK, ProductsOK, Overlap
<1>10. ASSUME NEW o, Imported(o) PROVE Imported(o)'
    <2>1. PICK x \in Deliveries : OrderOf(x) = o /\ sale[x] # Intake!NoRow
        BY <1>10 DEF Imported
    <2>2. sale'[x] # Intake!NoRow
        BY <1>1, <1>4, <2>1
    <2> QED BY <2>1, <2>2 DEF Imported
<1>11. ImportOK(d)'
    <2>1. CASE Intake!Commit(d)
        <3>1. new.pc = request[d].answer /\ sale'[d] = request[d].row
            BY <1>2, <1>4, <2>1
        <3>2. CASE request[d].answer = "error"
            BY <1>3, <3>1, <3>2 DEF ImportOK, Answered
        <3>3. CASE request[d].answer = "ok"
            <4>1. CASE request[d].row = Intake!NoRow
                BY <1>1, <1>3, <1>10, <3>1, <3>3, <4>1 DEF IInv, ImportOK, Answered
            <4>2. CASE request[d].row # Intake!NoRow
                BY <1>1, <1>3, <3>1, <3>3, <4>2 DEF IInv, ImportOK, Answered, Imported
            <4> QED BY <4>1, <4>2
        <3> QED BY <1>1, <3>2, <3>3 DEF Intake!Request
    <2>2. CASE ~Intake!Commit(d)
        BY <1>2, <1>3, <1>4, <2>2 DEF ImportOK, Answered
    <2> QED BY <2>1, <2>2
<1> QED BY <1>3, <1>4, <1>7, <1>9, <1>10, <1>11, OneDelivery

\* A POST that waits for a worker has made nothing.
LEMMA PostInv ==
    ASSUME IInv, NEW d \in Deliveries, Intake!Post(d), UNCHANGED edgeVars,
           TypeOK', AcknowledgedIsQueued', UNCHANGED handled
    PROVE  IInv'
<1>1. /\ request' = [request EXCEPT ![d].pc = "posted"] /\ request[d].pc = "none"
      /\ UNCHANGED <<sale, partners, products, overlapped>>
    BY DEF Intake!Post
<1>2. /\ request'[d].pc = "posted"
      /\ \A x \in Deliveries \ {d} : request'[x] = request[x]
    BY <1>1 DEF IInv, TypeOK, Intake!IntakeTypeOK, Intake!Request
<1>3. \A o : Imported(o) => Imported(o)'
    BY <1>1 DEF Imported
<1>4. ASSUME NEW x \in Deliveries PROVE ImportOK(x)'
    <2>1. CASE x = d
        BY <1>1, <1>2, <2>1 DEF IInv, ImportOK, Answered
    <2>2. CASE x # d
        BY <1>1, <1>2, <1>3, <2>2 DEF IInv, ImportOK, Answered
    <2> QED BY <2>1, <2>2
<1>5. SalesOK'
    BY <1>1, <1>2 DEF IInv, SalesOK, MadeSale, Overlap
<1>6. PartnersOK' /\ ProductsOK'
    BY <1>1, <1>2 DEF IInv, PartnersOK, ProductsOK, MadePartner, MadeProduct, Overlap
<1> QED BY <1>3, <1>4, <1>5, <1>6 DEF IInv

-----------------------------------------------------------------------------
(* The Lambda, the queue and the agent *)

\* A step that leaves Odoo alone.
LEMMA OutsideOdoo ==
    ASSUME IInv, UNCHANGED intakeVars, TypeOK', AcknowledgedIsQueued',
           \A m \in handled' \ handled : Imported(WebhookOf(m))
    PROVE  IInv'
<1>1. UNCHANGED <<request, sale, partners, products, overlapped>>
    BY DEF intakeVars
<1>2. SalesOK' /\ PartnersOK' /\ ProductsOK'
    BY <1>1 DEF IInv, SalesOK, PartnersOK, ProductsOK, MadeSale, MadePartner,
                MadeProduct, Overlap
<1>3. \A o : Imported(o) => Imported(o)'
    BY <1>1 DEF Imported
<1>4. \A x \in Deliveries : ImportOK(x)'
    BY <1>1, <1>3 DEF IInv, ImportOK, Answered
<1> QED BY <1>2, <1>3, <1>4 DEF IInv

\* What is in the queue was sent, and stays sent.
LEMMA StaysSent ==
    ASSUME IInv, acked' = acked,
           \A m \in Messages : stage[m] # "unsent" => stage'[m] # "unsent"
    PROVE  AcknowledgedIsQueued'
BY DEF IInv, AcknowledgedIsQueued, MessagesOf

\* Acknowledged only with a message in the queue.
LEMMA WebhookInv ==
    ASSUME IInv, NEW c \in Containers, NEW r \in Webhooks, WebhookArrives(c, r)
    PROVE  IInv'
<1>1. PICK enqueued \in BOOLEAN :
        /\ Edge!LambdaHandler(c, r, enqueued)
        /\ IF enqueued THEN Queue!Send(<<r, attempts[r] + 1>>)
           ELSE UNCHANGED queueVars
    BY DEF WebhookArrives
<1>2. UNCHANGED <<intakeVars, waiting>>
    BY DEF WebhookArrives
<1>3. /\ attempts[r] < MaxAttempts /\ attempts' = [attempts EXCEPT ![r] = @ + 1]
      /\ cache' \in [Containers -> {"cold", "loaded", "empty"}]
      /\ acked' \in {acked, acked \cup {r}}
      /\ acked' # acked => enqueued
    BY <1>1
    DEF Edge!LambdaHandler, Edge!Refuses, Edge!Enqueues, Edge!EnqueueFails, Edge!Sent,
        Edge!LoadsSecret, Edge!AnsweredWithError, IInv, TypeOK, Edge!EdgeTypeOK
<1>4. /\ attempts[r] + 1 \in 1..MaxAttempts
      /\ attempts' \in [Webhooks -> 0..MaxAttempts]
    <2>1. attempts[r] \in 0..MaxAttempts
        BY DEF IInv, TypeOK, Edge!EdgeTypeOK
    <2>2. attempts[r] + 1 \in 1..MaxAttempts /\ attempts[r] + 1 \in 0..MaxAttempts
        BY <1>3, <2>1, OrderPipelineAssumption
    <2> QED BY <1>3, <2>2 DEF IInv, TypeOK, Edge!EdgeTypeOK
<1> DEFINE m == <<r, attempts[r] + 1>>
<1>5. m \in Messages /\ WebhookOf(m) = r
    BY <1>4 DEF Messages, WebhookOf
<1> HIDE DEF m
<1>6. /\ UNCHANGED <<received, handled>>
      /\ stage' \in [Messages -> {"unsent", "queued", "deleted", "dead"}]
      /\ enqueued => stage'[m] = "queued"
      /\ \A x \in Messages : stage[x] # "unsent" => stage'[x] # "unsent"
    <2>1. CASE enqueued
        <3>1. Queue!Send(m)
            BY <1>1, <2>1 DEF m
        <3> QED BY <1>5, <2>1, <3>1 DEF Queue!Send, IInv, TypeOK
    <2>2. CASE ~enqueued
        BY <1>1, <2>2 DEF queueVars, IInv, TypeOK
    <2> QED BY <2>1, <2>2
<1>7. TypeOK'
    BY <1>2, <1>3, <1>4, <1>6
    DEF IInv, TypeOK, Edge!EdgeTypeOK, intakeVars, Intake!IntakeTypeOK
<1>8. AcknowledgedIsQueued'
    <2>1. CASE acked' = acked
        BY <1>6, <2>1, StaysSent
    <2>2. CASE acked' # acked
        BY <1>3, <1>5, <1>6, <2>2 DEF IInv, AcknowledgedIsQueued, MessagesOf
    <2> QED BY <2>1, <2>2
<1> QED BY <1>2, <1>6, <1>7, <1>8, OutsideOdoo

LEMMA ContainerInv ==
    ASSUME IInv, NEW c \in Containers, ContainerChanges(c)
    PROVE  IInv'
<1>1. /\ UNCHANGED <<queueVars, intakeVars, waiting, attempts, acked>>
      /\ cache' \in [Containers -> {"cold", "loaded", "empty"}]
    BY DEF ContainerChanges, Edge!StrayRequest, Edge!Recycle, Edge!LoadsSecret, IInv,
           TypeOK, Edge!EdgeTypeOK
<1>2. TypeOK'
    BY <1>1 DEF IInv, TypeOK, Edge!EdgeTypeOK, queueVars, intakeVars, Intake!IntakeTypeOK
<1>3. AcknowledgedIsQueued' /\ handled' = handled
    BY <1>1, StaysSent DEF queueVars
<1> QED BY <1>1, <1>2, <1>3, OutsideOdoo

\* A receive is a new delivery.
LEMMA ForwardInv ==
    ASSUME IInv, NEW m \in Messages, Forward(m)
    PROVE  IInv'
<1> DEFINE d == NextDelivery(m)
<1>1. /\ Queue!Receive({m}) /\ Intake!Post(d) /\ waiting' = waiting \cup {d}
      /\ UNCHANGED edgeVars
    BY DEF Forward
<1>2. /\ received[m] \in 0..MaxReceives /\ received[m] < MaxReceives
    BY <1>1 DEF Queue!Receive, IInv, TypeOK
<1>3. received[m] + 1 \in 1..MaxReceives /\ received[m] + 1 \in 0..MaxReceives
    BY <1>2, OrderPipelineAssumption
<1>4. d \in Deliveries
    BY <1>3 DEF NextDelivery, Deliveries
<1> HIDE DEF d
<1>5. /\ received' \in [Messages -> 0..MaxReceives]
      /\ UNCHANGED <<stage, handled>>
    BY <1>1, <1>3 DEF Queue!Receive, IInv, TypeOK
<1>6. request' \in [Deliveries -> Intake!Request]
    <2>1. [request[d] EXCEPT !.pc = "posted"] \in Intake!Request
        BY <1>4 DEF IInv, TypeOK, Intake!IntakeTypeOK, Intake!Request
    <2> QED BY <1>1, <2>1 DEF Intake!Post, IInv, TypeOK, Intake!IntakeTypeOK
<1>7. TypeOK'
    BY <1>1, <1>4, <1>5, <1>6
    DEF IInv, TypeOK, Edge!EdgeTypeOK, edgeVars, Intake!IntakeTypeOK, Intake!Post
<1>8. AcknowledgedIsQueued'
    BY <1>1, <1>5, StaysSent DEF edgeVars
<1> QED BY <1>1, <1>4, <1>5, <1>7, <1>8, PostInv

\* The agent is done with a message, gives up an answer, or the queue is.
LEMMA QueueInv ==
    ASSUME IInv,
           \/ \E d \in Deliveries : Succeeds(d) \/ Fails(d)
           \/ \E m \in Messages : LeavesQueue(m)
    PROVE  IInv'
<1>1. ASSUME NEW d \in Deliveries, Succeeds(d) \/ Fails(d) PROVE IInv'
    <2>1. /\ UNCHANGED <<edgeVars, intakeVars, stage, received>>
          /\ waiting' \in SUBSET Deliveries
          /\ handled' \in {handled, handled \cup {MessageOf(d)}}
          /\ handled' # handled => request[d].pc = "ok"
        BY <1>1 DEF Succeeds, Fails, AnsweredWell, Queue!Handle, queueVars, IInv, TypeOK
    <2>2. MessageOf(d) \in Messages
        BY DeliveryParts
    <2>3. TypeOK'
        BY <2>1, <2>2
        DEF IInv, TypeOK, Edge!EdgeTypeOK, edgeVars, intakeVars, Intake!IntakeTypeOK
    <2>4. AcknowledgedIsQueued'
        BY <2>1, StaysSent DEF edgeVars
    <2>5. ASSUME NEW m \in handled' \ handled PROVE Imported(WebhookOf(m))
        <3>1. m = MessageOf(d) /\ request[d].pc = "ok"
            BY <2>1, <2>5
        <3> QED BY <3>1 DEF IInv, ImportOK, OrderOf
    <2> QED BY <2>1, <2>3, <2>4, <2>5, OutsideOdoo
<1>2. ASSUME NEW m \in Messages, LeavesQueue(m) PROVE IInv'
    <2>1. /\ UNCHANGED <<edgeVars, intakeVars, waiting, received, handled>>
          /\ stage' \in [Messages -> {"unsent", "queued", "deleted", "dead"}]
          /\ \A x \in Messages : stage[x] # "unsent" => stage'[x] # "unsent"
        BY <1>2 DEF LeavesQueue, Queue!Delete, Queue!DeadLetter, IInv, TypeOK
    <2>2. TypeOK'
        BY <2>1
        DEF IInv, TypeOK, Edge!EdgeTypeOK, edgeVars, intakeVars, Intake!IntakeTypeOK
    <2>3. AcknowledgedIsQueued'
        BY <2>1, StaysSent DEF edgeVars
    <2> QED BY <2>1, <2>2, <2>3, OutsideOdoo
<1> QED BY <1>1, <1>2

-----------------------------------------------------------------------------
(* The invariant *)

LEMMA InitIInv == Init => IInv
<1> SUFFICES ASSUME Init PROVE IInv
    OBVIOUS
<1>1. /\ Edge!EdgeInit /\ Queue!Init /\ Intake!IntakeInit /\ waiting = {}
    BY DEF Init
<1>2. \A d \in Deliveries : /\ request[d].pc = "none" /\ sale[d] = Intake!NoRow
                            /\ d \notin partners
    BY <1>1, Types DEF Intake!IntakeInit
<1>3. Edge!EdgeTypeOK /\ acked = {}
    <2>1. 0 \in 0..MaxAttempts
        BY OrderPipelineAssumption
    <2> QED BY <1>1, <2>1 DEF Edge!EdgeInit, Edge!EdgeTypeOK
<1>4. /\ stage \in [Messages -> {"unsent", "queued", "deleted", "dead"}]
      /\ received \in [Messages -> 0..MaxReceives] /\ handled = {}
    <2>1. 0 \in 0..MaxReceives
        BY OrderPipelineAssumption
    <2> QED BY <1>1, <2>1 DEF Queue!Init
<1>5. Intake!IntakeTypeOK
    BY <1>1, Types DEF Intake!IntakeInit, Intake!IntakeTypeOK
<1>6. TypeOK /\ AcknowledgedIsQueued
    BY <1>1, <1>3, <1>4, <1>5 DEF TypeOK, AcknowledgedIsQueued
<1>7. SalesOK /\ PartnersOK
    BY <1>2 DEF SalesOK, PartnersOK, MadeSale, MadePartner
<1>8. ProductsOK
    BY <1>1, <1>2 DEF ProductsOK, MadeProduct, Intake!IntakeInit
<1>9. \A d \in Deliveries : ImportOK(d)
    BY <1>2 DEF ImportOK
<1> QED BY <1>4, <1>6, <1>7, <1>8, <1>9 DEF IInv

LEMMA NextIInv == IInv /\ [Next]_vars => IInv'
<1> SUFFICES ASSUME IInv, [Next]_vars PROVE IInv'
    OBVIOUS
<1>1. CASE \E c \in Containers : \/ ContainerChanges(c)
                                 \/ \E r \in Webhooks : WebhookArrives(c, r)
    BY <1>1, ContainerInv, WebhookInv
<1>2. CASE \E m \in Messages : Forward(m) \/ LeavesQueue(m)
    BY <1>2, ForwardInv, QueueInv
<1>3. CASE \E d \in Deliveries : OdooStep(d) \/ Succeeds(d) \/ Fails(d)
    BY <1>3, SnapshotInv, EndInv, QueueInv DEF OdooStep, Intake!IntakeStep
<1>4. CASE UNCHANGED vars
    <2>1. UNCHANGED <<edgeVars, intakeVars, stage, received, handled, waiting>>
        BY <1>4 DEF vars, queueVars
    <2>2. TypeOK'
        BY <2>1
        DEF IInv, TypeOK, Edge!EdgeTypeOK, edgeVars, intakeVars, Intake!IntakeTypeOK
    <2>3. AcknowledgedIsQueued'
        BY <2>1, StaysSent DEF edgeVars
    <2> QED BY <2>1, <2>2, <2>3, OutsideOdoo
<1> QED BY <1>1, <1>2, <1>3, <1>4 DEF Next

\* The strengthening of the properties below.
THEOREM Invariance == Spec => []IInv
BY InitIInv, NextIInv, PTL DEF Spec

\* Type correctness of the pipeline.
THEOREM TypeCorrect == Spec => []TypeOK
<1>1. IInv => TypeOK
    BY DEF IInv
<1> QED BY <1>1, Invariance, PTL

\* The Lambda acknowledges nothing that is not in the queue (handler).
THEOREM AcknowledgedIsInQueue == Spec => []AcknowledgedIsQueued
<1>1. IInv => AcknowledgedIsQueued
    BY DEF IInv
<1> QED BY <1>1, Invariance, PTL

\* What the agent takes for forwarded is an order in Odoo, a whole one unless a
\* delivery failed after it had created the order (forward_order_create,
\* process_order_create).
THEOREM ForwardedIsImported == Spec => []HandledIsImported
<1>1. IInv => HandledIsImported
    <2> SUFFICES ASSUME IInv, NEW m \in handled
                 PROVE  \/ \E d \in Intake!Rows(WebhookOf(m)) : Intake!Whole(d)
                        \/ FailedLate(WebhookOf(m))
        BY DEF HandledIsImported
    <2>1. PICK d \in Deliveries : /\ OrderOf(d) = WebhookOf(m)
                                  /\ sale[d] # Intake!NoRow
        BY DEF IInv, Imported
    <2>2. d \in Intake!Rows(WebhookOf(m))
        BY <2>1 DEF Intake!Rows
    <2>3. CASE request[d].pc = "ok"
        BY <2>1, <2>2, <2>3 DEF IInv, ImportOK, Intake!Whole
    <2>4. CASE request[d].pc # "ok"
        BY <2>1, <2>4 DEF IInv, ImportOK, Answered, FailedLate, OrderOf
    <2> QED BY <2>3, <2>4
<1> QED BY <1>1, Invariance, PTL

\* Deliveries of an order that do not overlap leave one sale.order.
THEOREM OrdersImportedOnce == Spec => []ImportedOnce
<1>1. IInv => ImportedOnce
    BY DEF IInv, SalesOK, MadeSale, Overlap, ImportedOnce, Intake!ImportedOnce
<1> QED BY <1>1, Invariance, PTL

\* Nor do they leave a customer or a product twice.
THEOREM CatalogStaysTidy == Spec => []CatalogTidy
<1>1. IInv => CatalogTidy
    <2> SUFFICES ASSUME IInv,
                        NEW made \in {partners} \cup {products[s] : s \in Skus},
                        NEW d \in made, NEW e \in made, d # e
                 PROVE  d \in overlapped /\ e \in overlapped
        BY DEF CatalogTidy, Intake!CatalogTidy
    <2>1. CASE made = partners
        BY <2>1 DEF IInv, TypeOK, Intake!IntakeTypeOK, PartnersOK, MadePartner, Overlap
    <2>2. ASSUME NEW s \in Skus, made = products[s]
          PROVE  d \in overlapped /\ e \in overlapped
        BY <2>2 DEF IInv, TypeOK, Intake!IntakeTypeOK, ProductsOK, MadeProduct, Overlap
    <2> QED BY <2>1, <2>2
<1> QED BY <1>1, Invariance, PTL
=============================================================================
