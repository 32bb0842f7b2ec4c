----------------------------- MODULE StockProofs -----------------------------
(***************************************************************************)
(* Proofs about Stock, for any locations, quantities and bounds: what       *)
(* ledger_check tells, how the kinds of moves account for the stock, which  *)
(* moves warehouse_moves finds, and what an approved write leaves.          *)
(*                                                                         *)
(* None of it is inductive by itself.  That the ledger tells the truth      *)
(* needs the exact gap between quants and moves, which is what was written  *)
(* past the ledger; the kinds need the shape of the moves Odoo makes; and   *)
(* the two outcomes need what the run still knows of the stock while        *)
(* nobody else touches it.                                                  *)
(***************************************************************************)
EXTENDS StockSums, SequenceTheorems

\* The moves Odoo makes: an adjustment goes from or to the inventory loss and is
\* no scrap; a scrap leaves an internal location.
Shaped(m) ==
    /\ m.is_inventory =>
          /\ ~m.scrap
          /\ \/ m.from = "loss" /\ m.to \in Internal
             \/ m.from \in Internal /\ m.to = "loss"
    /\ m.scrap => m.from \in Internal /\ m.to = "loss"

MovesAreShaped == \A i \in DOMAIN moves : Shaped(moves[i])

\* The quants are ahead of the ledger by what was written past it.
GapIsTampered ==
    ActualInQuants = ExpectedFromMoves + SumOver(tampers, DOMAIN tampers)

\* While nobody else changes a quantity, what the run read and wrote still holds.
RunIsRight ==
    fresh =>
       /\ run.pc \in {"gathered", "update_shopify", "pushed"} =>
             run.onHand = OnHand /\ run.warned = Ambiguous
       /\ run.pc = "pushed" => level[FirstLevel] = Rounded(run.qty)
       /\ run.pc = "adjusted" => quant[Main] = run.qty

IInv ==
    /\ TypeOK
    /\ MovesAreShaped
    /\ GapIsTampered
    /\ RunIsRight


-----------------------------------------------------------------------------
(* The sums of the model, over a function each. *)

Qty(ms) == [i \in DOMAIN ms |-> ms[i].qty]

\* The quantities of the moves of a set of moves.
Picked(ms, K) == {i \in DOMAIN ms : ms[i] \in K}
QtyOf(ms, K) == SumOver(Qty(ms), Picked(ms, K))

Ins == {m \in Move : m.done /\ MovedIn(m)}
Outs == {m \in Move : m.done /\ MovedOut(m)}
Expected(ms) == QtyOf(ms, Ins) - QtyOf(ms, Outs)

LEMMA TotalIsSum ==
  ASSUME NEW S, S \subseteq DOMAIN moves
  PROVE  Total(S) = SumOver(Qty(moves), S)
BY DEF Total, Qty, SumOver, MapThenSumSet, MapThenFoldSet

LEMMA SeqIndexes ==
  ASSUME NEW T, NEW s \in Seq(T)
  PROVE  DOMAIN s = 1..Len(s) /\ IsFiniteSet(DOMAIN s) /\ Len(s) \in Nat
BY FS_Interval, LenProperties

LEMMA PickedIsFinite ==
  ASSUME NEW ms \in Seq(Move), NEW K
  PROVE  /\ IsFiniteSet(Picked(ms, K))
         /\ \A i \in DOMAIN ms : ms[i] \in Move /\ Qty(ms)[i] = ms[i].qty /\ ms[i].qty \in Nat
<1>1. IsFiniteSet(Picked(ms, K))
  BY SeqIndexes, FS_Subset DEF Picked
<1>2. \A i \in DOMAIN ms : ms[i] \in Move
  BY SeqIndexes, ElementOfSeq
<1> QED
  BY <1>1, <1>2 DEF Qty, Move

LEMMA QtyOfInt ==
  ASSUME NEW ms \in Seq(Move), NEW K
  PROVE  QtyOf(ms, K) \in Int
<1>1. IsFiniteSet(Picked(ms, K)) /\ \A i \in Picked(ms, K) : Qty(ms)[i] \in Int
  <2>1. \A i \in DOMAIN ms : Qty(ms)[i] \in Int
    BY PickedIsFinite
  <2> QED
    BY <2>1, PickedIsFinite DEF Picked
<1> QED
  BY <1>1, SumInt DEF QtyOf

\* ledger_check's expectation.
LEMMA ExpectedIsSum ==
  moves \in Seq(Move) => ExpectedFromMoves = Expected(moves)
<1> SUFFICES ASSUME moves \in Seq(Move) PROVE ExpectedFromMoves = Expected(moves)
  OBVIOUS
<1>1. \A i \in DOMAIN moves : moves[i] \in Move
  BY SeqIndexes, ElementOfSeq
<1>2. /\ Picked(moves, Ins) = {i \in Done : MovedIn(moves[i])}
      /\ Picked(moves, Outs) = {i \in Done : MovedOut(moves[i])}
  BY <1>1 DEF Picked, Ins, Outs, Done
<1>3. Picked(moves, Ins) \subseteq DOMAIN moves /\ Picked(moves, Outs) \subseteq DOMAIN moves
  BY DEF Picked
<1> QED
  BY <1>2, <1>3, TotalIsSum DEF ExpectedFromMoves, Expected, QtyOf

LEMMA ExpectedIsSumNext == (moves \in Seq(Move) => ExpectedFromMoves = Expected(moves))'
BY ExpectedIsSum, PTL

\* The sum LedgerTells compares with.
LEMMA TampersIsSum ==
  FoldSeq(LAMBDA d, sum : d + sum, 0, tampers) = SumOver(tampers, DOMAIN tampers)
BY DEF FoldSeq, FoldFunction, FoldFunctionOnSet, SumOver, MapThenSumSet, MapThenFoldSet

-----------------------------------------------------------------------------
(* What appending and removing a move does to them. *)

LEMMA AppendQty ==
  ASSUME NEW ms \in Seq(Move), NEW m \in Move, NEW K
  PROVE  QtyOf(Append(ms, m), K) = QtyOf(ms, K) + (IF m \in K THEN m.qty ELSE 0)
<1> DEFINE am == Append(ms, m)
           n == Len(ms) + 1
           S == Picked(ms, K)
<1>1. /\ am \in Seq(Move) /\ DOMAIN am = DOMAIN ms \cup {n} /\ n \notin DOMAIN ms
      /\ am[n] = m /\ \A i \in DOMAIN ms : am[i] = ms[i]
  <2>1. /\ am \in Seq(Move) /\ Len(am) = n /\ am[n] = m
        /\ \A i \in 1..Len(ms) : am[i] = ms[i]
    BY AppendProperties
  <2>2. DOMAIN ms = 1..Len(ms) /\ DOMAIN am = 1..Len(am) /\ Len(ms) \in Nat
    BY <2>1, SeqIndexes
  <2> QED
    BY <2>1, <2>2
<1> HIDE DEF am, n
<1>2. Picked(am, K) = IF m \in K THEN S \cup {n} ELSE S
  BY <1>1 DEF Picked
<1>3. /\ IsFiniteSet(S) /\ n \notin S
      /\ \A i \in S \cup {n} : Qty(am)[i] \in Int
      /\ \A i \in S : Qty(ms)[i] \in Int /\ Qty(ms)[i] = Qty(am)[i]
      /\ Qty(am)[n] = m.qty
  <2>1. IsFiniteSet(S) /\ n \notin S
    BY <1>1, PickedIsFinite DEF Picked
  <2>2. \A i \in DOMAIN ms : ms[i].qty \in Nat
    BY PickedIsFinite
  <2>3. m.qty \in Nat
    BY DEF Move
  <2> QED
    BY <1>1, <2>1, <2>2, <2>3 DEF Qty, Picked
<1> HIDE DEF S
<1>4. SumOver(Qty(am), S) = SumOver(Qty(ms), S)
  BY <1>3, SumCongruent
<1>5. SumOver(Qty(am), S \cup {n}) = SumOver(Qty(am), S) + Qty(am)[n]
  BY <1>3, SumAdd
<1>6. SumOver(Qty(ms), S) \in Int
  BY <1>3, SumInt
<1> QED
  BY <1>2, <1>3, <1>4, <1>5, <1>6 DEF QtyOf, am, S

LEMMA RemoveAtIs ==
  ASSUME NEW T, NEW s \in Seq(T), NEW i \in 1..Len(s)
  PROVE  /\ RemoveAt(s, i) \in Seq(T)
         /\ Len(RemoveAt(s, i)) = Len(s) - 1
         /\ \A j \in 1..Len(s) - 1 :
               RemoveAt(s, i)[j] = IF j < i THEN s[j] ELSE s[j + 1]
<1> DEFINE a == SubSeq(s, 1, i - 1)
           b == SubSeq(s, i + 1, Len(s))
<1>1. Len(s) \in Nat /\ i \in Nat
  BY LenProperties
<1>2. /\ a \in Seq(T) /\ Len(a) = i - 1
      /\ \A j \in 1..i - 1 : a[j] = s[j]
  BY <1>1, SubSeqProperties, ElementOfSeq
<1>3. /\ b \in Seq(T) /\ Len(b) = Len(s) - i
      /\ \A j \in 1..Len(s) - i : b[j] = s[j + i]
  BY <1>1, SubSeqProperties, ElementOfSeq
<1> HIDE DEF a, b
<1>4. /\ a \o b \in Seq(T) /\ Len(a \o b) = Len(a) + Len(b)
      /\ \A j \in 1..Len(a) + Len(b) :
            (a \o b)[j] = IF j <= Len(a) THEN a[j] ELSE b[j - Len(a)]
  BY <1>2, <1>3, ConcatProperties
<1>5. ASSUME NEW j \in 1..Len(s) - 1
      PROVE  (a \o b)[j] = IF j < i THEN s[j] ELSE s[j + 1]
  <2>1. (a \o b)[j] = IF j <= i - 1 THEN a[j] ELSE b[j - (i - 1)]
    BY <1>1, <1>2, <1>3, <1>4
  <2>2. CASE j < i
    BY <1>1, <1>2, <2>1, <2>2
  <2>3. CASE ~(j < i)
    <3>1. j - (i - 1) \in 1..Len(s) - i /\ (j - (i - 1)) + i = j + 1 /\ ~(j <= i - 1)
      BY <1>1, <2>3
    <3> QED
      BY <1>3, <2>1, <2>3, <3>1
  <2> QED
    BY <2>2, <2>3
<1>6. RemoveAt(s, i) = a \o b
  BY DEF RemoveAt, a, b
<1>7. Len(a \o b) = Len(s) - 1
  BY <1>1, <1>2, <1>3, <1>4
<1> QED
  BY <1>4, <1>5, <1>6, <1>7


LEMMA RemoveQty ==
  ASSUME NEW ms \in Seq(Move), NEW i \in DOMAIN ms, NEW K
  PROVE  /\ RemoveAt(ms, i) \in Seq(Move)
         /\ QtyOf(RemoveAt(ms, i), K) = QtyOf(ms, K) - (IF ms[i] \in K THEN ms[i].qty ELSE 0)
<1> DEFINE rm == RemoveAt(ms, i)
           n == Len(ms)
           S == Picked(rm, K)
           T == Picked(ms, K)
           b == [j \in DOMAIN rm |-> IF j < i THEN j ELSE j + 1]
           image == {b[j] : j \in S}
<1>1. n \in Nat /\ DOMAIN ms = 1..n /\ i \in 1..n
  BY SeqIndexes
<1>2. /\ rm \in Seq(Move) /\ DOMAIN rm = 1..n - 1
      /\ \A j \in 1..n - 1 : rm[j] = IF j < i THEN ms[j] ELSE ms[j + 1]
  <2>1. /\ rm \in Seq(Move) /\ Len(rm) = n - 1
        /\ \A j \in 1..n - 1 : rm[j] = IF j < i THEN ms[j] ELSE ms[j + 1]
    BY <1>1, RemoveAtIs
  <2> HIDE DEF rm
  <2> QED
    BY <2>1, SeqIndexes
<1> HIDE DEF rm, n
<1>3. \A j \in S : b[j] \in DOMAIN ms /\ b[j] # i /\ ms[b[j]] = rm[j] /\ rm[j] \in K
  BY <1>1, <1>2 DEF Picked
<1>4. \A j, k \in S : b[j] = b[k] => j = k
  BY <1>1, <1>2 DEF Picked
<1>5. \A k \in T \ {i} : \E j \in S : b[j] = k
  <2> TAKE k \in T \ {i}
  <2>1. k \in 1..n /\ k # i /\ ms[k] \in K
    BY <1>1 DEF Picked
  <2>2. CASE k < i
    <3>1. k \in 1..n - 1 /\ rm[k] = ms[k] /\ b[k] = k
      BY <1>1, <1>2, <2>1, <2>2
    <3> QED
      BY <1>2, <2>1, <3>1 DEF Picked
  <2>3. CASE ~(k < i)
    <3>1. /\ k - 1 \in 1..n - 1 /\ ~(k - 1 < i) /\ (k - 1) + 1 = k
      BY <1>1, <2>1, <2>3
    <3>2. rm[k - 1] = ms[k] /\ b[k - 1] = k
      BY <1>2, <3>1
    <3> QED
      BY <1>2, <2>1, <3>1, <3>2 DEF Picked
  <2> QED
    BY <2>2, <2>3
<1>6. image = T \ {i}
  BY <1>3, <1>5 DEF Picked
<1>7. IsFiniteSet(S) /\ \A j \in S : Qty(rm)[j] \in Int /\ Qty(ms)[b[j]] = Qty(rm)[j]
  <2>1. IsFiniteSet(S) /\ \A j \in DOMAIN rm : Qty(rm)[j] = rm[j].qty /\ rm[j].qty \in Nat
    BY <1>2, PickedIsFinite
  <2>2. \A j \in DOMAIN ms : Qty(ms)[j] = ms[j].qty
    BY PickedIsFinite
  <2> QED
    BY <1>3, <2>1, <2>2 DEF Picked
<1> HIDE DEF b, S
<1>8. SumOver(Qty(ms), image) = SumOver(Qty(rm), S)
  BY <1>4, <1>7, SumRenamed
<1> HIDE DEF image
<1>9. IsFiniteSet(T) /\ \A j \in T : Qty(ms)[j] \in Int /\ Qty(ms)[j] = ms[j].qty
  <2>1. \A j \in DOMAIN ms : Qty(ms)[j] = ms[j].qty /\ ms[j].qty \in Nat
    BY PickedIsFinite
  <2>2. IsFiniteSet(T)
    BY PickedIsFinite
  <2>3. T \subseteq DOMAIN ms
    BY DEF Picked
  <2> HIDE DEF T
  <2> QED
    BY <2>1, <2>2, <2>3
<1>10. i \in T <=> ms[i] \in K
  BY DEF Picked
<1> HIDE DEF T
<1>11. QtyOf(ms, K) = SumOver(Qty(ms), T)
  BY DEF QtyOf, T
<1>12. QtyOf(RemoveAt(ms, i), K) = SumOver(Qty(ms), T \ {i})
  BY <1>6, <1>8 DEF QtyOf, rm, S
<1>13. RemoveAt(ms, i) \in Seq(Move)
  BY <1>2 DEF rm
<1>14. CASE ms[i] \in K
  <2>1. SumOver(Qty(ms), T) = Qty(ms)[i] + SumOver(Qty(ms), T \ {i})
    BY <1>9, <1>10, <1>14, SumMember
  <2>2. SumOver(Qty(ms), T \ {i}) \in Int
    BY <1>9, FS_RemoveElement, SumInt
  <2>3. Qty(ms)[i] = ms[i].qty /\ ms[i].qty \in Int
    BY <1>9, <1>10, <1>14
  <2> QED
    BY <1>11, <1>12, <1>13, <1>14, <2>1, <2>2, <2>3
<1>15. CASE ms[i] \notin K
  <2>1. T \ {i} = T
    BY <1>10, <1>15
  <2>2. SumOver(Qty(ms), T) \in Int
    BY <1>9, SumInt
  <2>3. QtyOf(RemoveAt(ms, i), K) = QtyOf(ms, K) /\ QtyOf(ms, K) \in Int
    BY <1>11, <1>12, <2>1, <2>2
  <2> QED
    BY <1>13, <1>15, <2>3
<1> QED
  BY <1>14, <1>15


-----------------------------------------------------------------------------
(* What the steps do to the two sides of the ledger. *)

\* What a move brings into Odoo's internal locations.
Brings(m) ==
    IF ~m.done THEN 0
    ELSE (IF MovedIn(m) THEN m.qty ELSE 0) - (IF MovedOut(m) THEN m.qty ELSE 0)

LEMMA ExpectedInt ==
  ASSUME NEW ms \in Seq(Move)
  PROVE  Expected(ms) \in Int
BY QtyOfInt DEF Expected

LEMMA ExpectedAfterAppend ==
  ASSUME NEW ms \in Seq(Move), NEW m \in Move
  PROVE  Expected(Append(ms, m)) = Expected(ms) + Brings(m)
<1>1. QtyOf(Append(ms, m), Ins) = QtyOf(ms, Ins) + (IF m \in Ins THEN m.qty ELSE 0)
  BY AppendQty
<1>2. QtyOf(Append(ms, m), Outs) = QtyOf(ms, Outs) + (IF m \in Outs THEN m.qty ELSE 0)
  BY AppendQty
<1>3. (m \in Ins <=> m.done /\ MovedIn(m)) /\ (m \in Outs <=> m.done /\ MovedOut(m))
  BY DEF Ins, Outs
<1>4. m.qty \in Int /\ QtyOf(ms, Ins) \in Int /\ QtyOf(ms, Outs) \in Int
  <2>1. m.qty \in Int
    BY DEF Move
  <2> QED
    BY <2>1, QtyOfInt
<1> QED
  BY <1>1, <1>2, <1>3, <1>4 DEF Expected, Brings

\* A planned move brings nothing, so taking it out of the ledger changes nothing.
LEMMA ExpectedAfterRemoval ==
  ASSUME NEW ms \in Seq(Move), NEW i \in DOMAIN ms, ~ms[i].done
  PROVE  RemoveAt(ms, i) \in Seq(Move) /\ Expected(RemoveAt(ms, i)) = Expected(ms)
<1>1. /\ RemoveAt(ms, i) \in Seq(Move)
      /\ QtyOf(RemoveAt(ms, i), Ins) = QtyOf(ms, Ins) - (IF ms[i] \in Ins THEN ms[i].qty ELSE 0)
      /\ QtyOf(RemoveAt(ms, i), Outs) = QtyOf(ms, Outs) - (IF ms[i] \in Outs THEN ms[i].qty ELSE 0)
  BY RemoveQty
<1>2. ms[i] \notin Ins /\ ms[i] \notin Outs
  BY DEF Ins, Outs
<1>3. QtyOf(ms, Ins) \in Int /\ QtyOf(ms, Outs) \in Int
  BY QtyOfInt
<1>4. /\ QtyOf(RemoveAt(ms, i), Ins) = QtyOf(ms, Ins)
      /\ QtyOf(RemoveAt(ms, i), Outs) = QtyOf(ms, Outs)
  BY <1>1, <1>2, <1>3
<1> QED
  BY <1>1, <1>4 DEF Expected

\* The quants r are those of q with d more at a place, if that is a location at all.
Adds(q, r, place, d) ==
    \A l \in Internal : r[l] = q[l] + (IF l = place THEN d ELSE 0)

LEMMA QuantsAfterAdding ==
  ASSUME NEW q \in [Internal -> Int], NEW place, NEW d \in Int,
         NEW r \in [Internal -> Int], Adds(q, r, place, d)
  PROVE  /\ SumOver(q, Internal) \in Int
         /\ SumOver(r, Internal) = SumOver(q, Internal) + (IF place \in Internal THEN d ELSE 0)
<1>1. IsFiniteSet(Internal)
  BY StockAssumption DEF StockAssumption
<1>2. SumOver(q, Internal) \in Int
  BY <1>1, SumInt
<1>3. CASE place \in Internal
  <2>1. /\ \A l \in Internal : q[l] \in Int
        /\ \A l \in Internal \ {place} : r[l] = q[l]
        /\ r[place] \in Int
    BY <1>3 DEF Adds
  <2>2. SumOver(r, Internal) = SumOver(q, Internal) + (r[place] - q[place])
    BY <1>1, <1>3, <2>1, SumChange
  <2>3. r[place] - q[place] = d
    BY <1>3 DEF Adds
  <2> QED
    BY <1>2, <1>3, <2>2, <2>3
<1>4. CASE place \notin Internal
  <2>1. \A l \in Internal : r[l] = q[l]
    BY <1>4 DEF Adds
  <2>2. r = q
    BY <2>1
  <2> QED
    BY <1>2, <1>4, <2>2
<1> QED
  BY <1>3, <1>4

LEMMA QuantsAfterMove ==
  ASSUME quant \in [Internal -> Int], NEW m \in Move, m.done = FALSE, Moved(m)
  PROVE  /\ quant' \in [Internal -> Int]
         /\ SumOver(quant', Internal) =
               SumOver(quant, Internal) + Brings([m EXCEPT !.done = TRUE])
<1> DEFINE q == [l \in Internal |-> quant[l] + (IF l = m.to THEN m.qty ELSE 0)]
           n == [m EXCEPT !.done = TRUE]
<1>1. m.qty \in Int /\ -m.qty \in Int
  BY DEF Move
<1>2. /\ q \in [Internal -> Int]
      /\ SumOver(quant, Internal) \in Int
      /\ SumOver(q, Internal) = SumOver(quant, Internal) + (IF m.to \in Internal THEN m.qty ELSE 0)
  <2>1. /\ q \in [Internal -> Int]
        /\ Adds(quant, q, m.to, m.qty)
    BY <1>1 DEF Adds
  <2> HIDE DEF q
  <2> QED
    BY <1>1, <2>1, QuantsAfterAdding
<1>3. quant' = [l \in Internal |-> q[l] + (IF l = m.from THEN -m.qty ELSE 0)]
  BY <1>1 DEF Moved
<1> HIDE DEF q
<1>4. /\ quant' \in [Internal -> Int]
      /\ SumOver(quant', Internal) = SumOver(q, Internal) + (IF m.from \in Internal THEN -m.qty ELSE 0)
  <2>1. /\ quant' \in [Internal -> Int]
        /\ Adds(q, quant', m.from, -m.qty)
    BY <1>1, <1>2, <1>3 DEF Adds
  <2> QED
    BY <1>1, <1>2, <2>1, QuantsAfterAdding
<1>5. n.done /\ n.qty = m.qty /\ n.from = m.from /\ n.to = m.to
  BY DEF Move
<1>6. /\ Usage(m.from) = "internal" <=> m.from \in Internal
      /\ Usage(m.to) = "internal" <=> m.to \in Internal
  BY StockAssumption DEF StockAssumption, Usage, Move, Places
<1>7. Brings(n) = (IF m.to \in Internal THEN m.qty ELSE 0) - (IF m.from \in Internal THEN m.qty ELSE 0)
  BY <1>1, <1>5, <1>6 DEF Brings, MovedIn, MovedOut
<1> QED
  BY <1>1, <1>2, <1>4, <1>7


\* The gap, in sums.
LEMMA GapIsSum ==
  moves \in Seq(Move) =>
     (GapIsTampered <=> SumOver(quant, Internal)
                           = Expected(moves) + SumOver(tampers, DOMAIN tampers))
BY ExpectedIsSum DEF GapIsTampered, ActualInQuants

LEMMA GapIsSumNext ==
  moves' \in Seq(Move) =>
     (GapIsTampered' <=> SumOver(quant', Internal)
                            = Expected(moves') + SumOver(tampers', DOMAIN tampers'))
<1>1. (moves \in Seq(Move) =>
         (GapIsTampered <=> SumOver(quant, Internal)
                               = Expected(moves) + SumOver(tampers, DOMAIN tampers)))'
  BY GapIsSum, PTL
<1> QED
  BY <1>1

\* What the invariant asks of the moves, the quants and the ledger after a step.
Sound == moves' \in Seq(Move) /\ quant' \in [Internal -> Int] /\ MovesAreShaped' /\ GapIsTampered'

LEMMA SumsInt ==
  ASSUME TypeOK
  PROVE  /\ SumOver(quant, Internal) \in Int
         /\ Expected(moves) \in Int
         /\ SumOver(tampers, DOMAIN tampers) \in Int
<1>1. IsFiniteSet(Internal) /\ \A l \in Internal : quant[l] \in Int
  BY StockAssumption DEF StockAssumption, TypeOK
<1>2. IsFiniteSet(DOMAIN tampers) /\ \A i \in DOMAIN tampers : tampers[i] \in Int
  BY SeqIndexes, ElementOfSeq DEF TypeOK
<1> QED
  BY <1>1, <1>2, SumInt, ExpectedInt DEF TypeOK

\* A move that is entered or done keeps the gap if the quants follow it.
LEMMA SoundAfterAppend ==
  ASSUME NEW ms \in Seq(Move), \A i \in DOMAIN ms : Shaped(ms[i]),
         NEW m \in Move, Shaped(m), moves' = Append(ms, m),
         quant' \in [Internal -> Int], tampers' = tampers,
         TypeOK, GapIsTampered, Expected(ms) = Expected(moves),
         SumOver(quant', Internal) = SumOver(quant, Internal) + Brings(m)
  PROVE  Sound /\ Len(moves') = Len(ms) + 1
<1>1. /\ moves' \in Seq(Move) /\ Len(moves') = Len(ms) + 1 /\ moves'[Len(ms) + 1] = m
      /\ \A i \in 1..Len(ms) : moves'[i] = ms[i]
  BY AppendProperties
<1>2. MovesAreShaped'
  BY <1>1, SeqIndexes DEF MovesAreShaped
<1>3. Expected(moves') = Expected(ms) + Brings(m)
  BY ExpectedAfterAppend
<1>4. SumOver(quant, Internal) = Expected(moves) + SumOver(tampers, DOMAIN tampers)
  BY GapIsSum DEF TypeOK
<1>5. Brings(m) \in Int
  <2> m.qty \in Int
    BY DEF Move
  <2> QED
    BY DEF Brings
<1>6. SumOver(quant', Internal) = Expected(moves') + SumOver(tampers, DOMAIN tampers)
  BY <1>3, <1>4, <1>5, SumsInt
<1>7. GapIsTampered'
  BY <1>1, <1>6, GapIsSumNext
<1> QED
  BY <1>1, <1>2, <1>7 DEF Sound

\* The three ways to enter moves.
LEMMA SoundAfterPlan ==
  ASSUME TypeOK, MovesAreShaped, GapIsTampered,
         NEW f \in Places, NEW t \in Places, NEW q \in Amounts, NEW scrap \in BOOLEAN,
         PlanMove(f, t, q, scrap)
  PROVE  Sound /\ Len(moves') \in 0..MaxMoves
<1> DEFINE m == [from |-> f, to |-> t, qty |-> q, done |-> FALSE,
                 is_inventory |-> FALSE, scrap |-> scrap]
<1>1. m \in Move /\ ~m.done /\ ~m.is_inventory /\ m.scrap = scrap /\ m.from = f /\ m.to = t
  BY StockAssumption DEF StockAssumption, Move
<1>2. moves' = Append(moves, m) /\ quant' = quant /\ tampers' = tampers
  BY DEF PlanMove
<1>3. Shaped(m)
  BY <1>1 DEF Shaped, PlanMove
<1>4. Brings(m) = 0
  BY <1>1 DEF Brings
<1>5. Len(moves) \in Nat /\ Len(moves) < MaxMoves /\ MaxMoves \in Nat
  BY StockAssumption, LenProperties DEF StockAssumption, TypeOK, PlanMove
<1> HIDE DEF m
<1>6. Sound /\ Len(moves') = Len(moves) + 1
  <2>1. /\ quant' \in [Internal -> Int]
        /\ SumOver(quant', Internal) = SumOver(quant, Internal) + Brings(m)
    BY <1>2, <1>4, SumsInt DEF TypeOK
  <2> QED
    BY <1>1, <1>2, <1>3, <2>1, SoundAfterAppend DEF TypeOK, MovesAreShaped
<1> QED
  BY <1>5, <1>6

LEMMA SoundAfterValidation ==
  ASSUME TypeOK, MovesAreShaped, GapIsTampered,
         NEW i \in DOMAIN moves, ValidateMove(i)
  PROVE  Sound /\ Len(moves') \in 0..MaxMoves
<1> DEFINE ms == RemoveAt(moves, i)
           m == [moves[i] EXCEPT !.done = TRUE]
<1>1. moves \in Seq(Move) /\ moves[i] \in Move /\ Shaped(moves[i]) /\ moves[i].done = FALSE
  <2>1. moves[i] \in Move
    BY SeqIndexes, ElementOfSeq DEF TypeOK
  <2> QED
    BY <2>1 DEF TypeOK, MovesAreShaped, ValidateMove, Move
<1>2. m \in Move /\ Shaped(m)
  BY <1>1 DEF Move, Shaped
<1>3. ms \in Seq(Move) /\ Expected(ms) = Expected(moves)
  BY <1>1, ExpectedAfterRemoval
<1>4. /\ Len(moves) \in Nat /\ i \in 1..Len(moves)
      /\ Len(ms) = Len(moves) - 1
      /\ \A j \in 1..Len(moves) - 1 : ms[j] = IF j < i THEN moves[j] ELSE moves[j + 1]
  <2>1. Len(moves) \in Nat /\ i \in 1..Len(moves)
    BY <1>1, SeqIndexes
  <2> QED
    BY <1>1, <2>1, RemoveAtIs
<1>5. \A j \in DOMAIN ms : Shaped(ms[j])
  <2> TAKE j \in DOMAIN ms
  <2>1. j \in 1..Len(moves) - 1
    BY <1>3, <1>4, SeqIndexes
  <2>2. CASE j < i
    <3>1. j \in DOMAIN moves /\ ms[j] = moves[j]
      BY <1>1, <1>4, <2>1, <2>2, SeqIndexes
    <3> QED
      BY <3>1 DEF MovesAreShaped
  <2>3. CASE ~(j < i)
    <3>1. j + 1 \in DOMAIN moves /\ ms[j] = moves[j + 1]
      BY <1>1, <1>4, <2>1, <2>3, SeqIndexes
    <3> QED
      BY <3>1 DEF MovesAreShaped
  <2> QED
    BY <2>2, <2>3
<1>6. /\ quant' \in [Internal -> Int]
      /\ SumOver(quant', Internal) = SumOver(quant, Internal) + Brings(m)
  BY <1>1, QuantsAfterMove DEF TypeOK, ValidateMove
<1>7. moves' = Append(ms, m) /\ tampers' = tampers
  BY DEF ValidateMove
<1> HIDE DEF ms, m
<1>8. Sound /\ Len(moves') = Len(ms) + 1
  BY <1>2, <1>3, <1>5, <1>6, <1>7, SoundAfterAppend
<1> QED
  BY <1>4, <1>8 DEF TypeOK

LEMMA SoundAfterAdjust ==
  ASSUME TypeOK, MovesAreShaped, GapIsTampered,
         NEW l \in Internal, NEW counted \in Int, Adjust(l, counted), tampers' = tampers
  PROVE  Sound /\ Len(moves') \in 0..MaxMoves
<1> DEFINE up == counted > quant[l]
           m == IF up THEN Adjustment("loss", l, counted - quant[l])
                      ELSE Adjustment(l, "loss", quant[l] - counted)
<1>1. quant[l] \in Int /\ quant \in [Internal -> Int]
  BY DEF TypeOK
<1>2. /\ m.qty = (IF up THEN counted - quant[l] ELSE quant[l] - counted)
      /\ m.from = (IF up THEN "loss" ELSE l) /\ m.to = (IF up THEN l ELSE "loss")
      /\ m.done /\ m.is_inventory /\ ~m.scrap
  BY DEF Adjustment
<1>3. m \in Move
  <2>1. l \in Places /\ "loss" \in Places
    BY DEF Places
  <2> QED
    BY <1>1, <2>1 DEF Adjustment, Move
<1>4. moves' = Append(moves, m) /\ quant' = [quant EXCEPT ![l] = counted]
  BY DEF Adjust
<1> HIDE DEF m
<1>5. Shaped(m)
  BY <1>2 DEF Shaped
<1>6. Usage(l) = "internal" /\ Usage("loss") # "internal"
  BY StockAssumption DEF StockAssumption, Usage
<1>7. Brings(m) = counted - quant[l]
  BY <1>1, <1>2, <1>6 DEF Brings, MovedIn, MovedOut
<1>8. /\ quant' \in [Internal -> Int]
      /\ SumOver(quant', Internal) = SumOver(quant, Internal) + (counted - quant[l])
  <2>1. /\ quant' \in [Internal -> Int] /\ counted - quant[l] \in Int
        /\ Adds(quant, quant', l, counted - quant[l])
    BY <1>1, <1>4 DEF Adds
  <2> QED
    BY <1>1, <2>1, QuantsAfterAdding
<1>9. Len(moves) \in Nat /\ Len(moves) < MaxMoves /\ MaxMoves \in Nat
  BY StockAssumption, LenProperties DEF StockAssumption, TypeOK, Adjust
<1>10. Sound /\ Len(moves') = Len(moves) + 1
  BY <1>3, <1>4, <1>5, <1>7, <1>8, SoundAfterAppend DEF TypeOK, MovesAreShaped
<1> QED
  BY <1>9, <1>10

\* What code writes past the ledger is the gap it leaves.
LEMMA SoundAfterTamper ==
  ASSUME TypeOK, MovesAreShaped, GapIsTampered,
         NEW l \in Internal, NEW diff \in Int, Tamper(l, diff)
  PROVE  Sound
<1>1. quant \in [Internal -> Int] /\ tampers \in Seq(Int) /\ moves \in Seq(Move)
  BY DEF TypeOK
<1>2. /\ quant' = [quant EXCEPT ![l] = @ + diff]
      /\ tampers' = Append(tampers, diff) /\ moves' = moves
  BY DEF Tamper
<1>3. /\ quant' \in [Internal -> Int]
      /\ SumOver(quant', Internal) = SumOver(quant, Internal) + diff
  <2>1. quant' \in [Internal -> Int] /\ Adds(quant, quant', l, diff)
    BY <1>1, <1>2 DEF Adds
  <2> QED
    BY <1>1, <2>1, QuantsAfterAdding
<1>4. SumOver(tampers', DOMAIN tampers') = SumOver(tampers, DOMAIN tampers) + diff
  <2> DEFINE n == Len(tampers) + 1
             D == DOMAIN tampers
             after == Append(tampers, diff)
  <2>1. /\ DOMAIN after = D \cup {n} /\ n \notin D /\ IsFiniteSet(D)
        /\ after[n] = diff /\ \A i \in D : after[i] = tampers[i] /\ tampers[i] \in Int
    <3>1. /\ after \in Seq(Int) /\ Len(after) = n /\ after[n] = diff
          /\ \A i \in 1..Len(tampers) : after[i] = tampers[i]
      BY <1>1, AppendProperties
    <3>2. /\ D = 1..Len(tampers) /\ Len(tampers) \in Nat /\ IsFiniteSet(D)
          /\ DOMAIN after = 1..Len(after)
      BY <1>1, <3>1, SeqIndexes
    <3>3. \A i \in D : tampers[i] \in Int
      BY <1>1, <3>2, ElementOfSeq
    <3> HIDE DEF after, D
    <3> QED
      BY <3>1, <3>2, <3>3
  <2> HIDE DEF n, D, after
  <2>2. SumOver(after, D \cup {n}) = SumOver(after, D) + after[n]
    BY <2>1, SumAdd
  <2>3. SumOver(after, D) = SumOver(tampers, D)
    BY <2>1, SumCongruent
  <2> QED
    BY <1>2, <2>1, <2>2, <2>3 DEF after, D
<1>5. SumOver(quant, Internal) = Expected(moves) + SumOver(tampers, DOMAIN tampers)
  BY <1>1, GapIsSum
<1>6. SumOver(quant', Internal) = Expected(moves') + SumOver(tampers', DOMAIN tampers')
  BY <1>2, <1>3, <1>4, <1>5, SumsInt
<1>7. MovesAreShaped'
  BY <1>2 DEF MovesAreShaped
<1> QED
  BY <1>1, <1>2, <1>3, <1>6, <1>7, GapIsSumNext DEF Sound


-----------------------------------------------------------------------------
(* What the run knows. *)

LEMMA OnHandInt ==
  ASSUME TypeOK
  PROVE  OnHand \in Int
<1>1. Compared \in SUBSET Internal
  BY StockAssumption DEF StockAssumption, Compared, TypeOK
<1>2. IsFiniteSet(Compared) /\ \A l \in Compared : quant[l] \in Int
  BY <1>1, StockAssumption, FS_Subset DEF StockAssumption, TypeOK
<1> QED
  BY <1>2, SumInt DEF OnHand, QtyAvailable

\* To the nearest even number of halves, and up by one at most.
LEMMA RoundedInt ==
  ASSUME NEW halves \in Int
  PROVE  Rounded(halves) \in Int /\ Rounded(halves) % 2 = 0 /\ Rounded(halves) <= halves + 1
<1>1. CASE halves % 2 = 0
  BY <1>1 DEF Rounded
<1>2. CASE halves % 2 # 0
  <2>1. (halves - 1) % 2 = 0 /\ (halves + 1) % 2 = 0
    BY <1>2
  <2>2. Rounded(halves) = IF halves % 4 = 1 THEN halves - 1 ELSE halves + 1
    BY <1>2 DEF Rounded
  <2> QED
    BY <2>1, <2>2
<1> QED
  BY <1>1, <1>2

\* Types, for the parts no ledger step touches.
Typed ==
    /\ level' \in [Levels -> Int] /\ \A v \in Levels : level'[v] % 2 = 0
    /\ setting' \in {{}, Feeds}
    /\ run' \in [pc: {"none", "gathered", "update_shopify", "adjust_odoo", "pushed",
                      "adjusted"}, onHand: Int, warned: BOOLEAN, qty: Int]
    /\ tampers' \in Seq(Int) /\ fresh' \in BOOLEAN

\* Nothing moves in the ledger.
LEMMA SoundIfUnchanged ==
  ASSUME IInv, UNCHANGED <<moves, quant, tampers>>
  PROVE  Sound /\ Len(moves') <= MaxMoves
<1>1. TypeOK /\ GapIsTampered /\ MovesAreShaped
  BY DEF IInv
<1>2. SumOver(quant, Internal) = Expected(moves) + SumOver(tampers, DOMAIN tampers)
  BY <1>1, GapIsSum DEF TypeOK
<1>3. SumOver(quant', Internal) = Expected(moves') + SumOver(tampers', DOMAIN tampers')
  BY <1>2
<1>4. MovesAreShaped'
  BY <1>1 DEF MovesAreShaped
<1> QED
  BY <1>1, <1>3, <1>4, GapIsSumNext DEF Sound, TypeOK

LEMMA StepTyped ==
  ASSUME IInv, [Next]_vars
  PROVE  Typed
<1>1. TypeOK /\ Units \subseteq Nat /\ FirstLevel \in Levels /\ Amounts \subseteq Nat
      /\ Counts \subseteq Nat
  BY StockAssumption DEF StockAssumption, IInv
<1>2. /\ level \in [Levels -> Int] /\ \A v \in Levels : level[v] % 2 = 0
      /\ setting \in {{}, Feeds}
      /\ run \in [pc: {"none", "gathered", "update_shopify", "adjust_odoo", "pushed",
                       "adjusted"}, onHand: Int, warned: BOOLEAN, qty: Int]
      /\ tampers \in Seq(Int) /\ fresh \in BOOLEAN
  BY <1>1 DEF TypeOK
<1>3. ASSUME NEW f \in Places, NEW t \in Places, NEW q \in Amounts, NEW scrap \in BOOLEAN,
             PlanMove(f, t, q, scrap)
      PROVE  Typed
  BY <1>2, <1>3 DEF PlanMove, Typed
<1>4. ASSUME NEW i \in DOMAIN moves, ValidateMove(i) PROVE Typed
  BY <1>2, <1>4 DEF ValidateMove, Typed
<1>5. ASSUME NEW l \in Internal, NEW c \in Counts, CountByHand(l, c) PROVE Typed
  BY <1>2, <1>5 DEF CountByHand, Typed
<1>6. ASSUME NEW l \in Internal, NEW d \in Int, Tamper(l, d) PROVE Typed
  <2>1. tampers' \in Seq(Int)
    BY <1>2, <1>6, AppendProperties DEF Tamper
  <2> QED
    BY <1>2, <1>6, <2>1 DEF Tamper, Typed
<1>7. ASSUME NEW v \in Levels, NEW u \in Units, ShopifyChanges(v, u) PROVE Typed
  <2>1. 2 * u \in Int /\ (2 * u) % 2 = 0
    BY <1>1
  <2> QED
    BY <1>2, <1>7, <2>1 DEF ShopifyChanges, Typed
<1>8. CASE SetLocation
  BY <1>2, <1>8 DEF SetLocation, Typed
<1>9. CASE Gather
  <2>1. OnHand \in Int /\ Ambiguous \in BOOLEAN
    BY <1>1, OnHandInt DEF Ambiguous
  <2>2. run' \in [pc: {"none", "gathered", "update_shopify", "adjust_odoo", "pushed",
                       "adjusted"}, onHand: Int, warned: BOOLEAN, qty: Int]
    BY <1>2, <1>9, <2>1 DEF Gather
  <2> QED
    BY <1>2, <1>9, <2>2 DEF Gather, Typed
<1>10. ASSUME NEW action \in {"update_shopify", "adjust_odoo"}, NEW q \in Int,
              Propose(action, q)
       PROVE  Typed
  <2>1. run' \in [pc: {"none", "gathered", "update_shopify", "adjust_odoo", "pushed",
                       "adjusted"}, onHand: Int, warned: BOOLEAN, qty: Int]
    BY <1>2, <1>10 DEF Propose
  <2> QED
    BY <1>2, <1>10, <2>1 DEF Propose, Typed
<1>11. \A q \in Targets : q \in Int /\ -q \in Int /\ run.onHand \in Int
  BY <1>2, StockAssumption DEF StockAssumption
<1>12. CASE ApplyInventoryPatch
  BY <1>2, <1>12 DEF ApplyInventoryPatch, Typed
<1>13. CASE PushInventoryToShopify
  <2>1. Rounded(run.qty) \in Int /\ Rounded(run.qty) % 2 = 0
    BY <1>2, RoundedInt
  <2> QED
    BY <1>1, <1>2, <1>13, <2>1 DEF PushInventoryToShopify, Typed
<1>14. CASE UNCHANGED vars
  BY <1>2, <1>14 DEF vars, Typed
<1>15. \A d \in Amounts : d \in Int /\ -d \in Int
  BY <1>1
<1> QED
  BY <1>3, <1>4, <1>5, <1>6, <1>7, <1>8, <1>9, <1>10, <1>11, <1>12, <1>13, <1>14, <1>15
  DEF Next

LEMMA StepSound ==
  ASSUME IInv, [Next]_vars
  PROVE  Sound /\ Len(moves') <= MaxMoves
<1>1. /\ TypeOK /\ MovesAreShaped /\ GapIsTampered
      /\ Amounts \subseteq Nat /\ Counts \subseteq Nat /\ MaxMoves \in Nat
      /\ run.qty \in Int /\ Main \in Internal
  BY StockAssumption DEF StockAssumption, IInv, TypeOK
<1>2. ASSUME NEW f \in Places, NEW t \in Places, NEW q \in Amounts, NEW scrap \in BOOLEAN,
             PlanMove(f, t, q, scrap)
      PROVE  Sound /\ Len(moves') <= MaxMoves
  BY <1>1, <1>2, SoundAfterPlan
<1>3. ASSUME NEW i \in DOMAIN moves, ValidateMove(i)
      PROVE  Sound /\ Len(moves') <= MaxMoves
  BY <1>1, <1>3, SoundAfterValidation
<1>4. ASSUME NEW l \in Internal, NEW c \in Int, Adjust(l, c), UNCHANGED tampers
      PROVE  Sound /\ Len(moves') <= MaxMoves
  BY <1>1, <1>4, SoundAfterAdjust
<1>5. ASSUME NEW l \in Internal, NEW d \in Int, Tamper(l, d)
      PROVE  Sound /\ Len(moves') <= MaxMoves
  BY <1>1, <1>5, SoundAfterTamper DEF Tamper, TypeOK
<1>6. ASSUME UNCHANGED <<moves, quant, tampers>>
      PROVE  Sound /\ Len(moves') <= MaxMoves
  BY <1>6, SoundIfUnchanged
<1>7. \A d \in Amounts : d \in Int /\ -d \in Int
  BY <1>1
<1>8. \A c \in Counts : c \in Int
  BY <1>1
<1>9. ASSUME NEW l \in Internal, NEW c \in Counts, CountByHand(l, c)
      PROVE  Sound /\ Len(moves') <= MaxMoves
  BY <1>4, <1>8, <1>9 DEF CountByHand
<1>10. CASE ApplyInventoryPatch
  BY <1>1, <1>4, <1>10 DEF ApplyInventoryPatch, PatchLocation
<1>11. CASE (\E v \in Levels, u \in Units : ShopifyChanges(v, u)) \/ SetLocation
  BY <1>6, <1>11 DEF ShopifyChanges, SetLocation
<1>12. CASE Gather \/ \E action, q : Propose(action, q)
  BY <1>6, <1>12 DEF Gather, Propose
<1>13. CASE PushInventoryToShopify \/ UNCHANGED vars
  BY <1>6, <1>13 DEF PushInventoryToShopify, vars
<1> QED
  BY <1>2, <1>3, <1>5, <1>7, <1>9, <1>10, <1>11, <1>12, <1>13 DEF Next

\* Steps of others end what the run knows; its own steps carry it on.
LEMMA StepRight ==
  ASSUME IInv, [Next]_vars
  PROVE  RunIsRight'
<1>1. /\ TypeOK /\ RunIsRight
      /\ run \in [pc: {"none", "gathered", "update_shopify", "adjust_odoo", "pushed",
                       "adjusted"}, onHand: Int, warned: BOOLEAN, qty: Int]
      /\ FirstLevel \in Levels /\ level \in [Levels -> Int]
      /\ Main \in Internal /\ quant \in [Internal -> Int]
  BY StockAssumption DEF StockAssumption, IInv, TypeOK
<1>2. CASE fresh' = FALSE
  BY <1>2 DEF RunIsRight
<1>3. ASSUME UNCHANGED <<quant, setting>>
      PROVE  OnHand' = OnHand /\ Ambiguous' = Ambiguous
  BY <1>3 DEF OnHand, QtyAvailable, Compared, Ambiguous, Stocked
<1>4. ASSUME UNCHANGED <<quant, level, setting, run, fresh>> PROVE RunIsRight'
  BY <1>1, <1>3, <1>4 DEF RunIsRight
<1>5. CASE Gather
  BY <1>1, <1>3, <1>5 DEF Gather, RunIsRight
<1>6. ASSUME NEW action \in {"update_shopify", "adjust_odoo"}, NEW q, Propose(action, q)
      PROVE  RunIsRight'
  BY <1>1, <1>3, <1>6 DEF Propose, RunIsRight
<1>8. CASE ApplyInventoryPatch
  BY <1>1, <1>8 DEF ApplyInventoryPatch, Adjust, PatchLocation, RunIsRight
<1>9. CASE PushInventoryToShopify
  BY <1>1, <1>3, <1>9 DEF PushInventoryToShopify, RunIsRight
<1> QED
  BY <1>2, <1>4, <1>5, <1>6, <1>8, <1>9
  DEF Next, vars, PlanMove, ValidateMove, CountByHand, Tamper, ShopifyChanges, SetLocation

LEMMA InitInv == Init => IInv
<1> SUFFICES ASSUME Init PROVE IInv
  OBVIOUS
<1>1. /\ moves = <<>> /\ tampers = <<>> /\ quant = [l \in Internal |-> 0]
      /\ level = [v \in Levels |-> 0] /\ setting \in {{}, Feeds} /\ run = NoRun /\ fresh = TRUE
  BY DEF Init
<1>2. moves \in Seq(Move) /\ tampers \in Seq(Int) /\ Len(moves) = 0
      /\ DOMAIN moves = {} /\ DOMAIN tampers = {}
  BY <1>1
<1>3. TypeOK
  BY <1>1, <1>2, StockAssumption DEF StockAssumption, TypeOK, NoRun
<1>4. MovesAreShaped
  BY <1>2 DEF MovesAreShaped
<1>5. GapIsTampered
  <2>1. SumOver(quant, Internal) = 0
    BY <1>1, SumZero, StockAssumption DEF StockAssumption
  <2>2. SumOver(tampers, DOMAIN tampers) = 0
    BY <1>2, SumEmpty
  <2>3. Expected(moves) = 0
    <3>1. \A K : Picked(moves, K) = {}
      BY <1>2 DEF Picked
    <3> QED
      BY <3>1, SumEmpty DEF Expected, QtyOf
  <2> QED
    BY <1>2, <2>1, <2>2, <2>3, GapIsSum
<1>6. RunIsRight
  BY <1>1 DEF RunIsRight, NoRun
<1> QED
  BY <1>3, <1>4, <1>5, <1>6 DEF IInv

LEMMA NextInv == IInv /\ [Next]_vars => IInv'
<1> SUFFICES ASSUME IInv, [Next]_vars PROVE IInv'
  OBVIOUS
<1>1. Typed /\ Sound /\ Len(moves') <= MaxMoves /\ RunIsRight'
  BY StepTyped, StepSound, StepRight
<1> QED
  BY <1>1 DEF IInv, TypeOK, Typed, Sound

THEOREM Invariance == Spec => []IInv
BY InitInv, NextInv, PTL DEF Spec


-----------------------------------------------------------------------------
(* What follows from the invariant. *)

THEOREM TypeCorrect == Spec => []TypeOK
<1>1. IInv => TypeOK
  BY DEF IInv
<1> QED
  BY Invariance, <1>1, PTL

\* By how much the quants differ from the ledger is exactly what was written past it.
THEOREM GapIsExact == Spec => []GapIsTampered
<1>1. IInv => GapIsTampered
  BY DEF IInv
<1> QED
  BY Invariance, <1>1, PTL

\* ledger_check reports a gap exactly when direct writes left one.
THEOREM LedgerIsTruthful == Spec => []LedgerTells
<1>1. IInv => LedgerTells
  <2> SUFFICES ASSUME IInv PROVE LedgerTells
    OBVIOUS
  <2>1. ActualInQuants = ExpectedFromMoves + SumOver(tampers, DOMAIN tampers)
    BY DEF IInv, GapIsTampered
  <2>2. ExpectedFromMoves \in Int /\ SumOver(tampers, DOMAIN tampers) \in Int
    BY SumsInt, ExpectedIsSum DEF IInv, TypeOK
  <2>3. Balanced <=> SumOver(tampers, DOMAIN tampers) = 0
    BY <2>1, <2>2 DEF Balanced
  <2> QED
    BY <2>3, TampersIsSum DEF LedgerTells
<1> QED
  BY Invariance, <1>1, PTL

\* How the kinds divide the moves Odoo makes.
LEMMA KindOfMove ==
  ASSUME NEW m \in Move, Shaped(m)
  PROVE  /\ Kind(m) = "inventory_adjustment" <=> m.is_inventory
         /\ Kind(m) = "scrap" <=> m.scrap
         /\ MovedIn(m) <=> \/ Kind(m) = "incoming"
                           \/ Kind(m) = "inventory_adjustment" /\ m.from = "loss"
         /\ MovedOut(m) <=> \/ Kind(m) \in {"outgoing", "scrap"}
                            \/ Kind(m) = "inventory_adjustment" /\ m.from # "loss"
<1>1. m \in Move /\ Shaped(m)
  OBVIOUS
<1>2. "loss" \notin Internal /\ "internal" \notin Partners
  BY StockAssumption DEF StockAssumption
<1>3. \A p \in Places : Usage(p) = "internal" <=> p \in Internal
  BY <1>2 DEF Usage, Places
<1>4. /\ m.from \in Places /\ m.to \in Places
      /\ m.is_inventory \in BOOLEAN /\ m.scrap \in BOOLEAN
  BY <1>1 DEF Move
<1>5. Usage("loss") # "internal"
  BY <1>2 DEF Usage
<1>6. CASE m.is_inventory
  <2>1. Kind(m) = "inventory_adjustment"
    BY <1>6 DEF Kind
  <2>2. CASE m.from = "loss" /\ m.to \in Internal
    BY <1>1, <1>2, <1>3, <1>4, <1>5, <1>6, <2>1, <2>2 DEF MovedIn, MovedOut, Shaped
  <2>3. CASE m.from \in Internal /\ m.to = "loss"
    BY <1>1, <1>2, <1>3, <1>4, <1>5, <1>6, <2>1, <2>3 DEF MovedIn, MovedOut, Shaped
  <2> QED
    BY <1>1, <1>6, <2>2, <2>3 DEF Shaped
<1>7. CASE ~m.is_inventory /\ m.scrap
  <2>1. Kind(m) = "scrap"
    BY <1>7 DEF Kind
  <2>2. MovedOut(m) /\ ~MovedIn(m)
    BY <1>1, <1>3, <1>4, <1>5, <1>7 DEF MovedIn, MovedOut, Shaped
  <2> QED
    BY <1>1, <1>7, <2>1, <2>2
<1>8. CASE ~m.is_inventory /\ ~m.scrap
  <2>1. Kind(m) = IF Usage(m.from) = "internal" /\ Usage(m.to) = "internal"
                  THEN "internal_transfer"
                  ELSE IF Usage(m.to) = "internal" THEN "incoming"
                  ELSE IF Usage(m.from) = "internal" THEN "outgoing"
                  ELSE "other"
    BY <1>8 DEF Kind
  <2>2. Kind(m) \in {"internal_transfer", "incoming", "outgoing", "other"}
    BY <2>1
  <2>3. Kind(m) = "incoming" <=> MovedIn(m)
    BY <2>1 DEF MovedIn
  <2>4. Kind(m) = "outgoing" <=> MovedOut(m)
    BY <2>1 DEF MovedOut
  <2> QED
    BY <1>1, <1>8, <2>2, <2>3, <2>4
<1> QED
  BY <1>4, <1>6, <1>7, <1>8

LEMMA KindsDivide ==
  ASSUME TypeOK, MovesAreShaped, NEW i \in Done
  PROVE  /\ Kind(moves[i]) = "inventory_adjustment" <=> moves[i].is_inventory
         /\ Kind(moves[i]) = "scrap" <=> moves[i].scrap
         /\ MovedIn(moves[i]) <=>
               \/ Kind(moves[i]) = "incoming"
               \/ Kind(moves[i]) = "inventory_adjustment" /\ moves[i].from = "loss"
         /\ MovedOut(moves[i]) <=>
               \/ Kind(moves[i]) \in {"outgoing", "scrap"}
               \/ Kind(moves[i]) = "inventory_adjustment" /\ moves[i].from # "loss"
<1>1. moves[i] \in Move /\ Shaped(moves[i])
  BY SeqIndexes, ElementOfSeq DEF TypeOK, MovesAreShaped, Done
<1> QED
  BY <1>1, KindOfMove

\* The kinds account for the stock.
THEOREM KindsAccount == Spec => []KindsAddUp
<1>1. ASSUME IInv PROVE KindsAddUp
  <2> DEFINE up == {i \in OfKind("inventory_adjustment") : moves[i].from = "loss"}
             down == OfKind("inventory_adjustment") \ up
             in == OfKind("incoming")
             out == OfKind("outgoing")
             scrap == OfKind("scrap")
             sum(S) == SumOver(Qty(moves), S)
  <2>1. TypeOK /\ MovesAreShaped /\ moves \in Seq(Move)
    BY <1>1 DEF IInv, TypeOK
  <2>2. /\ {i \in Done : MovedIn(moves[i])} = in \cup up
        /\ {i \in Done : MovedOut(moves[i])} = (out \cup scrap) \cup down
    BY <2>1, KindsDivide DEF OfKind
  <2>3. in \cap up = {} /\ out \cap scrap = {} /\ (out \cup scrap) \cap down = {}
    BY DEF OfKind
  <2>4. /\ up \subseteq DOMAIN moves /\ down \subseteq DOMAIN moves
        /\ in \subseteq DOMAIN moves /\ out \subseteq DOMAIN moves
        /\ scrap \subseteq DOMAIN moves
    BY DEF OfKind, Done
  <2>5. /\ IsFiniteSet(DOMAIN moves)
        /\ \A i \in DOMAIN moves : Qty(moves)[i] \in Int
    <3>1. \A i \in DOMAIN moves : Qty(moves)[i] = moves[i].qty /\ moves[i].qty \in Nat
      BY <2>1, PickedIsFinite
    <3> QED
      BY <2>1, <3>1, SeqIndexes
  <2>6. \A S \in SUBSET DOMAIN moves : Total(S) = sum(S)
    BY TotalIsSum
  <2>7. ExpectedFromMoves = sum(in \cup up) - sum((out \cup scrap) \cup down)
    BY <2>2, <2>4, <2>6 DEF ExpectedFromMoves
  <2> HIDE DEF up, down, in, out, scrap
  <2>8. \A S \in SUBSET DOMAIN moves : IsFiniteSet(S) /\ \A i \in S : Qty(moves)[i] \in Int
    BY <2>5, FS_Subset
  <2>9. \A S \in SUBSET DOMAIN moves : sum(S) \in Int
    BY <2>8, SumInt
  <2>10. \A S, T \in SUBSET DOMAIN moves :
            S \cap T = {} => sum(S \cup T) = sum(S) + sum(T)
    <3> SUFFICES ASSUME NEW S \in SUBSET DOMAIN moves, NEW T \in SUBSET DOMAIN moves,
                        S \cap T = {}
                 PROVE  sum(S \cup T) = sum(S) + sum(T)
      OBVIOUS
    <3>1. IsFiniteSet(S) /\ IsFiniteSet(T) /\ \A i \in S \cup T : Qty(moves)[i] \in Int
      BY <2>5, <2>8
    <3> QED
      BY <3>1, SumUnion
  <2> HIDE DEF sum
  <2>11. sum(in \cup up) = sum(in) + sum(up)
    BY <2>3, <2>4, <2>10
  <2>12. sum(out \cup scrap) = sum(out) + sum(scrap)
    BY <2>3, <2>4, <2>10
  <2>13. sum((out \cup scrap) \cup down) = sum(out \cup scrap) + sum(down)
    <3> out \cup scrap \in SUBSET DOMAIN moves
      BY <2>4
    <3> QED
      BY <2>3, <2>4, <2>10
  <2>14. ExpectedFromMoves = sum(in) + sum(up) - sum(out) - sum(scrap) - sum(down)
    <3> /\ sum(in) \in Int /\ sum(up) \in Int /\ sum(out) \in Int
        /\ sum(scrap) \in Int /\ sum(down) \in Int
      BY <2>4, <2>9
    <3> QED
      BY <2>7, <2>11, <2>12, <2>13
  <2>15. /\ Total(in) = sum(in) /\ Total(up) = sum(up) /\ Total(out) = sum(out)
         /\ Total(scrap) = sum(scrap) /\ Total(down) = sum(down)
    BY <2>4, <2>6
  <2> QED
    BY <2>14, <2>15 DEF KindsAddUp, up, down, in, out, scrap
<1>2. IInv => KindsAddUp
  BY <1>1
<1> QED
  BY Invariance, <1>2, PTL

\* A search for a flagged kind loses none of the newest to the limit.
THEOREM FlaggedFound == Spec => []FlaggedMovesAreFound
<1>1. ASSUME IInv, NEW kind \in {"inventory_adjustment", "scrap"}, NEW limit \in 0..MaxMoves
      PROVE  WarehouseMoves({kind}, limit) = Newest(OfKind(kind), Clamped(limit))
  <2>1. Searched({kind}) = OfKind(kind)
    <3>1. \A i \in Done : /\ Kind(moves[i]) = "inventory_adjustment" <=> moves[i].is_inventory
                          /\ Kind(moves[i]) = "scrap" <=> moves[i].scrap
      BY <1>1, KindsDivide DEF IInv
    <3>2. {"scrap"} # {"inventory_adjustment"}
      OBVIOUS
    <3>3. CASE kind = "inventory_adjustment"
      BY <3>1, <3>3 DEF Searched, OfKind
    <3>4. CASE kind = "scrap"
      BY <3>1, <3>2, <3>4 DEF Searched, OfKind
    <3> QED
      BY <3>3, <3>4
  <2>2. \A i \in Newest(OfKind(kind), Clamped(limit)) : Kind(moves[i]) = kind
    BY DEF Newest, OfKind
  <2> QED
    BY <2>1, <2>2 DEF WarehouseMoves
<1>2. IInv => FlaggedMovesAreFound
  BY <1>1 DEF FlaggedMovesAreFound
<1> QED
  BY Invariance, <1>2, PTL

\* For any locations, quantities and proposals: a push of the compared on-hand that
\* came without a warning oversells only for one of the three reasons of the property.
THEOREM OversellingHasReasons == Spec => []OversellingIsExplained
<1>1. ASSUME IInv, PushesCompared, fresh,
             \A v \in Levels \ {FirstLevel} : level[v] = 0,
             ~(setting = {} /\ \E l \in Tree \ Feeds : Stocked = {l})
      PROVE  Available <= QtyAvailable(Feeds) + 1
  <2>1. /\ IsFiniteSet(Internal) /\ IsFiniteSet(Levels) /\ FirstLevel \in Levels
        /\ Feeds \subseteq Tree /\ Tree \subseteq Internal
        /\ quant \in [Internal -> Int] /\ level \in [Levels -> Int]
        /\ setting \in {{}, Feeds} /\ run.qty \in Int
    BY <1>1, StockAssumption DEF StockAssumption, IInv, TypeOK
  <2>2. run.qty = OnHand /\ ~Ambiguous /\ level[FirstLevel] = Rounded(run.qty)
    BY <1>1 DEF IInv, RunIsRight, PushesCompared
  <2>3. Available = level[FirstLevel]
    <3> level[FirstLevel] \in Int
      BY <2>1
    <3> QED
      BY <1>1, <2>1, SumAlone DEF Available
  <2>4. OnHand = QtyAvailable(Feeds)
    <3>1. CASE setting # {}
      BY <2>1, <3>1 DEF OnHand, Compared
    <3>2. CASE setting = {}
      <4> DEFINE rest == Tree \ Feeds
      <4>1. IsFiniteSet(Stocked) /\ Cardinality(Stocked) \in Nat
        BY <2>1, FS_Subset, FS_CardinalityType DEF Stocked
      <4>2. Cardinality(Stocked) <= 1
        BY <2>2, <3>2, <4>1 DEF Ambiguous
      <4>3. ASSUME NEW l \in rest PROVE quant[l] = 0
        <5>1. SUFFICES ASSUME l \in Stocked PROVE FALSE
          BY <2>1 DEF Stocked
        <5>2. Cardinality(Stocked) = 1
          BY <4>1, <4>2, <5>1, FS_EmptySet
        <5>3. Stocked = {l}
          BY <4>1, <5>1, <5>2, FS_Singleton
        <5> QED
          BY <1>1, <3>2, <5>3
      <4>4. /\ IsFiniteSet(rest) /\ IsFiniteSet(Feeds) /\ Feeds \cap rest = {}
            /\ Tree = Feeds \cup rest /\ \A l \in Feeds \cup rest : quant[l] \in Int
        BY <2>1, FS_Subset
      <4> HIDE DEF rest
      <4>5. SumOver(quant, rest) = 0
        BY <4>3, <4>4, SumZero
      <4>6. SumOver(quant, Tree) = SumOver(quant, Feeds) + SumOver(quant, rest)
        BY <4>4, SumUnion
      <4>7. SumOver(quant, Feeds) \in Int
        BY <4>4, SumInt
      <4> QED
        BY <3>2, <4>5, <4>6, <4>7 DEF OnHand, Compared, QtyAvailable
    <3> QED
      BY <3>1, <3>2
  <2> QED
    BY <2>1, <2>2, <2>3, <2>4, RoundedInt
<1>2. IInv => OversellingIsExplained
  BY <1>1 DEF OversellingIsExplained
<1> QED
  BY Invariance, <1>2, PTL

\* An approved correction makes the compared on-hand what the proposal says.
THEOREM CorrectionMade == Spec => []CorrectionIsMade
<1>1. ASSUME IInv, run.pc = "adjusted", fresh,
             Main \in Compared, \A l \in Compared \ {Main} : quant[l] = 0
      PROVE  OnHand = run.qty
  <2>1. quant[Main] = run.qty /\ run.qty \in Int
    BY <1>1 DEF IInv, TypeOK, RunIsRight
  <2>2. IsFiniteSet(Compared)
    <3>1. IsFiniteSet(Internal) /\ Compared \in SUBSET Internal
      BY <1>1, StockAssumption DEF StockAssumption, IInv, TypeOK, Compared
    <3> QED
      BY <3>1, FS_Subset
  <2> QED
    BY <1>1, <2>1, <2>2, SumAlone DEF OnHand, QtyAvailable
<1>2. IInv => CorrectionIsMade
  BY <1>1 DEF CorrectionIsMade
<1> QED
  BY Invariance, <1>2, PTL


-----------------------------------------------------------------------------
(* What a search of warehouse_moves promises besides.  The model may ask for   *)
(* any kinds and any limit, negative ones included.                            *)

\* The kinds that are told the model.
KindNames == {"inventory_adjustment", "scrap", "internal_transfer", "incoming",
              "outgoing", "other"}

LEMMA ClampedRange ==
  ASSUME NEW limit \in Int
  PROVE  Clamped(limit) \in 1..MaxLimit
<1>1. MaxLimit \in Nat /\ MaxLimit >= 1
  BY StockAssumption DEF StockAssumption
<1>2. Min({limit, MaxLimit}) = IF limit <= MaxLimit THEN limit ELSE MaxLimit
  BY <1>1 DEF Min
<1>3. PICK least \in Int : least = Min({limit, MaxLimit}) /\ least <= MaxLimit
  BY <1>1, <1>2
<1>4. Max({1, least}) = IF least <= 1 THEN 1 ELSE least
  BY DEF Max
<1> QED
  BY <1>1, <1>3, <1>4 DEF Clamped

\* The newest n of a set are no more than n, and all of it if it has no more.
LEMMA NewestIsLimited ==
  ASSUME NEW S, S \subseteq Nat, IsFiniteSet(S), NEW n \in Nat
  PROVE  /\ IsFiniteSet(Newest(S, n)) /\ Cardinality(Newest(S, n)) <= n
         /\ Cardinality(S) <= n => Newest(S, n) = S
<1> DEFINE N == Newest(S, n)
           after(i) == {j \in S : j > i}
<1>1. N = {i \in S : Cardinality(after(i)) < n} /\ N \subseteq S /\ IsFiniteSet(N)
  BY FS_Subset DEF Newest
<1>2. \A i \in S : /\ after(i) \in SUBSET S /\ i \notin after(i)
                   /\ IsFiniteSet(after(i))
  BY FS_Subset
<1> HIDE DEF after, N
<1>3. Cardinality(N) <= n
  <2>1. CASE N = {}
    BY <2>1, FS_EmptySet
  <2>2. CASE N # {}
    <3>1. N \subseteq Nat
      BY <1>1
    <3>2. PICK m \in N : \A i \in N : m <= i
      BY <2>2, <3>1, LeastNatural
    <3>3. N \ {m} \in SUBSET after(m)
      BY <1>1, <3>1, <3>2 DEF after
    <3>4. Cardinality(N \ {m}) <= Cardinality(after(m))
      BY <1>1, <1>2, <3>3, FS_Subset
    <3>5. Cardinality(after(m)) < n
      BY <1>1
    <3>6. Cardinality(N \ {m}) = Cardinality(N) - 1
      BY <1>1, FS_RemoveElement
    <3>7. Cardinality(N) \in Nat /\ Cardinality(after(m)) \in Nat
      BY <1>1, <1>2, FS_CardinalityType
    <3> QED
      BY <3>4, <3>5, <3>6, <3>7
  <2> QED
    BY <2>1, <2>2
<1>4. ASSUME Cardinality(S) <= n, NEW i \in S PROVE Cardinality(after(i)) < n
  <2>1. Cardinality(after(i)) <= Cardinality(S) /\ Cardinality(after(i)) # Cardinality(S)
    BY <1>2, FS_Subset
  <2>2. Cardinality(S) \in Nat /\ Cardinality(after(i)) \in Nat
    BY <1>2, FS_CardinalityType
  <2> QED
    BY <1>4, <2>1, <2>2
<1> QED
  BY <1>1, <1>3, <1>4 DEF N

LEMMA SearchedIsFinite ==
  ASSUME TypeOK, NEW kinds
  PROVE  Searched(kinds) \subseteq Done /\ Done \subseteq Nat /\ IsFiniteSet(Done)
<1>1. moves \in Seq(Move)
  BY DEF TypeOK
<1>2. DOMAIN moves \subseteq Nat /\ IsFiniteSet(DOMAIN moves)
  BY <1>1, SeqIndexes
<1>3. Done \in SUBSET DOMAIN moves
  BY DEF Done
<1> QED
  BY <1>2, <1>3, FS_Subset DEF Searched

\* No answer of warehouse_moves has more than MAX_LIMIT rows, whatever is asked.
THEOREM SearchIsBounded ==
  Spec => [](\A kinds \in SUBSET KindNames, limit \in Int :
                Cardinality(WarehouseMoves(kinds, limit)) <= MaxLimit)
<1>1. ASSUME IInv, NEW kinds \in SUBSET KindNames, NEW limit \in Int
      PROVE  Cardinality(WarehouseMoves(kinds, limit)) <= MaxLimit
  <2> DEFINE S == Searched(kinds)
             N == Newest(S, Clamped(limit))
  <2>1. S \subseteq Nat /\ IsFiniteSet(S)
    <3> S \in SUBSET Done /\ Done \subseteq Nat /\ IsFiniteSet(Done)
      BY <1>1, SearchedIsFinite DEF IInv
    <3> QED
      BY FS_Subset
  <2>2. Clamped(limit) \in 1..MaxLimit /\ MaxLimit \in Nat
    BY ClampedRange, StockAssumption DEF StockAssumption
  <2> HIDE DEF S
  <2>3. IsFiniteSet(N) /\ Cardinality(N) <= Clamped(limit)
    <3> Clamped(limit) \in Nat
      BY <2>2
    <3> QED
      BY <2>1, NewestIsLimited
  <2>4. WarehouseMoves(kinds, limit) \in SUBSET N
    BY DEF WarehouseMoves, S
  <2> HIDE DEF N
  <2>5. /\ IsFiniteSet(WarehouseMoves(kinds, limit))
        /\ Cardinality(WarehouseMoves(kinds, limit)) <= Cardinality(N)
    BY <2>3, <2>4, FS_Subset
  <2>6. Cardinality(N) \in Nat /\ Cardinality(WarehouseMoves(kinds, limit)) \in Nat
    BY <2>3, <2>5, FS_CardinalityType
  <2> QED
    BY <2>2, <2>3, <2>5, <2>6
<1>2. IInv => \A kinds \in SUBSET KindNames, limit \in Int :
                 Cardinality(WarehouseMoves(kinds, limit)) <= MaxLimit
  BY <1>1
<1> QED
  BY Invariance, <1>2, PTL

\* The done moves of some kinds; no kinds are all of them.
AllOf(kinds) == {i \in Done : kinds = {} \/ Kind(moves[i]) \in kinds}

\* A search loses a move to the limit only if the ledger has more moves than that:
\* up to there the answer is every done move of the kinds that were asked for.
THEOREM SearchIsComplete ==
  Spec => [](\A kinds \in SUBSET KindNames, limit \in Int :
                Cardinality(Done) <= Clamped(limit) =>
                   WarehouseMoves(kinds, limit) = AllOf(kinds))
<1>1. ASSUME IInv, NEW kinds \in SUBSET KindNames, NEW limit \in Int,
             Cardinality(Done) <= Clamped(limit)
      PROVE  WarehouseMoves(kinds, limit) = AllOf(kinds)
  <2> DEFINE S == Searched(kinds)
  <2>1. S \in SUBSET Done /\ S \subseteq Nat /\ IsFiniteSet(S) /\ IsFiniteSet(Done)
    <3> S \in SUBSET Done /\ Done \subseteq Nat /\ IsFiniteSet(Done)
      BY <1>1, SearchedIsFinite DEF IInv
    <3> QED
      BY FS_Subset
  <2>2. \A i \in AllOf(kinds) : i \in S
    <3>1. \A i \in Done : /\ Kind(moves[i]) = "inventory_adjustment" <=> moves[i].is_inventory
                          /\ Kind(moves[i]) = "scrap" <=> moves[i].scrap
      BY <1>1, KindsDivide DEF IInv
    <3>2. {"scrap"} # {"inventory_adjustment"}
      OBVIOUS
    <3>3. CASE kinds = {"inventory_adjustment"}
      BY <3>1, <3>3 DEF Searched, AllOf
    <3>4. CASE kinds = {"scrap"}
      BY <3>1, <3>2, <3>4 DEF Searched, AllOf
    <3>5. CASE kinds \notin {{"inventory_adjustment"}, {"scrap"}}
      BY <3>5 DEF Searched, AllOf
    <3> QED
      BY <3>3, <3>4, <3>5
  <2>3. Clamped(limit) \in Nat
    BY ClampedRange, StockAssumption DEF StockAssumption
  <2> HIDE DEF S
  <2>4. Cardinality(S) <= Clamped(limit)
    <3>1. Cardinality(S) <= Cardinality(Done)
      BY <2>1, FS_Subset
    <3>2. Cardinality(S) \in Nat /\ Cardinality(Done) \in Nat
      BY <2>1, FS_CardinalityType
    <3> QED
      BY <1>1, <2>3, <3>1, <3>2
  <2>5. Newest(S, Clamped(limit)) = S
    BY <2>1, <2>3, <2>4, NewestIsLimited
  <2>6. WarehouseMoves(kinds, limit) = {i \in S : kinds = {} \/ Kind(moves[i]) \in kinds}
    BY <2>5 DEF WarehouseMoves, S
  <2> QED
    BY <2>1, <2>2, <2>6 DEF AllOf
<1>2. IInv => \A kinds \in SUBSET KindNames, limit \in Int :
                 Cardinality(Done) <= Clamped(limit) =>
                    WarehouseMoves(kinds, limit) = AllOf(kinds)
  BY <1>1
<1> QED
  BY Invariance, <1>2, PTL
=============================================================================
