------------------------------ MODULE CostBasis ------------------------------
(***************************************************************************)
(* The cost-basis accumulators of the fold kernel, FIFO and average cost,  *)
(* for one instrument, and the tracker that gives a foreign sale its FX    *)
(* basis.  Only long positions occur: the kernel opens with 'long' and     *)
(* nothing else.  The contract multiplier, a common factor, is 1.          *)
(***************************************************************************)
EXTENDS CashBucket

\* Events are known by their place in the log, from 1.
NoEvent == 0

EmptyFifo ==
  [long |-> FALSE, qty |-> Zero, lots |-> <<>>,
   gross_native |-> Zero, gross_base |-> Zero, fx_gain |-> Zero]

EmptyAvg ==
  [long |-> FALSE, qty |-> Zero, native |-> Zero, base |-> Zero, fx |-> Zero,
   gross_native |-> Zero, gross_base |-> Zero, fx_gain |-> Zero]

EmptyInst ==
  [fifo |-> EmptyFifo, avg |-> EmptyAvg, cycle_count |-> 0,
   cycle_open |-> NoEvent, cycle_pnl |-> Zero]

\* entry is the event that opened the lot.  The kernel keeps its time only
\* (event_ts_us, the entry_ts of a closure), which does not name one event.
NewLot(id, entry, qty, price, fx) ==
  [lot_id |-> id, entry |-> entry, qty |-> qty, price |-> price, fx |-> fx]

fifo_open(fifo, lot) ==
  [fifo EXCEPT !.long = TRUE, !.lots = Append(@, lot), !.qty = @ ++ lot.qty]

\* The profit of selling one unit of the lot, in the instrument's currency
\* and in base; without a rate of its own the sale is valued at the lot's.
UnitNative(lot, price) == price -- lot.price

UnitBase(lot, price, fx, realize_fx) ==
  IF realize_fx THEN (price ** fx) -- (lot.price ** lot.fx)
  ELSE (price -- lot.price) ** lot.fx

UnitFx(lot, fx, realize_fx) == IF realize_fx THEN lot.price ** (fx -- lot.fx) ELSE Zero

\* What the sale takes from each lot it reaches, the side stream of the event.
Closures(fifo, qty, price, fx, realize_fx) ==
  LET taken == Taken(fifo.lots, qty)
  IN  Kept([i \in DOMAIN fifo.lots |->
              LET lot == fifo.lots[i] IN
              [lot_id |-> lot.lot_id, entry |-> lot.entry, qty |-> taken[i],
               entry_price |-> lot.price, entry_fx_to_base |-> lot.fx,
               exit_price |-> price, exit_fx_to_base |-> fx,
               realized_pnl_base |-> taken[i] ** UnitBase(lot, price, fx, realize_fx)]])

\* Mutant: more than is held can be sold.
fifo_left_unclamped(fifo, qty) == fifo.qty -- qty

fifo_left(fifo, qty) == Greater(Zero, fifo.qty -- qty)

\* A sale of more than is held closes what is held and drops the rest.
fifo_close(fifo, qty, price, fx, realize_fx) ==
  LET qty_left == fifo_left(fifo, qty)
      Realised(Unit(_)) == TakenSum(fifo.lots, qty, Unit)
  IN  IF ~fifo.long THEN fifo
      ELSE [long |-> qty_left # Zero, qty |-> qty_left,
            lots |-> IF qty_left = Zero THEN <<>> ELSE Rest(fifo.lots, qty),
            gross_native |-> fifo.gross_native
                               ++ Realised(LAMBDA lot : UnitNative(lot, price)),
            gross_base |-> fifo.gross_base
                             ++ Realised(LAMBDA lot : UnitBase(lot, price, fx, realize_fx)),
            fx_gain |-> fifo.fx_gain
                          ++ Realised(LAMBDA lot : UnitFx(lot, fx, realize_fx))]

\* Mutant: the last price instead of the average.
Mean_last(avg, lot, old, new) == new

Mean(avg, lot, old, new) == ((avg.qty ** old) ++ (lot.qty ** new)) // (avg.qty ++ lot.qty)

avg_open(avg, lot) ==
  [avg EXCEPT !.long = TRUE, !.qty = @ ++ lot.qty,
              !.native = Mean(avg, lot, @, lot.price),
              !.base = Mean(avg, lot, @, lot.price ** lot.fx),
              !.fx = Mean(avg, lot, @, lot.fx)]

avg_close(avg, qty, price, fx, realize_fx) ==
  LET qty_left == avg.qty -- qty
      base == IF realize_fx THEN (price ** fx) -- avg.base
              ELSE (price -- avg.native) ** avg.fx
      realised ==
        [avg EXCEPT !.qty = qty_left,
                    !.gross_native = @ ++ (qty ** (price -- avg.native)),
                    !.gross_base = @ ++ (qty ** base),
                    !.fx_gain = IF realize_fx
                                THEN @ ++ ((qty ** avg.native) ** (fx -- avg.fx)) ELSE @]
      flat == [realised EXCEPT !.long = FALSE, !.qty = Zero, !.native = Zero,
                               !.base = Zero, !.fx = Zero]
  IN  IF ~avg.long THEN avg ELSE IF Positive(qty_left) THEN realised ELSE flat

was_flat(inst) == ~inst.fifo.long

\* Lots enter both accumulators; the first one opens a cycle.
open_lot(inst, lot, sid) ==
  [inst EXCEPT !.fifo = fifo_open(@, lot), !.avg = avg_open(@, lot),
               !.cycle_open = IF was_flat(inst) THEN sid ELSE @,
               !.cycle_pnl = IF was_flat(inst) THEN Zero ELSE @]

\* A sale closes in both; when the position is gone the cycle is over.
closed(inst, fifo, avg) ==
  LET over == ~fifo.long /\ inst.cycle_open # NoEvent
      pnl  == inst.cycle_pnl ++ (fifo.gross_base -- inst.fifo.gross_base)
  IN  [fifo |-> fifo, avg |-> avg,
       cycle_count |-> inst.cycle_count + (IF over THEN 1 ELSE 0),
       cycle_open |-> IF over THEN NoEvent ELSE inst.cycle_open,
       cycle_pnl |-> IF over THEN Zero ELSE pnl]

close_qty(inst, qty, price, fx, realize_fx) ==
  closed(inst, fifo_close(inst.fifo, qty, price, fx, realize_fx),
         avg_close(inst.avg, qty, price, fx, realize_fx))

\* The cycle, if any, that ended with the sale from before to after.
Cycles(before, after) ==
  IF after.cycle_count = before.cycle_count THEN <<>>
  ELSE << [cycle_seq |-> before.cycle_count,
           pnl_base |-> before.cycle_pnl
                          ++ (after.fifo.gross_base -- before.fifo.gross_base)] >>

(***************************************************************************)
(* The FX basis of a foreign sale                                          *)
(***************************************************************************)

tracker_buy(tracker, qty, trade_id) == Append(tracker, [qty |-> qty, trade_id |-> trade_id])

\* The average FX basis of the tracked lots, or the fallback without any.
tracker_fx(tracker, basis, fallback) ==
  LET Fx(id) == IF id \in DOMAIN basis THEN basis[id] ELSE fallback
  IN  IF ~Positive(TotalQty(tracker)) THEN fallback
      ELSE Total(tracker, LAMBDA lot : lot.qty ** Fx(lot.trade_id)) // TotalQty(tracker)

\* Mutant: what was sold stays.
kept_share_sold(total, qty) == Lesser(qty, total) // total

kept_share(total, qty) == (total -- Lesser(qty, total)) // total

\* A sale shrinks all tracked lots in proportion.
tracker_sell(tracker, qty) ==
  LET total == TotalQty(tracker)
  IN  IF ~Positive(total) THEN tracker
      ELSE Kept([i \in DOMAIN tracker |->
                   [tracker[i] EXCEPT !.qty = @ ** kept_share(total, qty)]])
=============================================================================
