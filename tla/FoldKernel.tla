----------------------------- MODULE FoldKernel -----------------------------
(***************************************************************************)
(* The per-event portfolio fold, the aggregate fold_kernel that RisingWave *)
(* runs over the event log of a portfolio in the order of business time    *)
(* (05-fold/fold_per_event.sql).  accumulate hands every event to the      *)
(* handler of its type; each handler is an action here.                    *)
(*                                                                         *)
(* An event is a record; its source_id is its place in the log.  FX fees   *)
(* (fx_fees_native), contract multipliers and the running totals that only *)
(* add up inputs (deposits, interest, dividends) are left out.  A          *)
(* currency or instrument the kernel has not created yet is an empty one.  *)
(***************************************************************************)
EXTENDS CostBasis, SequencesExt

CONSTANTS Base,        \* the portfolio's base currency
          Instrument,
          Event,       \* the events the log may hold
          MaxEvents    \* bound on the length of the log

ASSUME BaseAssumption == Base \in Currency

NoTransfer == 0

\* The numbers of an event are those its handler works with, defaults filled
\* in; nothing is assumed of their signs.
EventOK(ev) ==
  CASE ev.type = "TRADE" ->
         /\ ev.iid \in Instrument /\ ev.ccy \in Currency /\ ev.side \in {"buy", "sell"}
         /\ ev.qty \in Rat /\ ev.price \in Rat /\ ev.fees \in Rat
         /\ ev.rate = None \/ ev.rate \in Rat
    [] ev.type = "CASHFLOW" ->
         ev.ccy \in Currency /\ ev.amount \in Rat /\ ev.fx \in Rat
    [] ev.type = "DIVIDEND" ->
         /\ ev.ccy \in Currency /\ ev.gross \in Rat /\ ev.withholding \in Rat
         /\ ev.fx \in Rat /\ (ev.rate = None \/ ev.rate \in Rat)
    [] ev.type = "TRANSFER_IN" ->
         /\ ev.iid \in Instrument /\ ev.qty \in Rat /\ ev.cost \in Rat /\ ev.fx \in Rat
         /\ ev.transfer_id \in Nat
    [] ev.type = "FX_CONVERSION" ->
         /\ ev.from \in Currency /\ ev.to \in Currency /\ ev.fee_ccy \in Currency
         /\ ev.from_amt \in Rat /\ ev.to_amt \in Rat /\ ev.fee \in Rat
         /\ ev.broker_fx \in Rat
    [] OTHER -> TRUE

ASSUME EventAssumption == \A ev \in Event : EventOK(ev)

VARIABLES state,     \* the aggregate's state
          log,       \* the events folded so far
          closures,  \* the closures emitted so far, by instrument
          cycles     \* the cycles emitted so far, by instrument

vars == <<state, log, closures, cycles>>

Init ==
  /\ state = [currencies |-> [c \in Currency |-> EmptyBucket],
              pending_borrows |-> <<>>, buy_fx_basis |-> <<>>,
              foreign_sell_fx_basis |-> <<>>,
              open_lots_fx_tracker |-> [i \in Instrument |-> <<>>],
              instruments |-> [i \in Instrument |-> EmptyInst]]
  /\ log = <<>>
  /\ closures = [i \in Instrument |-> <<>>]
  /\ cycles = [i \in Instrument |-> <<>>]

\* The source_id of the event being folded.
sid == Len(log) + 1

Get(f, key, default) == IF key \in DOMAIN f THEN f[key] ELSE default

(***************************************************************************)
(* TRADE                                                                   *)
(***************************************************************************)

Gross(ev) == ev.qty ** ev.price

\* The broker converted to base by itself.
settled_in_base(ev) == ev.rate # None /\ ev.ccy # Base

track_buy(st, ev, basis) ==
  [st EXCEPT !.buy_fx_basis = Put(@, sid, basis),
             !.open_lots_fx_tracker[ev.iid] = tracker_buy(@, ev.qty, sid)]

track_sell(st, ev, fallback) ==
  LET fx == tracker_fx(st.open_lots_fx_tracker[ev.iid], st.buy_fx_basis, fallback)
  IN  [st EXCEPT !.foreign_sell_fx_basis = Put(@, sid, fx),
                 !.open_lots_fx_tracker[ev.iid] = tracker_sell(@, ev.qty)]

drain(st, ccy, amount) == bucket_drain(st, ccy, amount, None, sid).st

settle_in_base(st, ev) ==
  add_fees(IF ev.side = "buy"
           THEN track_buy(drain(st, Base, (Gross(ev) ++ ev.fees) ** ev.rate), ev, ev.rate)
           ELSE track_sell(bucket_deposit(st, Base, (Gross(ev) -- ev.fees) ** ev.rate, One),
                           ev, ev.rate),
           Base, ev.fees ** ev.rate, One)

\* The fee of a foreign purchase on margin is booked when it is covered.
bought_with(ev, res) ==
  LET prov == IF res.lot_backed_basis = None THEN One ELSE res.lot_backed_basis
      tracked == track_buy(register_borrow(res.st, res, "buy", ev.ccy, sid, ev.fees, One),
                           ev, prov)
  IN  IF ev.ccy = Base THEN add_fees(res.st, Base, ev.fees, One)
      ELSE IF Positive(res.borrowed_qty) THEN tracked
      ELSE add_fees(tracked, ev.ccy, ev.fees, prov)

buy_in_currency(st, ev) ==
  bought_with(ev, bucket_drain(st, ev.ccy, Gross(ev) ++ ev.fees, None, sid))

\* The proceeds of a foreign sale carry the FX basis of what was bought.
sold_at(st, ev, fx) ==
  add_fees(bucket_deposit(st, ev.ccy, Gross(ev) -- ev.fees, fx), ev.ccy, ev.fees, fx)

sold_tracked(tracked, ev) == sold_at(tracked, ev, tracked.foreign_sell_fx_basis[sid])

sell_in_currency(st, ev) ==
  IF ev.ccy = Base THEN sold_at(st, ev, One) ELSE sold_tracked(track_sell(st, ev, One), ev)

\* Mutant: every trade settles in its own currency.
cash_leg_in_currency(st, ev) ==
  IF ev.side = "buy" THEN buy_in_currency(st, ev) ELSE sell_in_currency(st, ev)

cash_leg(st, ev) ==
  IF settled_in_base(ev) THEN settle_in_base(st, ev)
  ELSE IF ev.side = "buy" THEN buy_in_currency(st, ev)
  ELSE sell_in_currency(st, ev)

\* The rate of the equity side: the trade's own, or what the cash leg found.
trade_fx(ev, paid) ==
  IF ev.rate # None THEN ev.rate
  ELSE Get(IF ev.side = "buy" THEN paid.buy_fx_basis ELSE paid.foreign_sell_fx_basis,
           sid, One)

equity_buy(ev, paid, fx) ==
  /\ ev.side = "buy"
  /\ state' = [paid EXCEPT !.instruments[ev.iid] =
                 open_lot(@, NewLot(sid, sid, ev.qty, ev.price, fx), sid)]
  /\ UNCHANGED <<closures, cycles>>

equity_sell(ev, paid, inst, lots) ==
  /\ ev.side = "sell"
  /\ state' = [paid EXCEPT !.instruments[ev.iid] = inst]
  /\ closures' = [closures EXCEPT ![ev.iid] = @ \o lots]
  /\ cycles' = [cycles EXCEPT ![ev.iid] = @ \o Cycles(state.instruments[ev.iid], inst)]

equity_leg(ev, paid, inst, fx, realize_fx) ==
  \/ equity_buy(ev, paid, fx)
  \/ equity_sell(ev, paid, close_qty(inst, ev.qty, ev.price, fx, realize_fx),
                 Closures(inst.fifo, ev.qty, ev.price, fx, realize_fx))

trade_legs(ev, paid) ==
  equity_leg(ev, paid, state.instruments[ev.iid], trade_fx(ev, paid),
             ev.rate # None \/ ev.ccy = Base)

apply_trade(ev) ==
  /\ ev.type = "TRADE"
  /\ Positive(ev.qty)
  /\ trade_legs(ev, cash_leg(state, ev))

(***************************************************************************)
(* CASHFLOW, DIVIDEND, TRANSFER_IN, FX_CONVERSION, and anything else       *)
(***************************************************************************)

NoSideStream == UNCHANGED <<closures, cycles>>

apply_cashflow(ev) ==
  /\ ev.type = "CASHFLOW"
  /\ \/ /\ ev.kind \notin {"WITHDRAWAL", "FEE"}
        /\ state' = bucket_deposit(state, ev.ccy, ev.amount, ev.fx)
     \/ /\ ev.kind = "WITHDRAWAL"
        /\ state' = drain(state, ev.ccy, ev.amount)
     \/ /\ ev.kind = "FEE"
        /\ state' = add_fees(drain(state, ev.ccy, ev.amount), ev.ccy, ev.amount, ev.fx)
  /\ NoSideStream

Net(ev) == ev.gross -- ev.withholding

Withheld(ev) == Greater(Zero, ev.withholding)

\* A dividend that pays nothing is ignored.
PaysNothing(ev) == ev.gross = Zero \/ ~Positive(Net(ev))

apply_dividend(ev) ==
  /\ ev.type = "DIVIDEND"
  /\ state' =
       IF PaysNothing(ev) THEN state
       ELSE IF settled_in_base(ev)
       THEN add_fees(bucket_deposit(state, Base, Net(ev) ** ev.rate, One),
                     Base, Withheld(ev) ** ev.rate, One)
       ELSE add_fees(bucket_deposit(state, ev.ccy, Net(ev), ev.fx),
                     ev.ccy, Withheld(ev), ev.fx)
  /\ NoSideStream

\* The lot is named after the transfer, which several lots may share, and
\* after its event only without one.
transfer_lot(ev) == IF ev.transfer_id = NoTransfer THEN sid ELSE ev.transfer_id

apply_transfer_in(ev) ==
  /\ ev.type = "TRANSFER_IN"
  /\ Positive(ev.qty)
  /\ state' = [state EXCEPT !.instruments[ev.iid] =
                 open_lot(@, NewLot(transfer_lot(ev), sid, ev.qty, ev.cost // ev.qty, ev.fx),
                          sid)]
  /\ NoSideStream

\* The lots and the loan pay for the conversion.
converted(ev, res) ==
  register_borrow(bucket_deposit(res.st, ev.to, ev.to_amt,
                                 (ev.from_amt ** ev.broker_fx) // ev.to_amt),
                  res, "convert", ev.from, sid, Zero, ev.broker_fx)

\* Then the fee is drained.
apply_fx_conversion(ev) ==
  /\ ev.type = "FX_CONVERSION"
  /\ state' =
       add_fees(drain(converted(ev, bucket_drain(state, ev.from, ev.from_amt, ev.broker_fx, sid)),
                      ev.fee_ccy, ev.fee),
                ev.fee_ccy, ev.fee, ev.broker_fx)
  /\ NoSideStream

\* An event of any other type, or without a quantity, is counted and ignored.
apply_nothing(ev) ==
  /\ \/ ev.type \notin {"TRADE", "CASHFLOW", "DIVIDEND", "TRANSFER_IN", "FX_CONVERSION"}
     \/ ev.type \in {"TRADE", "TRANSFER_IN"} /\ ~Positive(ev.qty)
  /\ UNCHANGED <<state, closures, cycles>>

accumulate(ev) ==
  /\ Len(log) < MaxEvents
  /\ log' = Append(log, ev)
  /\ \/ apply_trade(ev)
     \/ apply_cashflow(ev)
     \/ apply_dividend(ev)
     \/ apply_transfer_in(ev)
     \/ apply_fx_conversion(ev)
     \/ apply_nothing(ev)

Next == \E ev \in Event : accumulate(ev)

Spec == Init /\ [][Next]_vars

(***************************************************************************)
(* Correctness                                                             *)
(***************************************************************************)

Bucket(c) == state.currencies[c]

AllPositive(lots) == \A n \in DOMAIN lots : Positive(lots[n].qty)

\* Lots are positive; a bucket holds lots or borrows, never both, and its
\* balance is what they add up to; an instrument is held exactly while its
\* lots add up to the quantity of both accumulators.
TypeOK ==
  /\ \A c \in Currency :
       /\ AllPositive(Bucket(c).fifo_lots) /\ AllPositive(Bucket(c).borrow_lots)
       /\ Bucket(c).fifo_lots = <<>> \/ Bucket(c).borrow_lots = <<>>
       /\ Bucket(c).lot_qty = TotalQty(Bucket(c).fifo_lots)
                                -- TotalQty(Bucket(c).borrow_lots)
  /\ \A i \in Instrument : LET inst == state.instruments[i] IN
       /\ AllPositive(inst.fifo.lots)
       /\ inst.fifo.qty = TotalQty(inst.fifo.lots)
       /\ inst.fifo.long <=> Positive(inst.fifo.qty)
       /\ inst.avg.long <=> inst.fifo.long

LogTotal(Val(_)) == SumOf([n \in DOMAIN log |-> Val(n)])

Traded(ev) == ev.type = "TRADE" /\ Positive(ev.qty)

Trades(ev, side, i) == Traded(ev) /\ ev.iid = i /\ ev.side = side

Receives(ev, i) == ev.type = "TRANSFER_IN" /\ ev.iid = i /\ Positive(ev.qty)

Opens(ev, i) == Trades(ev, "buy", i) \/ Receives(ev, i)

\* A movement that is not positive is none (the early returns of
\* _bucket_deposit and _bucket_drain).
Moved(amount) == Greater(Zero, amount)

\* What an event pays into currency c, as its payload says,
PaidIn(ev, c) ==
  LET In(ccy, amount) == IF c = ccy THEN Moved(amount) ELSE Zero
  IN  CASE Traded(ev) /\ ev.side = "sell" ->
             IF settled_in_base(ev) THEN In(Base, (Gross(ev) -- ev.fees) ** ev.rate)
             ELSE In(ev.ccy, Gross(ev) -- ev.fees)
        [] ev.type = "CASHFLOW" /\ ev.kind \notin {"WITHDRAWAL", "FEE"} ->
             In(ev.ccy, ev.amount)
        [] ev.type = "DIVIDEND" /\ ~PaysNothing(ev) ->
             IF settled_in_base(ev) THEN In(Base, Net(ev) ** ev.rate) ELSE In(ev.ccy, Net(ev))
        [] ev.type = "FX_CONVERSION" -> In(ev.to, ev.to_amt)
        [] OTHER -> Zero

\* and out of it.
PaidOut(ev, c) ==
  LET Out(ccy, amount) == IF c = ccy THEN Moved(amount) ELSE Zero
  IN  CASE Traded(ev) /\ ev.side = "buy" ->
             IF settled_in_base(ev) THEN Out(Base, (Gross(ev) ++ ev.fees) ** ev.rate)
             ELSE Out(ev.ccy, Gross(ev) ++ ev.fees)
        [] ev.type = "CASHFLOW" /\ ev.kind \in {"WITHDRAWAL", "FEE"} -> Out(ev.ccy, ev.amount)
        [] ev.type = "FX_CONVERSION" -> Out(ev.from, ev.from_amt) ++ Out(ev.fee_ccy, ev.fee)
        [] OTHER -> Zero

\* Whatever the lots and borrows did, the balance of a currency is the sum of
\* what the events moved in it (_bucket_deposit, _bucket_drain).
BalanceIsNetCash ==
  \A c \in Currency :
    Bucket(c).lot_qty = LogTotal(LAMBDA n : PaidIn(log[n], c) -- PaidOut(log[n], c))

\* What is open of the loan id.
OpenQty(borrows, id) ==
  Total(borrows, LAMBDA b : IF b.borrow_id = id THEN b.qty ELSE Zero)

BorrowCovered(id) ==
  LET pb      == state.pending_borrows[id]
      borrows == Bucket(pb.from_ccy).borrow_lots
  IN  /\ pb.borrowed_qty -- pb.covered_qty = OpenQty(borrows, id)
      /\ pb.finalized <=> \A n \in DOMAIN borrows : borrows[n].borrow_id # id

\* Whether an event is a conversion with a fee in another currency: the numbers
\* of the two loans it may take come from two counters.
FeeElsewhere(ev) ==
  ev.type = "FX_CONVERSION" /\ Positive(ev.fee) /\ ev.fee_ccy # ev.from

\* Whether it is a conversion of a currency into itself: what it brings in covers
\* its own loan, which is not registered yet.
ConvertsNothing(ev) == ev.type = "FX_CONVERSION" /\ ev.from = ev.to

\* A registered borrow is open for exactly what the deposits have not covered
\* yet, and is settled when it is covered in full, neither earlier nor twice
\* (_on_cover, _finalize_borrow); except where FeeElsewhere can give another
\* loan its id, or ConvertsNothing has covered it before.
BorrowsCovered ==
  \A id \in DOMAIN state.pending_borrows :
    LET ev == log[id[1]] IN FeeElsewhere(ev) \/ ConvertsNothing(ev) \/ BorrowCovered(id)

\* The loan the event at n took, while it is open; there is at most one.
Loans(kind, n) ==
  {id \in DOMAIN state.pending_borrows :
     LET pb == state.pending_borrows[id]
     IN  pb.consumer = n /\ pb.consumer_kind = kind /\ ~pb.finalized}

Loan(kind, n) == state.pending_borrows[CHOOSE id \in Loans(kind, n) : TRUE]

LoanTotal(kind, Val(_)) ==
  LogTotal(LAMBDA n : IF Loans(kind, n) = {} THEN Zero ELSE Val(Loan(kind, n)))

\* The fee the payload of an event carries in currency c.
Fee(ev, c) ==
  LET In(ccy, amount) == IF c = ccy THEN amount ELSE Zero
  IN  CASE Traded(ev) ->
             IF settled_in_base(ev) THEN In(Base, ev.fees ** ev.rate) ELSE In(ev.ccy, ev.fees)
        [] ev.type = "CASHFLOW" -> IF ev.kind = "FEE" THEN In(ev.ccy, ev.amount) ELSE Zero
        [] ev.type = "DIVIDEND" /\ ~PaysNothing(ev) ->
             IF settled_in_base(ev) THEN In(Base, Withheld(ev) ** ev.rate)
             ELSE In(ev.ccy, Withheld(ev))
        [] ev.type = "FX_CONVERSION" -> In(ev.fee_ccy, ev.fee)
        [] OTHER -> Zero

\* Every fee is booked once: at once, or, for a purchase on margin, when the
\* loan is covered (fold_kernel.sql: "fees recognised on cover").
FeesBookedOnce ==
  \A c \in Currency :
    Bucket(c).fees_native =
      LogTotal(LAMBDA n : Fee(log[n], c))
        -- LoanTotal("buy", LAMBDA pb : IF pb.from_ccy = c THEN pb.fee_native ELSE Zero)

\* Whether an event is a conversion that moves money between two currencies.
Exchanges(ev) ==
  /\ ev.type = "FX_CONVERSION" /\ ev.from # ev.to
  /\ Positive(ev.from_amt) /\ Positive(ev.to_amt)

\* Cash spent on something that has no FX basis of its own.
SpendsBasis(ev) ==
  CASE ev.type = "CASHFLOW"      -> ev.kind \in {"WITHDRAWAL", "FEE"}
    [] Traded(ev)                -> ev.side = "buy" /\ (settled_in_base(ev) \/ ev.ccy = Base)
    [] ev.type = "FX_CONVERSION" -> Positive(ev.fee) \/ ~Exchanges(ev)
    [] OTHER                     -> FALSE

\* The base value at which an event brings cash in from outside.
ValueIn(n) ==
  LET ev == log[n] IN
  CASE ev.type = "CASHFLOW" -> Moved(ev.amount) ** ev.fx
    [] ev.type = "DIVIDEND" /\ ~PaysNothing(ev) ->
         IF settled_in_base(ev) THEN Moved(Net(ev) ** ev.rate) ELSE Net(ev) ** ev.fx
    [] Traded(ev) /\ ev.side = "sell" ->
         IF settled_in_base(ev) THEN Moved((Gross(ev) -- ev.fees) ** ev.rate)
         ELSE Moved(Gross(ev) -- ev.fees) ** Get(state.foreign_sell_fx_basis, n, One)
    [] OTHER -> Zero

\* The base value that has been paid for the purchase at n so far.
ValueOut(n) ==
  LET ev == log[n]
      Paid(pb) == pb.weighted ++ (IF pb.lot_backed_basis = None THEN Zero
                                  ELSE pb.lot_backed_qty ** pb.lot_backed_basis)
  IN  IF ~(Traded(ev) /\ ev.side = "buy") THEN Zero
      ELSE IF Loans("buy", n) # {} THEN Paid(Loan("buy", n))
      ELSE Moved(Gross(ev) ++ ev.fees) ** state.buy_fx_basis[n]

OverCurrencies(Val(_)) == Total(SetToSeq(Currency), Val)

\* No base value appears or disappears: what came in is in the lots, in the FX
\* basis of what was bought, or has been realised as FX gain, through every
\* borrow, late cover and conversion (_bucket_drain, _finalize_borrow).
ValueConserved ==
  (\A n \in DOMAIN log : ~SpendsBasis(log[n])) =>
    LogTotal(ValueIn) ++ OverCurrencies(LAMBDA c : Bucket(c).gain_fifo)
      ++ LoanTotal("convert", LAMBDA pb :
           (pb.borrowed_qty ** pb.from_broker_fx) -- pb.weighted)
    = OverCurrencies(LAMBDA c : Value(Bucket(c).fifo_lots)) ++ LogTotal(ValueOut)

\* Cash of currency c spent on anything but a conversion.
SpendsCash(ev, c) ==
  CASE ev.type = "CASHFLOW"      -> ev.kind \in {"WITHDRAWAL", "FEE"} /\ ev.ccy = c
    [] Traded(ev)                -> ev.side = "buy" /\ c = IF settled_in_base(ev) THEN Base ELSE ev.ccy
    [] ev.type = "FX_CONVERSION" -> Positive(ev.fee) /\ ev.fee_ccy = c
    [] OTHER                     -> FALSE

\* The FX gain of a currency that is only converted does not depend on the
\* method, but for the cost of the cash that is left (_bucket_drain).
FxMethodsAgree ==
  \A c \in Currency :
    (\A n \in DOMAIN log : ~SpendsCash(log[n], c)) =>
      Bucket(c).gain_fifo -- Value(Bucket(c).fifo_lots)
        = Bucket(c).gain_avg -- (Greater(Zero, Bucket(c).lot_qty) ** Bucket(c).avg_fx)

\* What an event makes of a holding of i: a sale closes at most what is held,
\* and an option event, which has no handler, nothing (see ExpiryCloses).
HeldAfter(held, ev, i) ==
  IF Opens(ev, i) THEN held ++ ev.qty
  ELSE IF Trades(ev, "sell", i) THEN Greater(Zero, held -- ev.qty)
  ELSE held

\* The holding of i after the first 0, 1, 2, ... of the events.
HeldIn(events, i) ==
  LET held[n \in 0..Len(events)] ==
        IF n = 0 THEN Zero ELSE HeldAfter(held[n - 1], events[n], i)
  IN  held

Held(i) == HeldIn(log, i)

OversoldAt(i, n) == Trades(log[n], "sell", i) /\ Held(i)[n - 1] \prec log[n].qty

NeverOversold(i) == \A n \in DOMAIN log : ~OversoldAt(i, n)

\* What an event brought in by selling i, of which so much was held, less what
\* it cost.
Result(ev, i, held) ==
  CASE Trades(ev, "buy", i)  -> Zero -- Gross(ev)
    [] Trades(ev, "sell", i) -> Lesser(held, ev.qty) ** ev.price
    [] Receives(ev, i)       -> Zero -- ev.cost
    [] OTHER                 -> Zero

\* Both accumulators hold what the events left, and the realised profit is
\* what the sales brought in less what the lots that are gone had cost, also
\* when more is sold than held (_fifo_close).
CostConserved ==
  \A i \in Instrument :
    LET inst == state.instruments[i]
    IN  /\ inst.fifo.qty = Held(i)[Len(log)]
        /\ inst.avg.qty = Held(i)[Len(log)]
        /\ inst.fifo.gross_native =
             LogTotal(LAMBDA n : Result(log[n], i, Held(i)[n - 1]))
               ++ Total(inst.fifo.lots, LAMBDA lot : lot.qty ** lot.price)

\* Whether every sale of i is valued at an FX rate of its own.
AlwaysRealisesFx(i) ==
  \A n \in DOMAIN log :
    Trades(log[n], "sell", i) => log[n].rate # None \/ log[n].ccy = Base

\* The two methods differ only in what the open position costs: realised
\* profit plus open cost agree, unless more was sold than held, in native
\* currency, and in base when every sale realises FX (_fifo_close, _avg_close).
CostMethodsAgree ==
  \A i \in Instrument : NeverOversold(i) =>
    LET fifo == state.instruments[i].fifo
        avg  == state.instruments[i].avg
    IN  /\ fifo.gross_native -- Total(fifo.lots, LAMBDA lot : lot.qty ** lot.price)
             = avg.gross_native -- (avg.qty ** avg.native)
        /\ AlwaysRealisesFx(i) =>
             fifo.gross_base -- Total(fifo.lots, LAMBDA lot : lot.qty ** (lot.price ** lot.fx))
               = avg.gross_base -- (avg.qty ** avg.base)

\* FIFO and average cost agree on cash and on holdings, where they should.
MethodsAgree == FxMethodsAgree /\ CostMethodsAgree

\* The cycles emitted so far and the open one account for all the realised
\* profit, and the open one began when the holding last left zero.
CyclesAccount ==
  \A i \in Instrument :
    LET inst == state.instruments[i] IN
    /\ inst.fifo.gross_base = inst.cycle_pnl ++ Total(cycles[i], LAMBDA e : e.pnl_base)
    /\ \A n \in DOMAIN cycles[i] : cycles[i][n].cycle_seq = n - 1
    /\ inst.cycle_count = Len(cycles[i])
    /\ IF inst.cycle_open = NoEvent THEN Held(i)[Len(log)] = Zero
       ELSE /\ Held(i)[inst.cycle_open - 1] = Zero
            /\ \A n \in inst.cycle_open..Len(log) : Positive(Held(i)[n])

\* The quantity that is closed, and left, of the lots with this key.
ClosedBy(key, i, k) == Total(closures[i], LAMBDA e : IF e[key] = k THEN e.qty ELSE Zero)
LeftBy(key, i, k) ==
  Total(state.instruments[i].fifo.lots, LAMBDA l : IF l[key] = k THEN l.qty ELSE Zero)

\* The id of the lot that the event ev, the n-th, opens, and what all the events
\* that give their lots this id have opened.
LotId(ev, n) ==
  IF ev.type = "TRANSFER_IN" /\ ev.transfer_id # NoTransfer THEN ev.transfer_id ELSE n

OpenedAs(i, id) ==
  LogTotal(LAMBDA n : IF Opens(log[n], i) /\ LotId(log[n], n) = id THEN log[n].qty ELSE Zero)

\* Every lot is closed for what it lacks, never before an older one is gone,
\* the lots of one transfer for what they lack together under the id they share,
\* and the closures add up to the realised profit (_fifo_close).
ClosuresFirstInFirstOut ==
  \A i \in Instrument :
    /\ \A n \in DOMAIN log : Opens(log[n], i) =>
         /\ ClosedBy("entry", i, n) ++ LeftBy("entry", i, n) = log[n].qty
         /\ Positive(LeftBy("entry", i, n)) =>
              \A m \in n + 1..Len(log) : ClosedBy("entry", i, m) = Zero
         /\ LET id == LotId(log[n], n) IN
              ClosedBy("lot_id", i, id) ++ LeftBy("lot_id", i, id) = OpenedAs(i, id)
    /\ state.instruments[i].fifo.gross_base =
         Total(closures[i], LAMBDA e : e.realized_pnl_base)

\* Cycles and closures are two partitions of the realised profit.
ProfitIsAccounted == CyclesAccount /\ ClosuresFirstInFirstOut

\* The tracker that gives a foreign sale its FX basis holds the quantity of
\* the lots, and the basis of each (_tracker_buy, _tracker_sell).  Lots that
\* were transferred in are not tracked.
TrackerFollowsLots ==
  \A i \in Instrument :
    (\A n \in DOMAIN log :
       /\ ~Receives(log[n], i)
       /\ ~(Traded(log[n]) /\ log[n].iid = i /\ log[n].ccy = Base)) =>
      LET tracker == state.open_lots_fx_tracker[i]
      IN  /\ TotalQty(tracker) = state.instruments[i].fifo.qty
          /\ \A n \in DOMAIN tracker : tracker[n].trade_id \in DOMAIN state.buy_fx_basis

(***************************************************************************)
(* Claims of the source that the code does not keep                        *)
(***************************************************************************)

\* fold_kernel.sql:8: "PendingBorrow registry for margin loans": an entry is
\* settled by the deposits that cover its own loan.
EveryBorrowCovered == \A id \in DOMAIN state.pending_borrows : BorrowCovered(id)

\* schemas/portfolio_events.payload.md:168, of TRANSFER_IN: "`source_id` =
\* `lot_id`": what is closed and left under the id of an event is its lot.
LotsAreEvents ==
  \A i \in Instrument : \A n \in DOMAIN log :
    Opens(log[n], i) => ClosedBy("lot_id", i, n) ++ LeftBy("lot_id", i, n) = log[n].qty

\* schemas/portfolio_events.payload.md:153, of OPTION_EXPIRY: "The kernel closes
\* the open lot at price 0": nothing is held after the last event was one.
ExpiryCloses ==
  \A i \in Instrument :
    log # <<>> /\ Last(log).type = "OPTION_EXPIRY" /\ Last(log).iid = i =>
      state.instruments[i].fifo.qty = Zero

=============================================================================
