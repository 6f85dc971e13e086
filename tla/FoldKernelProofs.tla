-------------------------- MODULE FoldKernelProofs --------------------------
(***************************************************************************)
(* Proofs about FoldKernel for any currencies, instruments, events and     *)
(* length of the log.                                                      *)
(***************************************************************************)
EXTENDS FoldLemmas

(***************************************************************************)
(* What an event does to the cash                                          *)
(***************************************************************************)

CashMoves(st, s, ev) ==
  \A c \in Currency :
    s.currencies[c].lot_qty = st.currencies[c].lot_qty ++ (PaidIn(ev, c) -- PaidOut(ev, c))

GapsUnlessSpent(st, s, ev) ==
  \A c \in Currency : SpendsCash(ev, c) \/ FxGap(s.currencies[c]) = FxGap(st.currencies[c])

\* The cash side of an event.
CashStep(st, s, ev) == CashMoves(st, s, ev) /\ GapsUnlessSpent(st, s, ev)

LEMMA CashStepIn ==
  ASSUME NEW st, NEW s, NEW ev, NEW ccy, NEW qty \in Rat, MovedBy(st, s, ccy, qty),
         GapsKept(st, s),
         \A c \in Currency : /\ PaidIn(ev, c) = IF c = ccy THEN qty ELSE Zero
                             /\ PaidOut(ev, c) = Zero
  PROVE  CashStep(st, s, ev)
<1>1. \A c \in Currency : PaidIn(ev, c) -- PaidOut(ev, c) = IF c = ccy THEN qty ELSE Zero
  BY AddZero, ZeroType
<1> QED
  BY <1>1 DEF CashStep, CashMoves, GapsUnlessSpent, MovedBy, GapsKept

LEMMA CashStepOut ==
  ASSUME NEW st, NEW s, NEW ev, NEW ccy, NEW qty \in Rat, MovedBy(st, s, ccy, Zero -- qty),
         \A c \in Currency : /\ PaidOut(ev, c) = IF c = ccy THEN qty ELSE Zero
                             /\ PaidIn(ev, c) = Zero,
         GapsUnlessSpent(st, s, ev)
  PROVE  CashStep(st, s, ev)
<1>1. \A c \in Currency :
        PaidIn(ev, c) -- PaidOut(ev, c) = IF c = ccy THEN Zero -- qty ELSE Zero
  BY AddZero, ZeroType
<1> QED
  BY <1>1 DEF CashStep, CashMoves, MovedBy

\* An event that moves no cash.
LEMMA CashStepNone ==
  ASSUME NEW st, CashSound(st), NEW s, NEW ev, s.currencies = st.currencies,
         \A c \in Currency : PaidIn(ev, c) = Zero /\ PaidOut(ev, c) = Zero
  PROVE  CashStep(st, s, ev)
<1>1. \A c \in Currency : st.currencies[c].lot_qty \in Rat
  BY StateFields, BucketFields DEF CashSound
<1>2. Zero -- Zero = Zero
  BY AddZero, ZeroType
<1> QED
  BY <1>1, <1>2, AddZero DEF CashStep, CashMoves, GapsUnlessSpent

(***************************************************************************)
(* Cash flows and dividends                                                *)
(***************************************************************************)

LEMMA CashflowPays ==
  ASSUME NEW ev, ev.type = "CASHFLOW", NEW c
  PROVE  /\ ev.kind \notin {"WITHDRAWAL", "FEE"} =>
              /\ PaidIn(ev, c) = IF c = ev.ccy THEN Moved(ev.amount) ELSE Zero
              /\ PaidOut(ev, c) = Zero
         /\ ev.kind \in {"WITHDRAWAL", "FEE"} =>
              /\ PaidOut(ev, c) = IF c = ev.ccy THEN Moved(ev.amount) ELSE Zero
              /\ PaidIn(ev, c) = Zero
              /\ SpendsCash(ev, c) <=> c = ev.ccy
BY DEF PaidIn, PaidOut, SpendsCash, Traded

\* Cash that is paid out of ccy.
LEMMA Paid ==
  ASSUME NEW st, CashSound(st), NEW ccy \in Currency, NEW amount \in Rat, sid \in Nat
  PROVE  /\ CashKeeps(st, drain(st, ccy, amount))
         /\ MovedBy(st, drain(st, ccy, amount), ccy, Zero -- Moved(amount))
         /\ GapsIn(st, drain(st, ccy, amount), Currency \ {ccy})
         /\ ~Positive(amount) => drain(st, ccy, amount) = st
<1> DEFINE res == bucket_drain(st, ccy, amount, None, sid)
<1>1. DrainWell(st, ccy, amount, None, res)
  BY Drained
<1>2. drain(st, ccy, amount) = res.st
  BY DEF drain
<1>3. ~Positive(amount) => res.st = st
  BY DEF bucket_drain
<1> HIDE DEF res
<1> QED
  BY <1>1, <1>2, <1>3 DEF DrainWell, GapsIn

CashflowTo(st, ev) ==
  IF ev.kind = "WITHDRAWAL" THEN drain(st, ev.ccy, ev.amount)
  ELSE IF ev.kind = "FEE"
  THEN add_fees(drain(st, ev.ccy, ev.amount), ev.ccy, ev.amount, ev.fx)
  ELSE bucket_deposit(st, ev.ccy, ev.amount, ev.fx)

LEMMA Cashflow ==
  ASSUME NEW st, CashSound(st), NEW ev, ev.type = "CASHFLOW", EventOK(ev), sid \in Nat
  PROVE  CashKeeps(st, CashflowTo(st, ev)) /\ CashStep(st, CashflowTo(st, ev), ev)
<1> DEFINE s == CashflowTo(st, ev)
           d == drain(st, ev.ccy, ev.amount)
<1>1. ev.ccy \in Currency /\ ev.amount \in Rat /\ ev.fx \in Rat
  BY DEF EventOK
<1>2. Moved(ev.amount) \in Rat
  BY <1>1, MovedType
<1>3. CASE ev.kind \notin {"WITHDRAWAL", "FEE"}
  <2>1. s = bucket_deposit(st, ev.ccy, ev.amount, ev.fx)
    BY <1>3 DEF CashflowTo
  <2>2. CashKeeps(st, s) /\ GapsKept(st, s) /\ MovedBy(st, s, ev.ccy, Moved(ev.amount))
    BY <1>1, <2>1, Deposited
  <2> HIDE DEF s
  <2>3. CashStep(st, s, ev)
    BY <1>2, <1>3, <2>2, CashflowPays, CashStepIn
  <2> QED
    BY <2>2, <2>3 DEF s
<1>4. ASSUME ev.kind \in {"WITHDRAWAL", "FEE"}, NEW u, CashKeeps(st, u),
             MovedBy(st, u, ev.ccy, Zero -- Moved(ev.amount)),
             GapsIn(st, u, Currency \ {ev.ccy})
      PROVE  CashStep(st, u, ev)
  <2>1. GapsUnlessSpent(st, u, ev)
    BY <1>4, CashflowPays DEF GapsUnlessSpent, GapsIn
  <2> QED
    BY <1>2, <1>4, <2>1, CashflowPays, CashStepOut
<1>5. /\ CashKeeps(st, d) /\ MovedBy(st, d, ev.ccy, Zero -- Moved(ev.amount))
      /\ GapsIn(st, d, Currency \ {ev.ccy})
  BY <1>1, Paid
<1>6. CASE ev.kind = "WITHDRAWAL"
  <2>1. s = d
    BY <1>6 DEF CashflowTo
  <2> HIDE DEF s, d
  <2>2. CashKeeps(st, s) /\ CashStep(st, s, ev)
    BY <1>4, <1>5, <1>6, <2>1
  <2> QED
    BY <2>2 DEF s
<1>7. CASE ev.kind = "FEE"
  <2>1. s = add_fees(d, ev.ccy, ev.amount, ev.fx)
    BY <1>7 DEF CashflowTo
  <2> HIDE DEF s, d
  <2>2. CashSound(d)
    BY <1>5 DEF CashKeeps
  <2>3. CashKeeps(d, s) /\ GapsKept(d, s) /\ MovedBy(d, s, ev.ccy, Zero)
    BY <1>1, <2>1, <2>2, AddFees
  <2>4. CashKeeps(st, s)
    BY <1>5, <2>3, CashKeepsTrans
  <2>5. MovedBy(st, s, ev.ccy, Zero -- Moved(ev.amount))
    BY <1>1, <1>5, <2>3, MovedType, MovedZero
  <2>6. GapsIn(st, s, Currency \ {ev.ccy})
    BY <1>5, <2>3 DEF GapsIn, GapsKept
  <2>7. CashStep(st, s, ev)
    BY <1>4, <1>7, <2>4, <2>5, <2>6
  <2> QED
    BY <2>4, <2>7 DEF s
<1> QED
  BY <1>3, <1>6, <1>7

DividendTo(st, ev) ==
  IF PaysNothing(ev) THEN st
  ELSE IF settled_in_base(ev)
  THEN add_fees(bucket_deposit(st, Base, Net(ev) ** ev.rate, One),
                Base, Withheld(ev) ** ev.rate, One)
  ELSE add_fees(bucket_deposit(st, ev.ccy, Net(ev), ev.fx), ev.ccy, Withheld(ev), ev.fx)

LEMMA DividendPays ==
  ASSUME NEW ev, ev.type = "DIVIDEND", NEW c
  PROVE  /\ PaidOut(ev, c) = Zero
         /\ PaysNothing(ev) => PaidIn(ev, c) = Zero
         /\ ~PaysNothing(ev) /\ settled_in_base(ev) =>
              PaidIn(ev, c) = IF c = Base THEN Moved(Net(ev) ** ev.rate) ELSE Zero
         /\ ~PaysNothing(ev) /\ ~settled_in_base(ev) =>
              PaidIn(ev, c) = IF c = ev.ccy THEN Moved(Net(ev)) ELSE Zero
BY DEF PaidIn, PaidOut, Traded

\* A deposit with the fees that go with it.
LEMMA DepositAndFees ==
  ASSUME NEW st, CashSound(st), NEW ccy \in Currency, NEW qty \in Rat, NEW fx \in Rat,
         NEW fee \in Rat, NEW s, s = add_fees(bucket_deposit(st, ccy, qty, fx), ccy, fee, fx)
  PROVE  CashKeeps(st, s) /\ GapsKept(st, s) /\ MovedBy(st, s, ccy, Moved(qty))
<1> DEFINE d == bucket_deposit(st, ccy, qty, fx)
<1>1. CashKeeps(st, d) /\ GapsKept(st, d) /\ MovedBy(st, d, ccy, Moved(qty))
  BY Deposited
<1>2. s = add_fees(d, ccy, fee, fx)
  OBVIOUS
<1> HIDE DEF d
<1>3. CashSound(d)
  BY <1>1 DEF CashKeeps
<1>4. CashKeeps(d, s) /\ GapsKept(d, s) /\ MovedBy(d, s, ccy, Zero)
  BY <1>2, <1>3, AddFees
<1> QED
  BY <1>1, <1>4, MovedType, MovedZero, CashKeepsTrans, GapsKeptTrans

LEMMA Dividend ==
  ASSUME NEW st, CashSound(st), NEW ev, ev.type = "DIVIDEND", EventOK(ev)
  PROVE  CashKeeps(st, DividendTo(st, ev)) /\ CashStep(st, DividendTo(st, ev), ev)
<1> DEFINE s == DividendTo(st, ev)
<1>1. /\ ev.ccy \in Currency /\ ev.gross \in Rat /\ ev.withholding \in Rat
      /\ ev.fx \in Rat /\ (ev.rate = None \/ ev.rate \in Rat)
  BY DEF EventOK
<1>2. Net(ev) \in Rat /\ Withheld(ev) \in Rat
  BY <1>1, AddType, MinMax, ZeroType DEF Net, Withheld
<1>3. CASE PaysNothing(ev)
  <2>1. s = st
    BY <1>3 DEF DividendTo
  <2>2. CashStep(st, st, ev)
    BY <1>3, DividendPays, CashStepNone
  <2> QED
    BY <2>1, <2>2, CashKeepsSelf
<1>4. CASE ~PaysNothing(ev) /\ settled_in_base(ev)
  <2> DEFINE qty == Net(ev) ** ev.rate
             fee == Withheld(ev) ** ev.rate
  <2>1. qty \in Rat /\ fee \in Rat /\ Base \in Currency
    BY <1>1, <1>2, <1>4, MulType, BaseAssumption DEF settled_in_base
  <2>2. s = add_fees(bucket_deposit(st, Base, qty, One), Base, fee, One)
    BY <1>4 DEF DividendTo
  <2>3. \A c \in Currency : /\ PaidIn(ev, c) = IF c = Base THEN Moved(qty) ELSE Zero
                            /\ PaidOut(ev, c) = Zero
    BY <1>4, DividendPays
  <2> HIDE DEF qty, fee, s
  <2>4. CashKeeps(st, s) /\ GapsKept(st, s) /\ MovedBy(st, s, Base, Moved(qty))
    BY <2>1, <2>2, OneRatio, DepositAndFees
  <2>5. CashStep(st, s, ev)
    BY <2>1, <2>3, <2>4, MovedType, CashStepIn
  <2> QED
    BY <2>4, <2>5 DEF s
<1>5. CASE ~PaysNothing(ev) /\ ~settled_in_base(ev)
  <2> DEFINE qty == Net(ev)
             fee == Withheld(ev)
  <2>2. s = add_fees(bucket_deposit(st, ev.ccy, qty, ev.fx), ev.ccy, fee, ev.fx)
    BY <1>5 DEF DividendTo
  <2>3. \A c \in Currency : /\ PaidIn(ev, c) = IF c = ev.ccy THEN Moved(qty) ELSE Zero
                            /\ PaidOut(ev, c) = Zero
    BY <1>5, DividendPays
  <2>1. qty \in Rat /\ fee \in Rat
    BY <1>2
  <2> HIDE DEF qty, fee, s
  <2>4. CashKeeps(st, s) /\ GapsKept(st, s) /\ MovedBy(st, s, ev.ccy, Moved(qty))
    BY <1>1, <2>1, <2>2, DepositAndFees
  <2>5. CashStep(st, s, ev)
    BY <2>1, <2>3, <2>4, MovedType, CashStepIn
  <2> QED
    BY <2>4, <2>5 DEF s
<1> QED
  BY <1>3, <1>4, <1>5

(***************************************************************************)
(* Conversions                                                             *)
(***************************************************************************)

ConversionTo(st, ev) ==
  add_fees(drain(converted(ev, bucket_drain(st, ev.from, ev.from_amt, ev.broker_fx, sid)),
                 ev.fee_ccy, ev.fee),
           ev.fee_ccy, ev.fee, ev.broker_fx)

\* A deposit of any amount at the rate that a conversion has.
LEMMA DepositAtRate ==
  ASSUME NEW st, CashSound(st), NEW ccy \in Currency, NEW qty \in Rat, NEW value \in Rat
  PROVE  /\ CashKeeps(st, bucket_deposit(st, ccy, qty, value // qty))
         /\ GapsKept(st, bucket_deposit(st, ccy, qty, value // qty))
         /\ MovedBy(st, bucket_deposit(st, ccy, qty, value // qty), ccy, Moved(qty))
<1>1. CASE Positive(qty)
  <2>1. value // qty \in Rat
    BY <1>1, DivType
  <2> QED
    BY <2>1, Deposited
<1>2. CASE ~Positive(qty)
  <2>1. bucket_deposit(st, ccy, qty, value // qty) = st
    BY <1>2 DEF bucket_deposit
  <2>2. Moved(qty) = Zero
    BY <1>2 DEF Moved, Greater, Positive
  <2> QED
    BY <2>1, <2>2, CashKeepsSelf
<1> QED
  BY <1>1, <1>2

LEMMA ThreeMoves ==
  ASSUME NEW a \in Rat, NEW f \in Rat, NEW t \in Rat, NEW e \in Rat
  PROVE  ((a ++ (Zero -- f)) ++ t) ++ (Zero -- e) = a ++ (t -- (f ++ e))
<1>1. PICK d \in Pos, x \in Int, y \in Int, z \in Int, u \in Int :
        /\ a = Reduced(x, d) /\ f = Reduced(y, d)
        /\ t = Reduced(z, d) /\ e = Reduced(u, d)
  <2>1. HaveCommon(a, f, t, e)
    BY Common4
  <2> QED
    BY <2>1 DEF HaveCommon
<1>2. /\ 0 \in Int /\ 0 - y \in Int /\ 0 - u \in Int /\ x + (0 - y) \in Int
      /\ (x + (0 - y)) + z \in Int /\ y + u \in Int /\ z - (y + u) \in Int
      /\ ((x + (0 - y)) + z) + (0 - u) = x + (z - (y + u))
  OBVIOUS
<1>3. Zero = Reduced(0, d)
  BY ZeroRatio
<1>4. Zero -- f = Reduced(0 - y, d) /\ Zero -- e = Reduced(0 - u, d) /\ f ++ e = Reduced(y + u, d)
  BY <1>1, <1>2, <1>3, RatioAdd
<1>5. a ++ (Zero -- f) = Reduced(x + (0 - y), d) /\ t -- (f ++ e) = Reduced(z - (y + u), d)
  BY <1>1, <1>2, <1>4, RatioAdd
<1>6. (a ++ (Zero -- f)) ++ t = Reduced((x + (0 - y)) + z, d)
  BY <1>1, <1>2, <1>5, RatioAdd
<1>7. /\ ((a ++ (Zero -- f)) ++ t) ++ (Zero -- e) = Reduced(((x + (0 - y)) + z) + (0 - u), d)
      /\ a ++ (t -- (f ++ e)) = Reduced(x + (z - (y + u)), d)
  BY <1>1, <1>2, <1>4, <1>5, <1>6, RatioAdd
<1> QED
  BY <1>2, <1>7

LEMMA ConversionPays ==
  ASSUME NEW ev, ev.type = "FX_CONVERSION", NEW c
  PROVE  /\ PaidIn(ev, c) = IF c = ev.to THEN Moved(ev.to_amt) ELSE Zero
         /\ PaidOut(ev, c) = (IF c = ev.from THEN Moved(ev.from_amt) ELSE Zero)
                               ++ (IF c = ev.fee_ccy THEN Moved(ev.fee) ELSE Zero)
         /\ SpendsCash(ev, c) <=> Positive(ev.fee) /\ ev.fee_ccy = c
BY DEF PaidIn, PaidOut, SpendsCash, Traded

LEMMA Conversion ==
  ASSUME NEW st, CashSound(st), NEW ev, ev.type = "FX_CONVERSION", EventOK(ev), sid \in Nat
  PROVE  CashKeeps(st, ConversionTo(st, ev)) /\ CashStep(st, ConversionTo(st, ev), ev)
<1> DEFINE res == bucket_drain(st, ev.from, ev.from_amt, ev.broker_fx, sid)
           s1 == res.st
           s2 == bucket_deposit(s1, ev.to, ev.to_amt, (ev.from_amt ** ev.broker_fx) // ev.to_amt)
           s3 == register_borrow(s2, res, "convert", ev.from, sid, Zero, ev.broker_fx)
           s4 == drain(s3, ev.fee_ccy, ev.fee)
           s5 == add_fees(s4, ev.fee_ccy, ev.fee, ev.broker_fx)
<1>1. /\ ev.from \in Currency /\ ev.to \in Currency /\ ev.fee_ccy \in Currency
      /\ ev.from_amt \in Rat /\ ev.to_amt \in Rat /\ ev.fee \in Rat
      /\ ev.broker_fx \in Rat
  BY DEF EventOK
<1>2. ev.broker_fx # None /\ ev.from_amt ** ev.broker_fx \in Rat
  BY <1>1, NoneNotRat, MulType
<1>3. DrainWell(st, ev.from, ev.from_amt, ev.broker_fx, res)
  BY <1>1, Drained
<1>4. ConversionTo(st, ev) = s5
  BY DEF ConversionTo, converted
<1> HIDE DEF res
<1>5. /\ CashKeeps(st, s1) /\ GapsKept(st, s1) /\ ResultOK(res) /\ CashSound(s1)
      /\ MovedBy(st, s1, ev.from, Zero -- Moved(ev.from_amt))
  BY <1>2, <1>3 DEF DrainWell, GapsKept, ResultOK, CashKeeps
<1> HIDE DEF s1
<1>6. /\ CashKeeps(s1, s2) /\ GapsKept(s1, s2) /\ MovedBy(s1, s2, ev.to, Moved(ev.to_amt))
      /\ CashSound(s2)
  BY <1>1, <1>2, <1>5, DepositAtRate DEF CashKeeps
<1> HIDE DEF s2
<1>7a. CashKeeps(s2, s3) /\ s3.currencies = s2.currencies
  <2>1. "convert" \in {"buy", "convert"}
    OBVIOUS
  <2> QED
    BY <1>1, <1>5, <1>6, <2>1, ZeroType, Registered
<1> HIDE DEF s3
<1>7. CashKeeps(s2, s3) /\ s3.currencies = s2.currencies /\ CashSound(s3)
  BY <1>7a DEF CashKeeps
<1>8. /\ CashKeeps(s3, s4) /\ MovedBy(s3, s4, ev.fee_ccy, Zero -- Moved(ev.fee))
      /\ GapsIn(s3, s4, Currency \ {ev.fee_ccy}) /\ CashSound(s4)
      /\ ~Positive(ev.fee) => s4 = s3
  BY <1>1, <1>7, Paid DEF CashKeeps
<1> HIDE DEF s4
<1>9. /\ CashKeeps(s4, s5) /\ GapsKept(s4, s5) /\ MovedBy(s4, s5, ev.fee_ccy, Zero)
  BY <1>1, <1>8, AddFees
<1> HIDE DEF s5
<1>10. CashKeeps(st, s5)
  BY <1>5, <1>6, <1>7, <1>8, <1>9, CashKeepsTrans
<1>11. GapsUnlessSpent(st, s5, ev)
  <2> SUFFICES ASSUME NEW c \in Currency, ~SpendsCash(ev, c)
               PROVE  FxGap(s5.currencies[c]) = FxGap(st.currencies[c])
    BY DEF GapsUnlessSpent
  <2>1. ~Positive(ev.fee) \/ c # ev.fee_ccy
    BY ConversionPays
  <2>2. FxGap(s4.currencies[c]) = FxGap(s3.currencies[c])
    BY <1>8, <2>1 DEF GapsIn
  <2> QED
    BY <1>5, <1>6, <1>7, <1>9, <2>2 DEF GapsKept
<1>12. CashMoves(st, s5, ev)
  <2> SUFFICES ASSUME NEW c \in Currency
               PROVE  s5.currencies[c].lot_qty
                        = st.currencies[c].lot_qty ++ (PaidIn(ev, c) -- PaidOut(ev, c))
    BY DEF CashMoves
  <2> DEFINE a == st.currencies[c].lot_qty
             f == IF c = ev.from THEN Moved(ev.from_amt) ELSE Zero
             t == IF c = ev.to THEN Moved(ev.to_amt) ELSE Zero
             e == IF c = ev.fee_ccy THEN Moved(ev.fee) ELSE Zero
             b == a ++ (Zero -- f)
             d == b ++ t
             g == d ++ (Zero -- e)
  <2>1. a \in Rat
    BY StateFields, BucketFields DEF CashSound
  <2>2. f \in Rat /\ t \in Rat /\ e \in Rat
    BY <1>1, MovedType, ZeroType
  <2>3. b \in Rat /\ d \in Rat /\ g \in Rat
    <3> HIDE DEF a, f, t, e
    <3> QED
      BY <2>1, <2>2, AddType, ZeroType
  <2>4. Zero -- Zero = Zero
    BY AddZero, ZeroType
  <2>5. s1.currencies[c].lot_qty = b
    BY <1>5, <2>4 DEF MovedBy
  <2>6. s2.currencies[c].lot_qty = d
    BY <1>6, <2>5 DEF MovedBy
  <2>7. s4.currencies[c].lot_qty = g
    BY <1>7, <1>8, <2>4, <2>6 DEF MovedBy
  <2>8. s5.currencies[c].lot_qty = g ++ Zero
    BY <1>9, <2>7 DEF MovedBy
  <2>9. s5.currencies[c].lot_qty = g
    <3> HIDE DEF g
    <3> QED
      BY <2>3, <2>8, AddZero
  <2>10. PaidIn(ev, c) = t /\ PaidOut(ev, c) = f ++ e
    BY ConversionPays
  <2> HIDE DEF a, f, t, e
  <2>11. g = a ++ (t -- (f ++ e))
    BY <2>1, <2>2, ThreeMoves
  <2> HIDE DEF g
  <2> QED
    BY <2>9, <2>10, <2>11 DEF a
<1> QED
  BY <1>4, <1>10, <1>11, <1>12 DEF CashStep

(***************************************************************************)
(* What an event does to the state                                         *)
(***************************************************************************)

\* A state in which the books add up.
Sound(s) == WalletOK(s) /\ \A i \in Instrument : InstOK(s.instruments[i])

RealisesFx(ev) == ev.rate # None \/ ev.ccy = Base

\* The rate of the equity side of a trade.
TradeFx(st, ev) == trade_fx(ev, cash_leg(st, ev))

TradedLot(st, ev) == NewLot(sid, sid, ev.qty, ev.price, TradeFx(st, ev))

Transfers(ev) == ev.type = "TRANSFER_IN" /\ Positive(ev.qty)

TransferLot(ev) == NewLot(transfer_lot(ev), sid, ev.qty, ev.cost // ev.qty, ev.fx)

InstStep(st, s, ev, i) ==
  LET old == st.instruments[i]
      new == s.instruments[i]
  IN  /\ Traded(ev) /\ ev.iid = i /\ ev.side = "buy" => Opened(old, TradedLot(st, ev), sid, new)
      /\ Traded(ev) /\ ev.iid = i /\ ev.side = "sell" =>
           Closed(old, ev.qty, ev.price, TradeFx(st, ev), RealisesFx(ev), new)
      /\ Transfers(ev) /\ ev.iid = i => Opened(old, TransferLot(ev), sid, new)
      /\ ~(Traded(ev) /\ ev.iid = i) /\ ~(Transfers(ev) /\ ev.iid = i) => new = old

TrackStep(st, s, ev, i) ==
  LET old == st.open_lots_fx_tracker[i]
      new == s.open_lots_fx_tracker[i]
  IN  IF Traded(ev) /\ ev.iid = i /\ ev.ccy # Base
      THEN /\ ev.side = "buy" => new = tracker_buy(old, ev.qty, sid)
           /\ ev.side = "sell" => new = tracker_sell(old, ev.qty)
      ELSE new = old

EventStep(st, s, ev) ==
  /\ Sound(s)
  /\ CashStep(st, s, ev)
  /\ \A i \in Instrument : InstStep(st, s, ev, i) /\ TrackStep(st, s, ev, i)

\* An event that is neither a trade nor a transfer.
LEMMA CashEvent ==
  ASSUME NEW st, Sound(st), NEW s, NEW ev, CashKeeps(st, s), CashStep(st, s, ev),
         ~Traded(ev), ~Transfers(ev)
  PROVE  EventStep(st, s, ev)
<1>1. LegKeeps(st, s) /\ SameTrackers(st, s)
  BY CashLeg DEF Sound
<1>2. Sound(s)
  BY <1>1 DEF Sound, LegKeeps
<1>3. s.instruments = st.instruments /\ s.open_lots_fx_tracker = st.open_lots_fx_tracker
  BY <1>1 DEF LegKeeps, SameTrackers
<1>4. ASSUME NEW i \in Instrument PROVE InstStep(st, s, ev, i) /\ TrackStep(st, s, ev, i)
  BY <1>3 DEF InstStep, TrackStep
<1> QED
  BY <1>2, <1>4 DEF EventStep

WithInst(st, i, inst) == [st EXCEPT !.instruments[i] = inst]

LEMMA WithInstFacts ==
  ASSUME NEW st, WalletOK(st), NEW i \in Instrument, NEW inst \in InstSet
  PROVE  /\ WalletOK(WithInst(st, i, inst))
         /\ WithInst(st, i, inst).currencies = st.currencies
         /\ WithInst(st, i, inst).open_lots_fx_tracker = st.open_lots_fx_tracker
         /\ WithInst(st, i, inst).instruments[i] = inst
         /\ \A j \in Instrument : j # i =>
              WithInst(st, i, inst).instruments[j] = st.instruments[j]
<1> DEFINE s == WithInst(st, i, inst)
<1>1. st \in StateSet
  BY DEF WalletOK, CashSound
<1>2. s \in StateSet
  BY <1>1 DEF StateSet, WithInst
<1>3. /\ s.currencies = st.currencies
      /\ s.open_lots_fx_tracker = st.open_lots_fx_tracker
      /\ s.buy_fx_basis = st.buy_fx_basis
      /\ s.instruments[i] = inst
      /\ \A j \in Instrument : j # i => s.instruments[j] = st.instruments[j]
  BY <1>1 DEF StateSet, WithInst
<1> HIDE DEF s
<1>4. WalletOK(s)
  BY <1>2, <1>3 DEF WalletOK, CashSound, TrackersOK
<1> QED
  BY <1>3, <1>4 DEF s

LEMMA TradePays ==
  ASSUME NEW ev, Traded(ev), NEW c
  PROVE  /\ ev.side = "buy" =>
              /\ PaidOut(ev, c) = IF c = LegCcy(ev) THEN Moved(Pay(ev)) ELSE Zero
              /\ PaidIn(ev, c) = Zero
              /\ SpendsCash(ev, c) <=> c = LegCcy(ev)
         /\ ev.side = "sell" =>
              /\ PaidIn(ev, c) = IF c = LegCcy(ev) THEN Moved(Proceeds(ev)) ELSE Zero
              /\ PaidOut(ev, c) = Zero
<1>1. ev.type = "TRADE"
  BY DEF Traded
<1>2. CASE settled_in_base(ev)
  BY <1>1, <1>2 DEF PaidIn, PaidOut, SpendsCash, LegCcy, Pay, Proceeds, Rated
<1>3. CASE ~settled_in_base(ev)
  BY <1>1, <1>3 DEF PaidIn, PaidOut, SpendsCash, LegCcy, Pay, Proceeds, Rated
<1> QED
  BY <1>2, <1>3

LEMMA TradeRate ==
  ASSUME NEW st \in StateSet, NEW ev, TradeOK(ev)
  PROVE  trade_fx(ev, st) \in Rat
<1>1. CASE ev.rate # None
  BY <1>1 DEF trade_fx, TradeOK
<1>2. CASE ev.rate = None
  <2>1. ASSUME NEW b \in Partial(Nat, Rat) PROVE Get(b, sid, One) \in Rat
    BY <2>1, PartialType, OneRatio DEF Get
  <2>2. /\ Get(st.buy_fx_basis, sid, One) \in Rat
        /\ Get(st.foreign_sell_fx_basis, sid, One) \in Rat
    BY <2>1, StateFields
  <2> QED
    BY <1>2, <2>2 DEF trade_fx
<1> QED
  BY <1>1, <1>2

\* The cash leg of a trade, and the other instruments' trackers.
LEMMA TradeLeg ==
  ASSUME NEW st, WalletOK(st), NEW ev, Traded(ev), TradeOK(ev), sid \in Nat,
         NEW s, s = cash_leg(st, ev)
  PROVE  /\ WalletOK(s) /\ s.instruments = st.instruments
         /\ CashStep(st, s, ev)
         /\ \A i \in Instrument : TrackStep(st, s, ev, i)
<1>1. st.open_lots_fx_tracker \in [Instrument -> Seq(TrackLot)]
  BY StateFields DEF WalletOK, CashSound
<1>2. Pay(ev) \in Rat /\ Proceeds(ev) \in Rat
  BY TradeAmounts
<1>3. CASE ev.side = "buy"
  <2>1. BuyLeg(st, s, ev)
    BY <1>3, CashLegIs
  <2>2. LegKeeps(st, s) /\ MovedBy(st, s, LegCcy(ev), Zero -- Moved(Pay(ev)))
    BY <2>1 DEF BuyLeg
  <2>3. GapsUnlessSpent(st, s, ev)
    BY <1>3, <2>1, TradePays DEF GapsUnlessSpent, BuyLeg, GapsIn
  <2>4. Moved(Pay(ev)) \in Rat
    BY <1>2, MovedType
  <2>5. CashStep(st, s, ev)
    BY <1>3, <2>2, <2>3, <2>4, TradePays, CashStepOut
  <2>6. \A i \in Instrument : TrackStep(st, s, ev, i)
    BY <1>1, <1>3, <2>1 DEF BuyLeg, SameTrackers, TrackersAre, TrackStep, TradeOK
  <2> QED
    BY <2>2, <2>5, <2>6 DEF LegKeeps
<1>4. CASE ev.side = "sell"
  <2>1. SellLeg(st, s, ev)
    BY <1>4, CashLegIs
  <2>2. LegKeeps(st, s) /\ MovedBy(st, s, LegCcy(ev), Moved(Proceeds(ev)))
    BY <2>1 DEF SellLeg
  <2>3. GapsKept(st, s)
    BY <2>1 DEF GapsKept, SellLeg, GapsIn
  <2>4. Moved(Proceeds(ev)) \in Rat
    BY <1>2, MovedType
  <2>5. CashStep(st, s, ev)
    BY <1>4, <2>2, <2>3, <2>4, TradePays, CashStepIn
  <2>6. \A i \in Instrument : TrackStep(st, s, ev, i)
    BY <1>1, <1>4, <2>1 DEF SellLeg, SameTrackers, TrackersAre, TrackStep, TradeOK
  <2> QED
    BY <2>2, <2>5, <2>6 DEF LegKeeps
<1> QED
  BY <1>3, <1>4 DEF TradeOK

\* An event that leaves one instrument otherwise than it was.
LEMMA InstEvent ==
  ASSUME NEW st, Sound(st), NEW paid, WalletOK(paid), paid.instruments = st.instruments,
         NEW ev, CashStep(st, paid, ev), \A i \in Instrument : TrackStep(st, paid, ev, i),
         NEW i \in Instrument, NEW inst, InstOK(inst),
         NEW s, s = WithInst(paid, i, inst),
         InstStep(st, s, ev, i),
         (Traded(ev) \/ Transfers(ev)) /\ ev.iid = i
  PROVE  EventStep(st, s, ev)
<1>1. inst \in InstSet
  BY DEF InstOK
<1>2. /\ WalletOK(s) /\ s.currencies = paid.currencies
      /\ s.open_lots_fx_tracker = paid.open_lots_fx_tracker
      /\ s.instruments[i] = inst
      /\ \A j \in Instrument : j # i => s.instruments[j] = st.instruments[j]
  BY <1>1, WithInstFacts
<1>3. Sound(s)
  BY <1>2 DEF Sound
<1>4. CashStep(st, s, ev)
  BY <1>2 DEF CashStep, CashMoves, GapsUnlessSpent
<1>5. ASSUME NEW j \in Instrument PROVE InstStep(st, s, ev, j) /\ TrackStep(st, s, ev, j)
  <2>1. TrackStep(st, s, ev, j)
    BY <1>2 DEF TrackStep
  <2>2. InstStep(st, s, ev, j)
    <3>1. CASE j = i
      BY <3>1
    <3>2. CASE j # i
      BY <1>2, <3>2 DEF InstStep
    <3> QED
      BY <3>1, <3>2
  <2> QED
    BY <2>1, <2>2
<1> QED
  BY <1>3, <1>4, <1>5 DEF EventStep

BoughtInst(st, ev) == open_lot(st.instruments[ev.iid], TradedLot(st, ev), sid)

SoldInst(st, ev) ==
  close_qty(st.instruments[ev.iid], ev.qty, ev.price, TradeFx(st, ev), RealisesFx(ev))

TradeTo(st, ev) ==
  WithInst(cash_leg(st, ev), ev.iid,
           IF ev.side = "buy" THEN BoughtInst(st, ev) ELSE SoldInst(st, ev))

LEMMA TradeStep ==
  ASSUME NEW st, Sound(st), NEW ev, Traded(ev), EventOK(ev), sid \in Nat
  PROVE  EventStep(st, TradeTo(st, ev), ev)
<1> DEFINE paid == cash_leg(st, ev)
           i == ev.iid
           old == st.instruments[i]
           fx == TradeFx(st, ev)
           lot == TradedLot(st, ev)
           bought == BoughtInst(st, ev)
           sold == SoldInst(st, ev)
           real == RealisesFx(ev)
           s == TradeTo(st, ev)
<1>1. TradeOK(ev) /\ i \in Instrument /\ ev.qty \in Rat /\ ev.price \in Rat /\ Positive(ev.qty)
  BY DEF TradeOK, EventOK, Traded
<1>2. ~Transfers(ev)
  BY DEF Transfers, Traded
<1>3. WalletOK(st) /\ InstOK(old)
  BY <1>1 DEF Sound
<1>4. /\ WalletOK(paid) /\ paid.instruments = st.instruments /\ CashStep(st, paid, ev)
      /\ \A j \in Instrument : TrackStep(st, paid, ev, j)
  BY <1>1, <1>3, TradeLeg
<1>5. fx \in Rat
  <2> HIDE DEF paid
  <2>1. paid \in StateSet
    BY <1>4 DEF WalletOK, CashSound
  <2>2. trade_fx(ev, paid) \in Rat
    BY <1>1, <2>1, TradeRate
  <2> QED
    BY <2>2 DEF TradeFx, paid
<1>6. bought = open_lot(old, lot, sid) /\ sold = close_qty(old, ev.qty, ev.price, fx, real)
  BY DEF BoughtInst, SoldInst
<1>7. lot \in EquityLot /\ lot.qty = ev.qty
  <2> HIDE DEF fx
  <2>1. lot = [lot_id |-> sid, entry |-> sid, qty |-> ev.qty, price |-> ev.price, fx |-> fx]
    BY DEF TradedLot, NewLot, fx
  <2> QED
    BY <1>1, <1>5, <2>1 DEF EquityLot
<1>8. real \in BOOLEAN
  BY DEF RealisesFx
<1> HIDE DEF old, fx, lot, bought, sold, real, paid, s
<1>9. Opened(old, lot, sid, bought)
  BY <1>1, <1>3, <1>6, <1>7, OpenLot
<1>10. Closed(old, ev.qty, ev.price, fx, real, sold)
  BY <1>1, <1>3, <1>5, <1>6, <1>8, CloseQty
<1>11. InstOK(bought) /\ InstOK(sold)
  BY <1>9, <1>10 DEF Opened, Closed
<1>12. CASE ev.side = "buy"
  <2>1. s = WithInst(paid, i, bought)
    BY <1>12 DEF s, TradeTo, paid, bought
  <2>2. s.instruments[i] = bought
    BY <1>1, <1>4, <1>11, <2>1, WithInstFacts DEF InstOK
  <2>3. InstStep(st, s, ev, i)
    BY <1>2, <1>9, <1>12, <2>2 DEF InstStep, old, lot
  <2> QED
    BY <1>1, <1>4, <1>11, <2>1, <2>3, InstEvent DEF s
<1>13. CASE ev.side = "sell"
  <2>1. s = WithInst(paid, i, sold)
    BY <1>13 DEF s, TradeTo, paid, sold
  <2>2. s.instruments[i] = sold
    BY <1>1, <1>4, <1>11, <2>1, WithInstFacts DEF InstOK
  <2>3. InstStep(st, s, ev, i)
    BY <1>2, <1>10, <1>13, <2>2 DEF InstStep, old, fx, real
  <2> QED
    BY <1>1, <1>4, <1>11, <2>1, <2>3, InstEvent DEF s
<1> QED
  BY <1>1, <1>12, <1>13 DEF TradeOK

TransferTo(st, ev) ==
  WithInst(st, ev.iid, open_lot(st.instruments[ev.iid], TransferLot(ev), sid))

LEMMA TransferStep ==
  ASSUME NEW st, Sound(st), NEW ev, Transfers(ev), EventOK(ev), sid \in Nat
  PROVE  EventStep(st, TransferTo(st, ev), ev)
<1> DEFINE i == ev.iid
           old == st.instruments[i]
           lot == TransferLot(ev)
           new == open_lot(old, lot, sid)
           s == TransferTo(st, ev)
<1>1. /\ ev.type = "TRANSFER_IN" /\ i \in Instrument /\ ev.qty \in Rat /\ ev.cost \in Rat
      /\ ev.fx \in Rat /\ Positive(ev.qty) /\ ev.transfer_id \in Nat
  BY DEF EventOK, Transfers
<1>2. ~Traded(ev)
  BY <1>1 DEF Traded
<1>3. WalletOK(st) /\ InstOK(old) /\ CashSound(st)
  BY <1>1 DEF Sound, WalletOK
<1>4. lot \in EquityLot /\ lot.qty = ev.qty
  <2>1. ev.cost // ev.qty \in Rat
    BY <1>1, DivType
  <2>2. transfer_lot(ev) \in Nat
    BY <1>1 DEF transfer_lot
  <2> QED
    BY <1>1, <2>1, <2>2 DEF TransferLot, NewLot, EquityLot
<1>5. s = WithInst(st, i, new)
  BY DEF TransferTo
<1>6. \A c \in Currency : PaidIn(ev, c) = Zero /\ PaidOut(ev, c) = Zero
  BY <1>1, <1>2 DEF PaidIn, PaidOut
<1>7. CashStep(st, st, ev)
  BY <1>3, <1>6, CashStepNone
<1>8. \A j \in Instrument : TrackStep(st, st, ev, j)
  BY <1>2 DEF TrackStep
<1> HIDE DEF old, lot, new, s
<1>9. Opened(old, lot, sid, new)
  BY <1>1, <1>3, <1>4, OpenLot DEF new
<1>10. InstOK(new)
  BY <1>9 DEF Opened
<1>11. s.instruments[i] = new
  BY <1>1, <1>3, <1>5, <1>10, WithInstFacts DEF InstOK
<1>12. InstStep(st, s, ev, i)
  BY <1>2, <1>9, <1>11 DEF InstStep, old, lot
<1> QED
  BY <1>1, <1>3, <1>5, <1>7, <1>8, <1>10, <1>12, InstEvent DEF s

LEMMA TradeAction ==
  ASSUME Sound(state), NEW ev, EventOK(ev), sid \in Nat, apply_trade(ev)
  PROVE  EventStep(state, state', ev)
<1> DEFINE paid == cash_leg(state, ev)
           fx == TradeFx(state, ev)
           old == state.instruments[ev.iid]
<1>1. Traded(ev) /\ ev.type = "TRADE" /\ Positive(ev.qty)
  BY DEF apply_trade, Traded
<1>2. TradeOK(ev)
  BY <1>1 DEF TradeOK, EventOK
<1>3. paid.instruments = state.instruments
  BY <1>1, <1>2, TradeLeg DEF Sound
<1>4. EventStep(state, TradeTo(state, ev), ev)
  BY <1>1, TradeStep
<1>5. equity_leg(ev, paid, old, fx, RealisesFx(ev))
  BY DEF apply_trade, trade_legs, TradeFx, RealisesFx
<1> HIDE DEF paid, fx, old
<1>6. CASE equity_buy(ev, paid, fx)
  <2>1. ev.side = "buy"
    BY <1>6 DEF equity_buy
  <2>2. state' = [paid EXCEPT !.instruments[ev.iid] =
                    open_lot(paid.instruments[ev.iid], NewLot(sid, sid, ev.qty, ev.price, fx), sid)]
    BY <1>6 DEF equity_buy
  <2>3. TradeTo(state, ev)
          = [paid EXCEPT !.instruments[ev.iid] =
               open_lot(old, NewLot(sid, sid, ev.qty, ev.price, fx), sid)]
    BY <2>1 DEF TradeTo, WithInst, BoughtInst, TradedLot, paid, fx, old
  <2>4. paid.instruments[ev.iid] = old
    BY <1>3 DEF old
  <2>5. state' = TradeTo(state, ev)
    BY <2>2, <2>3, <2>4
  <2> QED
    BY <1>4, <2>5
<1>7. CASE equity_sell(ev, paid, close_qty(old, ev.qty, ev.price, fx, RealisesFx(ev)),
                       Closures(old.fifo, ev.qty, ev.price, fx, RealisesFx(ev)))
  <2>1. ev.side = "sell"
    BY <1>7 DEF equity_sell
  <2>2. state' = [paid EXCEPT !.instruments[ev.iid] =
                    close_qty(old, ev.qty, ev.price, fx, RealisesFx(ev))]
    BY <1>7 DEF equity_sell
  <2>3. TradeTo(state, ev)
          = [paid EXCEPT !.instruments[ev.iid] =
               close_qty(old, ev.qty, ev.price, fx, RealisesFx(ev))]
    BY <2>1 DEF TradeTo, WithInst, SoldInst, paid, fx, old
  <2> QED
    BY <1>4, <2>2, <2>3
<1> QED
  BY <1>5, <1>6, <1>7 DEF equity_leg

LEMMA TransferAction ==
  ASSUME Sound(state), NEW ev, EventOK(ev), sid \in Nat, apply_transfer_in(ev)
  PROVE  EventStep(state, state', ev)
<1>1. Transfers(ev)
  BY DEF apply_transfer_in, Transfers
<1>2. state' = TransferTo(state, ev)
  BY DEF apply_transfer_in, TransferTo, WithInst, TransferLot
<1> QED
  BY <1>1, <1>2, TransferStep

LEMMA CashActions ==
  ASSUME Sound(state), NEW ev, EventOK(ev), sid \in Nat,
         apply_cashflow(ev) \/ apply_dividend(ev) \/ apply_fx_conversion(ev)
  PROVE  EventStep(state, state', ev)
<1>1. CashSound(state)
  BY DEF Sound, WalletOK
<1>2. CASE apply_cashflow(ev)
  <2>1. ev.type = "CASHFLOW" /\ state' = CashflowTo(state, ev)
    BY <1>2 DEF apply_cashflow, CashflowTo
  <2>2. ~Traded(ev) /\ ~Transfers(ev)
    BY <2>1 DEF Traded, Transfers
  <2>3. CashKeeps(state, state') /\ CashStep(state, state', ev)
    BY <1>1, <2>1, Cashflow
  <2> QED
    BY <2>2, <2>3, CashEvent
<1>3. CASE apply_dividend(ev)
  <2>1. ev.type = "DIVIDEND" /\ state' = DividendTo(state, ev)
    BY <1>3 DEF apply_dividend, DividendTo
  <2>2. ~Traded(ev) /\ ~Transfers(ev)
    BY <2>1 DEF Traded, Transfers
  <2>3. CashKeeps(state, state') /\ CashStep(state, state', ev)
    BY <1>1, <2>1, Dividend
  <2> QED
    BY <2>2, <2>3, CashEvent
<1>4. CASE apply_fx_conversion(ev)
  <2>1. ev.type = "FX_CONVERSION" /\ state' = ConversionTo(state, ev)
    BY <1>4 DEF apply_fx_conversion, ConversionTo
  <2>2. ~Traded(ev) /\ ~Transfers(ev)
    BY <2>1 DEF Traded, Transfers
  <2>3. CashKeeps(state, state') /\ CashStep(state, state', ev)
    BY <1>1, <2>1, Conversion
  <2> QED
    BY <2>2, <2>3, CashEvent
<1> QED
  BY <1>2, <1>3, <1>4

LEMMA NothingAction ==
  ASSUME Sound(state), NEW ev, apply_nothing(ev)
  PROVE  EventStep(state, state', ev)
<1>1. CashSound(state)
  BY DEF Sound, WalletOK
<1>2. state' = state /\ ~Traded(ev) /\ ~Transfers(ev)
  BY DEF apply_nothing, Traded, Transfers
<1>3. \A c \in Currency : PaidIn(ev, c) = Zero /\ PaidOut(ev, c) = Zero
  BY <1>2 DEF apply_nothing, PaidIn, PaidOut
<1>4. CashKeeps(state, state') /\ CashStep(state, state', ev)
  BY <1>1, <1>2, <1>3, CashKeepsSelf, CashStepNone
<1> QED
  BY <1>2, <1>4, CashEvent

\* What folding an event does.
LEMMA Accumulated ==
  ASSUME log \in Seq(Event), Sound(state), NEW ev \in Event, accumulate(ev)
  PROVE  /\ EventStep(state, state', ev)
         /\ log' = Append(log, ev) /\ log' \in Seq(Event)
         /\ Len(log') = Len(log) + 1 /\ Len(log) \in Nat /\ sid = Len(log')
         /\ log'[Len(log')] = ev
         /\ \A n \in 1..Len(log) : log'[n] = log[n]
<1>1. EventOK(ev)
  BY EventAssumption
<1>2. Len(log) \in Nat /\ sid \in Nat
  BY DEF sid
<1>3. log' = Append(log, ev)
  BY DEF accumulate
<1>4. EventStep(state, state', ev)
  BY <1>1, <1>2, TradeAction, TransferAction, CashActions, NothingAction DEF accumulate
<1>5. /\ Append(log, ev) \in Seq(Event) /\ Len(Append(log, ev)) = Len(log) + 1
      /\ Append(log, ev)[Len(log) + 1] = ev
      /\ \A n \in 1..Len(log) : Append(log, ev)[n] = log[n]
  OBVIOUS
<1> QED
  BY <1>2, <1>3, <1>4, <1>5 DEF sid

(***************************************************************************)
(* The books add up                                                        *)
(***************************************************************************)

LEMMA PaysType ==
  ASSUME NEW ev, EventOK(ev), NEW c
  PROVE  PaidIn(ev, c) \in Rat /\ PaidOut(ev, c) \in Rat
<1>1. CASE Traded(ev)
  <2>1. TradeOK(ev)
    BY <1>1 DEF TradeOK, EventOK, Traded
  <2>2. Moved(Pay(ev)) \in Rat /\ Moved(Proceeds(ev)) \in Rat
    BY <2>1, TradeAmounts, MovedType
  <2> QED
    BY <1>1, <2>1, <2>2, TradePays, ZeroType DEF TradeOK
<1>2. CASE ev.type = "CASHFLOW"
  <2>1. Moved(ev.amount) \in Rat
    BY <1>2, MovedType DEF EventOK
  <2> QED
    BY <1>2, <2>1, CashflowPays, ZeroType
<1>3. CASE ev.type = "DIVIDEND"
  <2>1. Net(ev) \in Rat
    BY <1>3, AddType DEF EventOK, Net
  <2>2. Moved(Net(ev)) \in Rat
    BY <2>1, MovedType
  <2>3. settled_in_base(ev) => Moved(Net(ev) ** ev.rate) \in Rat
    BY <1>3, <2>1, MulType, MovedType DEF EventOK, settled_in_base
  <2> QED
    BY <1>3, <2>2, <2>3, DividendPays, ZeroType
<1>4. CASE ev.type = "FX_CONVERSION"
  <2>1. Moved(ev.to_amt) \in Rat /\ Moved(ev.from_amt) \in Rat /\ Moved(ev.fee) \in Rat
    BY <1>4, MovedType DEF EventOK
  <2> QED
    BY <1>4, <2>1, ConversionPays, ZeroType, AddType
<1>5. CASE /\ ~Traded(ev) /\ ev.type # "CASHFLOW" /\ ev.type # "DIVIDEND"
           /\ ev.type # "FX_CONVERSION"
  <2>1. PaidIn(ev, c) = Zero /\ PaidOut(ev, c) = Zero
    BY <1>5 DEF PaidIn, PaidOut
  <2> QED
    BY <2>1, ZeroType
<1> QED
  BY <1>1, <1>2, <1>3, <1>4, <1>5

Flow(ev, c) == PaidIn(ev, c) -- PaidOut(ev, c)

Flows(events, c) == [n \in DOMAIN events |-> Flow(events[n], c)]

\* The books of a state and the log they come from.
Books == log \in Seq(Event) /\ Sound(state)

Balanced == \A c \in Currency : state.currencies[c].lot_qty = SumOf(Flows(log, c))

LEMMA EmptyBucketOK == BucketOK(EmptyBucket)
<1>1. EmptyBucket \in BucketSet
  BY ZeroType DEF EmptyBucket, BucketSet
<1>2. /\ EmptyBucket.fifo_lots = <<>> /\ EmptyBucket.borrow_lots = <<>>
      /\ EmptyBucket.lot_qty = Zero
  BY DEF EmptyBucket
<1>3. AllPositive(<<>>)
  BY DEF AllPositive
<1>4. Zero = Zero -- Zero
  BY ZeroType, AddZero
<1> QED
  BY <1>1, <1>2, <1>3, <1>4, TotalEmpty DEF BucketOK

LEMMA EmptyInstOK == InstOK(EmptyInst)
<1>1. EmptyFifo \in FifoSet /\ EmptyAvg \in AvgSet
  BY ZeroType DEF EmptyFifo, EmptyAvg, FifoSet, AvgSet
<1>2. EmptyInst \in InstSet
  BY <1>1, ZeroType DEF EmptyInst, InstSet, NoEvent
<1>3. /\ EmptyInst.fifo = EmptyFifo /\ EmptyInst.avg = EmptyAvg
      /\ EmptyFifo.lots = <<>> /\ EmptyFifo.qty = Zero /\ EmptyFifo.long = FALSE
      /\ EmptyAvg.qty = Zero /\ EmptyAvg.long = FALSE
  BY DEF EmptyInst, EmptyFifo, EmptyAvg
<1>4. AllPositive(<<>>)
  BY DEF AllPositive
<1>5. ~Positive(Zero)
  BY ZeroType, NotNegative
<1> QED
  BY <1>2, <1>3, <1>4, <1>5, TotalEmpty DEF InstOK

LEMMA InitSound == Init => Books
<1> SUFFICES ASSUME Init PROVE Books
  OBVIOUS
<1> DEFINE curr == [c \in Currency |-> EmptyBucket]
           track == [i \in Instrument |-> <<>>]
           insts == [i \in Instrument |-> EmptyInst]
           s == [currencies |-> curr, pending_borrows |-> <<>>, buy_fx_basis |-> <<>>,
                 foreign_sell_fx_basis |-> <<>>, open_lots_fx_tracker |-> track,
                 instruments |-> insts]
<1>1. state = s /\ log = <<>>
  BY DEF Init
<1>2. curr \in [Currency -> BucketSet] /\ \A c \in Currency : BucketOK(curr[c])
  BY EmptyBucketOK DEF BucketOK
<1>3. insts \in [Instrument -> InstSet] /\ \A i \in Instrument : InstOK(insts[i])
  BY EmptyInstOK DEF InstOK
<1>4. track \in [Instrument -> Seq(TrackLot)] /\ \A i \in Instrument : track[i] = <<>>
  OBVIOUS
<1>5. <<>> \in Partial(BorrowId, PendingSet) /\ <<>> \in Partial(Nat, Rat)
  <2>1. ASSUME NEW K, NEW V PROVE <<>> \in Partial(K, V)
    <3>1. {} \in SUBSET K /\ <<>> \in [{} -> V]
      OBVIOUS
    <3> QED
      BY <3>1 DEF Partial
  <2> QED
    BY <2>1
<1> HIDE DEF curr, track, insts
<1>6. s \in StateSet
  BY <1>2, <1>3, <1>4, <1>5 DEF StateSet
<1>7. s.currencies = curr /\ s.instruments = insts /\ s.open_lots_fx_tracker = track
  OBVIOUS
<1> HIDE DEF s
<1>8. ASSUME NEW D PROVE TrackerOK(<<>>, D)
  BY DEF TrackerOK, AllPositive
<1>9. Sound(s)
  BY <1>2, <1>3, <1>4, <1>6, <1>7, <1>8 DEF Sound, WalletOK, CashSound, TrackersOK
<1> QED
  BY <1>1, <1>9 DEF Books, s

LEMMA NextSound == Books /\ [Next]_vars => Books'
<1> SUFFICES ASSUME Books, [Next]_vars PROVE Books'
  OBVIOUS
<1>1. ASSUME NEW ev \in Event, accumulate(ev) PROVE Books'
  <2>1. EventStep(state, state', ev) /\ log' \in Seq(Event)
    BY <1>1, Accumulated DEF Books
  <2>2. Sound(state')
    BY <2>1 DEF EventStep
  <2> QED
    BY <2>1, <2>2 DEF Books, Sound, WalletOK, CashSound, TrackersOK, TrackerOK, BucketOK, InstOK,
       AllPositive, TotalQty, Total
<1>2. CASE UNCHANGED vars
  BY <1>2 DEF vars, Books, Sound, WalletOK, CashSound, TrackersOK, TrackerOK, BucketOK, InstOK,
     AllPositive, TotalQty, Total
<1> QED
  BY <1>1, <1>2 DEF Next

LEMMA BooksType == Books => TypeOK
<1> SUFFICES ASSUME Books PROVE TypeOK
  OBVIOUS
<1>1. ASSUME NEW c \in Currency PROVE BucketOK(Bucket(c))
  BY DEF Books, Sound, WalletOK, CashSound, Bucket
<1>2. ASSUME NEW i \in Instrument PROVE InstOK(state.instruments[i])
  BY DEF Books, Sound
<1> QED
  BY <1>1, <1>2 DEF TypeOK, BucketOK, InstOK

\* The types and sums of the fold's state hold after any log: lots are positive,
\* a currency holds lots or borrows but never both and its balance is their
\* difference, and both accumulators hold what the lots add up to
\* (_bucket_deposit, _bucket_drain, _fifo_close, _avg_close).
THEOREM FoldTypes == Spec => []TypeOK
<1>1. Init => Books
  BY InitSound
<1>2. Books /\ [Next]_vars => Books'
  BY NextSound
<1>3. Books => TypeOK
  BY BooksType
<1> QED
  BY <1>1, <1>2, <1>3, PTL DEF Spec

LEMMA FlowsType ==
  ASSUME NEW events \in Seq(Event), NEW c
  PROVE  /\ Flows(events, c) \in [1..Len(events) -> Rat]
         /\ \A n \in 1..Len(events) : Flows(events, c)[n] = Flow(events[n], c)
<1>1. DOMAIN events = 1..Len(events)
  OBVIOUS
<1>2. \A n \in 1..Len(events) : EventOK(events[n])
  BY EventAssumption
<1>3. \A n \in 1..Len(events) : Flow(events[n], c) \in Rat
  BY <1>2, PaysType, AddType DEF Flow
<1> QED
  BY <1>1, <1>3 DEF Flows

LEMMA InitBalanced == Init => Balanced
<1> SUFFICES ASSUME Init, NEW c \in Currency
             PROVE  state.currencies[c].lot_qty = SumOf(Flows(log, c))
  BY DEF Balanced
<1>1. state.currencies[c] = EmptyBucket /\ log = <<>>
  BY DEF Init
<1>2. Flows(<<>>, c) = <<>>
  BY DEF Flows
<1>3. EmptyBucket.lot_qty = Zero
  BY DEF EmptyBucket
<1> QED
  BY <1>1, <1>2, <1>3, SumEmpty

LEMMA NextBalanced == Books /\ Balanced /\ [Next]_vars => Balanced'
<1> SUFFICES ASSUME Books, Balanced, [Next]_vars PROVE Balanced'
  OBVIOUS
<1>1. ASSUME NEW ev \in Event, accumulate(ev) PROVE Balanced'
  <2> SUFFICES ASSUME NEW c \in Currency
               PROVE  state'.currencies[c].lot_qty = SumOf(Flows(log', c))
    BY DEF Balanced
  <2> DEFINE N == Len(log)
             p == Flows(log, c)
             r == Flows(log', c)
  <2>1. /\ EventStep(state, state', ev) /\ log \in Seq(Event) /\ log' \in Seq(Event)
        /\ Len(log') = N + 1 /\ N \in Nat /\ log'[N + 1] = ev
        /\ \A n \in 1..N : log'[n] = log[n]
    BY <1>1, Accumulated DEF Books
  <2>2. p \in [1..N -> Rat] /\ \A n \in 1..N : p[n] = Flow(log[n], c)
    BY <2>1, FlowsType
  <2>3. r \in [1..N + 1 -> Rat] /\ \A n \in 1..N + 1 : r[n] = Flow(log'[n], c)
    BY <2>1, FlowsType
  <2>4. \A n \in 1..N : r[n] = p[n]
    BY <2>1, <2>2, <2>3
  <2>5. r[N + 1] = Flow(ev, c)
    BY <2>1, <2>3
  <2> HIDE DEF p, r
  <2>6. SumOf(r) = SumOf(p) ++ Flow(ev, c)
    BY <2>1, <2>2, <2>3, <2>4, <2>5, SumExtended
  <2>7. state.currencies[c].lot_qty = SumOf(p)
    BY DEF Balanced, p
  <2>8. state'.currencies[c].lot_qty = state.currencies[c].lot_qty ++ Flow(ev, c)
    BY <2>1 DEF EventStep, CashStep, CashMoves, Flow
  <2> QED
    BY <2>6, <2>7, <2>8 DEF r
<1>2. CASE UNCHANGED vars
  BY <1>2 DEF vars, Balanced, Flows
<1> QED
  BY <1>1, <1>2 DEF Next

\* The balance of every currency is the sum of what the events moved in it,
\* whatever lots, borrows, late covers and conversions made of the cash
\* (_bucket_deposit, _bucket_drain).
THEOREM FoldBalance == Spec => []BalanceIsNetCash
<1>1. Init => Books /\ Balanced
  BY InitSound, InitBalanced
<1>2. Books /\ Balanced /\ [Next]_vars => (Books /\ Balanced)'
  BY NextSound, NextBalanced
<1>3. Books /\ Balanced => BalanceIsNetCash
  BY DEF Balanced, BalanceIsNetCash, Bucket, LogTotal, Flows, Flow
<1> QED
  BY <1>1, <1>2, <1>3, PTL DEF Spec

(***************************************************************************)
(* The methods agree on the FX gain                                        *)
(***************************************************************************)

NeverSpent(events, c) == \A n \in DOMAIN events : ~SpendsCash(events[n], c)

GapsClosed ==
  \A c \in Currency : NeverSpent(log, c) => FxGap(state.currencies[c]) = Zero

LEMMA InitGaps == Init => GapsClosed
<1> SUFFICES ASSUME Init, NEW c \in Currency
             PROVE  FxGap(state.currencies[c]) = Zero
  BY DEF GapsClosed
<1>1. state.currencies[c] = EmptyBucket
  BY DEF Init
<1>2. /\ EmptyBucket.gain_fifo = Zero /\ EmptyBucket.gain_avg = Zero
      /\ EmptyBucket.fifo_lots = <<>> /\ EmptyBucket.avg_fx = Zero
  BY DEF EmptyBucket
<1>3. Zero -- Zero = Zero /\ Zero ** Zero = Zero
  BY ZeroType, AddZero, MulUnit
<1> QED
  BY <1>1, <1>2, <1>3, TotalEmpty, ValueEmpty DEF FxGap, GainsApart, LotsApart

LEMMA NextGaps == Books /\ GapsClosed /\ [Next]_vars => GapsClosed'
<1> SUFFICES ASSUME Books, GapsClosed, [Next]_vars PROVE GapsClosed'
  OBVIOUS
<1>1. ASSUME NEW ev \in Event, accumulate(ev) PROVE GapsClosed'
  <2> SUFFICES ASSUME NEW c \in Currency, NeverSpent(log', c)
               PROVE  FxGap(state'.currencies[c]) = Zero
    BY DEF GapsClosed, NeverSpent, FxGap, GainsApart, LotsApart, Value, TotalQty, Total
  <2>1. /\ EventStep(state, state', ev) /\ log' \in Seq(Event) /\ log \in Seq(Event)
        /\ Len(log') = Len(log) + 1 /\ Len(log) \in Nat /\ log'[Len(log')] = ev
        /\ \A n \in 1..Len(log) : log'[n] = log[n]
    BY <1>1, Accumulated DEF Books
  <2>2. DOMAIN log' = 1..Len(log') /\ DOMAIN log = 1..Len(log)
    BY <2>1
  <2>3. NeverSpent(log, c)
    BY <2>1, <2>2 DEF NeverSpent
  <2>4. ~SpendsCash(ev, c)
    <3>1. Len(log') \in DOMAIN log'
      BY <2>1, <2>2
    <3> QED
      BY <2>1, <3>1 DEF NeverSpent
  <2>5. FxGap(state'.currencies[c]) = FxGap(state.currencies[c])
    BY <2>1, <2>4 DEF EventStep, CashStep, GapsUnlessSpent
  <2> QED
    BY <2>3, <2>5 DEF GapsClosed
<1>2. CASE UNCHANGED vars
  BY <1>2 DEF vars, GapsClosed, NeverSpent, FxGap, GainsApart, LotsApart, Value, TotalQty, Total
<1> QED
  BY <1>1, <1>2 DEF Next

LEMMA SubEqual ==
  ASSUME NEW a \in Rat, NEW b \in Rat
  PROVE  a -- b = Zero <=> a = b
<1>1. a -- b = Zero => a = b
  BY AddSub, AddZero
<1> QED
  BY <1>1, AddZero

LEMMA GapsAgree == Books /\ GapsClosed => FxMethodsAgree
<1> SUFFICES ASSUME Books, GapsClosed, NEW c \in Currency, NeverSpent(log, c)
             PROVE  Bucket(c).gain_fifo -- Value(Bucket(c).fifo_lots)
                      = Bucket(c).gain_avg
                          -- (Greater(Zero, Bucket(c).lot_qty) ** Bucket(c).avg_fx)
  BY DEF FxMethodsAgree, NeverSpent
<1> DEFINE b == Bucket(c)
           v == Value(b.fifo_lots)
           x == Greater(Zero, b.lot_qty) ** b.avg_fx
<1>1. BucketOK(b)
  BY DEF Books, Sound, WalletOK, CashSound, Bucket
<1>2. /\ b.gain_fifo \in Rat /\ b.gain_avg \in Rat /\ v \in Rat
      /\ Greater(Zero, b.lot_qty) = TotalQty(b.fifo_lots)
      /\ TotalQty(b.fifo_lots) \in Rat /\ b.avg_fx \in Rat
  BY <1>1, BucketTotals, BucketFields, ValueIs DEF BucketOK
<1>3. x \in Rat
  BY <1>2, MulType
<1>4. FxGap(b) = Zero
  BY DEF GapsClosed, Bucket
<1>5. FxGap(b) = (b.gain_fifo -- b.gain_avg) -- (v -- x)
  BY <1>2 DEF FxGap, GainsApart, LotsApart
<1> HIDE DEF b, v, x
<1>6. (b.gain_fifo -- b.gain_avg) -- (v -- x) = (b.gain_fifo -- v) -- (b.gain_avg -- x)
  BY <1>2, <1>3, SubSplit
<1>7. b.gain_fifo -- v \in Rat /\ b.gain_avg -- x \in Rat
  BY <1>2, <1>3, AddType
<1>8. b.gain_fifo -- v = b.gain_avg -- x
  BY <1>4, <1>5, <1>6, <1>7, SubEqual
<1> QED
  BY <1>8 DEF b, v, x

(***************************************************************************)
(* The trackers follow the lots                                            *)
(***************************************************************************)

\* All that happened to i were foreign trades.
ForeignOnly(events, i) ==
  \A n \in DOMAIN events :
    /\ ~(Transfers(events[n]) /\ events[n].iid = i)
    /\ ~(Traded(events[n]) /\ events[n].iid = i /\ events[n].ccy = Base)

TrackersFollow ==
  \A i \in Instrument : ForeignOnly(log, i) =>
    TotalQty(state.open_lots_fx_tracker[i]) = state.instruments[i].fifo.qty

LEMMA InitTrackers == Init => TrackersFollow
<1> SUFFICES ASSUME Init, NEW i \in Instrument
             PROVE  TotalQty(state.open_lots_fx_tracker[i]) = state.instruments[i].fifo.qty
  BY DEF TrackersFollow
<1>1. state.open_lots_fx_tracker[i] = <<>> /\ state.instruments[i] = EmptyInst
  BY DEF Init
<1>2. EmptyInst.fifo.qty = Zero
  BY DEF EmptyInst, EmptyFifo
<1> QED
  BY <1>1, <1>2, TotalEmpty

LEMMA StepTracker ==
  ASSUME NEW st, Sound(st), NEW s, NEW ev, EventStep(st, s, ev), EventOK(ev),
         sid \in Nat, NEW i \in Instrument,
         ~(Transfers(ev) /\ ev.iid = i), ~(Traded(ev) /\ ev.iid = i /\ ev.ccy = Base),
         TotalQty(st.open_lots_fx_tracker[i]) = st.instruments[i].fifo.qty
  PROVE  TotalQty(s.open_lots_fx_tracker[i]) = s.instruments[i].fifo.qty
<1> DEFINE D == DOMAIN s.buy_fx_basis \cup DOMAIN st.buy_fx_basis \cup {sid}
           old == st.open_lots_fx_tracker[i]
           new == s.open_lots_fx_tracker[i]
           a == st.instruments[i]
           b == s.instruments[i]
<1>1. InstStep(st, s, ev, i) /\ TrackStep(st, s, ev, i)
  BY DEF EventStep
<1>2. TrackerOK(old, D)
  <2>1. TrackerOK(old, DOMAIN st.buy_fx_basis)
    BY DEF Sound, WalletOK, TrackersOK
  <2> QED
    BY <2>1, TrackedMore
<1>3. CASE ~(Traded(ev) /\ ev.iid = i)
  BY <1>1, <1>3 DEF InstStep, TrackStep
<1>4. CASE Traded(ev) /\ ev.iid = i
  <2>1. /\ ev.side \in {"buy", "sell"} /\ ev.qty \in Rat /\ Positive(ev.qty) /\ ev.ccy # Base
    BY <1>4 DEF EventOK, Traded
  <2>2. CASE ev.side = "buy"
    <3>1. new = tracker_buy(old, ev.qty, sid)
      BY <1>1, <1>4, <2>1, <2>2 DEF TrackStep
    <3>2. b.fifo.qty = a.fifo.qty ++ ev.qty
      <4>1. Opened(a, TradedLot(st, ev), sid, b)
        BY <1>1, <1>4, <2>2 DEF InstStep
      <4>2. TradedLot(st, ev).qty = ev.qty
        BY DEF TradedLot, NewLot
      <4> QED
        BY <4>1, <4>2 DEF Opened
    <3>3. sid \in D
      OBVIOUS
    <3> HIDE DEF D, old, new, a, b
    <3>4. TotalQty(tracker_buy(old, ev.qty, sid)) = TotalQty(old) ++ ev.qty
      BY <1>2, <2>1, <3>3, TrackerBuy
    <3> QED
      BY <3>1, <3>2, <3>4 DEF old, new, a, b
  <2>3. CASE ev.side = "sell"
    <3>1. new = tracker_sell(old, ev.qty)
      BY <1>1, <1>4, <2>1, <2>3 DEF TrackStep
    <3>2. b.fifo.qty = Greater(Zero, a.fifo.qty -- ev.qty)
      <4>1. Closed(a, ev.qty, ev.price, TradeFx(st, ev), RealisesFx(ev), b)
        BY <1>1, <1>4, <2>3 DEF InstStep
      <4> QED
        BY <4>1 DEF Closed, FifoSold
    <3> HIDE DEF D, old, new, a, b
    <3>4. TotalQty(tracker_sell(old, ev.qty)) = Greater(Zero, TotalQty(old) -- ev.qty)
      BY <1>2, <2>1, TrackerSell
    <3> QED
      BY <3>1, <3>2, <3>4 DEF old, new, a, b
  <2> QED
    BY <2>1, <2>2, <2>3
<1> QED
  BY <1>3, <1>4

LEMMA NextTrackers == Books /\ TrackersFollow /\ [Next]_vars => TrackersFollow'
<1> SUFFICES ASSUME Books, TrackersFollow, [Next]_vars PROVE TrackersFollow'
  OBVIOUS
<1>1. ASSUME NEW ev \in Event, accumulate(ev) PROVE TrackersFollow'
  <2> SUFFICES ASSUME NEW i \in Instrument, ForeignOnly(log', i)
               PROVE  TotalQty(state'.open_lots_fx_tracker[i]) = state'.instruments[i].fifo.qty
    BY DEF TrackersFollow, ForeignOnly, TotalQty, Total
  <2>1. /\ EventStep(state, state', ev) /\ log' \in Seq(Event) /\ log \in Seq(Event)
        /\ Len(log') = Len(log) + 1 /\ Len(log) \in Nat /\ log'[Len(log')] = ev
        /\ sid = Len(log')
        /\ \A n \in 1..Len(log) : log'[n] = log[n]
    BY <1>1, Accumulated DEF Books
  <2>2. DOMAIN log' = 1..Len(log') /\ DOMAIN log = 1..Len(log) /\ Len(log') \in DOMAIN log'
    BY <2>1
  <2>3. ForeignOnly(log, i)
    BY <2>1, <2>2 DEF ForeignOnly
  <2>4. ~(Transfers(ev) /\ ev.iid = i) /\ ~(Traded(ev) /\ ev.iid = i /\ ev.ccy = Base)
    BY <2>1, <2>2 DEF ForeignOnly
  <2>5. TotalQty(state.open_lots_fx_tracker[i]) = state.instruments[i].fifo.qty
    BY <2>3 DEF TrackersFollow
  <2>6. EventOK(ev) /\ sid \in Nat /\ Sound(state)
    BY <2>1, EventAssumption DEF Books
  <2> QED
    BY <2>1, <2>4, <2>5, <2>6, StepTracker
<1>2. CASE UNCHANGED vars
  BY <1>2 DEF vars, TrackersFollow, ForeignOnly, TotalQty, Total
<1> QED
  BY <1>1, <1>2 DEF Next

LEMMA TrackersAreLots == Books /\ TrackersFollow => TrackerFollowsLots
<1> SUFFICES ASSUME Books, TrackersFollow, NEW i \in Instrument, ForeignOnly(log, i)
             PROVE  LET tracker == state.open_lots_fx_tracker[i]
                    IN  /\ TotalQty(tracker) = state.instruments[i].fifo.qty
                        /\ \A n \in DOMAIN tracker : tracker[n].trade_id \in DOMAIN state.buy_fx_basis
  BY DEF TrackerFollowsLots, ForeignOnly, Transfers, Receives
<1> DEFINE tracker == state.open_lots_fx_tracker[i]
           D == DOMAIN state.buy_fx_basis
<1>1. TotalQty(tracker) = state.instruments[i].fifo.qty
  BY DEF TrackersFollow
<1>2. TrackerOK(tracker, D)
  BY DEF Books, Sound, WalletOK, TrackersOK
<1> HIDE DEF tracker, D
<1>3. \A n \in DOMAIN tracker : tracker[n].trade_id \in D
  BY <1>2 DEF TrackerOK, Tracked
<1> QED
  BY <1>1, <1>3 DEF tracker, D

\* The tracker that values a foreign sale holds what the lots of the instrument
\* hold, and an FX basis for each of its own (_tracker_buy, _tracker_sell).
THEOREM FoldTrackers == Spec => []TrackerFollowsLots
<1>1. Init => Books /\ TrackersFollow
  BY InitSound, InitTrackers
<1>2. Books /\ TrackersFollow /\ [Next]_vars => (Books /\ TrackersFollow)'
  BY NextSound, NextTrackers
<1>3. Books /\ TrackersFollow => TrackerFollowsLots
  BY TrackersAreLots
<1> QED
  BY <1>1, <1>2, <1>3, PTL DEF Spec

(***************************************************************************)
(* What is held, and what it cost                                          *)
(***************************************************************************)

LEMMA HeldAfterType ==
  ASSUME NEW h \in Rat, Zero \preceq h, NEW ev, EventOK(ev), NEW i
  PROVE  HeldAfter(h, ev, i) \in Rat /\ Zero \preceq HeldAfter(h, ev, i)
<1>1. CASE Opens(ev, i)
  <2>1. ev.qty \in Rat /\ Zero \preceq ev.qty
    BY <1>1, NotNegative DEF EventOK, Opens, Trades, Receives, Traded
  <2> QED
    BY <1>1, <2>1, AddType, NonNegativeSum DEF HeldAfter
<1>2. CASE ~Opens(ev, i) /\ Trades(ev, "sell", i)
  <2>1. ev.qty \in Rat
    BY <1>2 DEF EventOK, Trades, Traded
  <2>2. h -- ev.qty \in Rat
    BY <2>1, AddType
  <2>3. Greater(Zero, h -- ev.qty) \in Rat /\ Zero \preceq Greater(Zero, h -- ev.qty)
    BY <2>2, ZeroType, MinMax, OrderFacts DEF Greater
  <2> QED
    BY <1>2, <2>3 DEF HeldAfter
<1>3. CASE ~Opens(ev, i) /\ ~Trades(ev, "sell", i)
  BY <1>3 DEF HeldAfter
<1> QED
  BY <1>1, <1>2, <1>3

LEMMA LogEvents ==
  ASSUME NEW events \in Seq(Event)
  PROVE  /\ Len(events) \in Nat /\ DOMAIN events = 1..Len(events)
         /\ \A n \in 1..Len(events) : EventOK(events[n])
<1>1. \A n \in 1..Len(events) : events[n] \in Event
  OBVIOUS
<1> QED
  BY <1>1, EventAssumption

NotNeg == {r \in Rat : Zero \preceq r}

\* The equation of HeldIn.
LEMMA HeldProp ==
  ASSUME NEW events \in Seq(Event), NEW i
  PROVE  /\ HeldIn(events, i) \in [0..Len(events) -> NotNeg]
         /\ HeldIn(events, i)[0] = Zero
         /\ \A n \in 1..Len(events) :
              HeldIn(events, i)[n] = HeldAfter(HeldIn(events, i)[n - 1], events[n], i)
<1> DEFINE N == Len(events)
           step == [n \in 1..N |-> [h \in NotNeg |-> HeldAfter(h, events[n], i)]]
           P(s) == s = [n \in 0..N |-> IF n = 0 THEN Zero ELSE HeldAfter(s[n - 1], events[n], i)]
<1>1. N \in Nat /\ \A n \in 1..N : EventOK(events[n])
  BY LogEvents
<1>2. step \in [1..N -> [NotNeg -> NotNeg]]
  BY <1>1, HeldAfterType DEF NotNeg
<1>z. Zero \in NotNeg
  BY ZeroType, OrderFacts DEF NotNeg
<1>p. PICK f \in [0..N -> NotNeg] : Recursive(f, N, Zero, step)
  <2> HIDE DEF step, N
  <2> QED
    BY <1>1, <1>2, <1>z, Recursion
<1>3. f[0] = Zero /\ \A n \in 1..N : f[n] = step[n][f[n - 1]]
  BY <1>p DEF Recursive
<1>4. ASSUME NEW n \in 1..N PROVE f[n] = HeldAfter(f[n - 1], events[n], i)
  <2>1. f[n - 1] \in NotNeg
    BY <1>1, <1>3
  <2>2. step[n] = [h \in NotNeg |-> HeldAfter(h, events[n], i)]
    OBVIOUS
  <2>3. f[n] = step[n][f[n - 1]]
    BY <1>3
  <2> HIDE DEF step
  <2> QED
    BY <2>1, <2>2, <2>3
<1>5. P(f)
  BY <1>1, <1>3, <1>4
<1>6. HeldIn(events, i) = CHOOSE s : P(s)
  BY DEF HeldIn
<1>7. P(HeldIn(events, i))
  <2> HIDE DEF P
  <2> QED
    BY <1>5, <1>6
<1> DEFINE g == HeldIn(events, i)
<1>8. g = [n \in 0..N |-> IF n = 0 THEN Zero ELSE HeldAfter(g[n - 1], events[n], i)]
  BY <1>7
<1> HIDE DEF g
<1>9. g[0] = Zero /\ \A n \in 1..N : g[n] = HeldAfter(g[n - 1], events[n], i)
  BY <1>1, <1>8
<1> DEFINE S == {j \in Nat : j <= N => g[j] = f[j]}
<1>10. \A n \in Nat : n \in S
  <2>1. 0 \in S
    BY <1>3, <1>9
  <2>2. ASSUME NEW n \in Nat, n \in S PROVE n + 1 \in S
    <3> SUFFICES ASSUME n + 1 <= N PROVE g[n + 1] = f[n + 1]
      OBVIOUS
    <3>1. n + 1 \in 1..N /\ (n + 1) - 1 = n
      BY <1>1
    <3> QED
      BY <1>4, <1>9, <2>2, <3>1
  <2> HIDE DEF S
  <2> QED
    BY <2>1, <2>2, Induction
<1>11. \A n \in 0..N : g[n] = f[n]
  BY <1>1, <1>10
<1>12. g \in [0..N -> NotNeg]
  BY <1>8, <1>11
<1> QED
  BY <1>9, <1>12 DEF g

\* What was held does not depend on what came later.
LEMMA HeldSame ==
  ASSUME NEW events \in Seq(Event), NEW later \in Seq(Event), NEW i,
         Len(events) <= Len(later), \A n \in 1..Len(events) : later[n] = events[n]
  PROVE  \A n \in 0..Len(events) : HeldIn(later, i)[n] = HeldIn(events, i)[n]
<1> DEFINE N == Len(events)
           g == HeldIn(later, i)
           f == HeldIn(events, i)
           S == {j \in Nat : j <= N => g[j] = f[j]}
<1>1. /\ N \in Nat /\ f[0] = Zero /\ g[0] = Zero
      /\ \A n \in 1..N : f[n] = HeldAfter(f[n - 1], events[n], i)
      /\ \A n \in 1..N : g[n] = HeldAfter(g[n - 1], events[n], i)
  <2>1. 1..N \subseteq 1..Len(later)
    OBVIOUS
  <2> QED
    BY <2>1, HeldProp
<1> HIDE DEF f, g, N
<1>2. 0 \in S
  BY <1>1
<1>3. ASSUME NEW n \in Nat, n \in S PROVE n + 1 \in S
  <2> SUFFICES ASSUME n + 1 <= N PROVE g[n + 1] = f[n + 1]
    OBVIOUS
  <2>1. n + 1 \in 1..N /\ (n + 1) - 1 = n
    BY <1>1
  <2> QED
    BY <1>1, <1>3, <2>1
<1> HIDE DEF S
<1>4. \A n \in Nat : n \in S
  BY <1>2, <1>3, Induction
<1> QED
  BY <1>1, <1>4 DEF S, f, g, N

\* Foreign to the instrument i.
Skips(ev, i) == ~(Traded(ev) /\ ev.iid = i) /\ ~(Transfers(ev) /\ ev.iid = i)

LEMMA EventKinds ==
  ASSUME NEW ev, EventOK(ev), NEW i
  PROVE  /\ \/ Trades(ev, "buy", i)
            \/ Trades(ev, "sell", i)
            \/ Receives(ev, i)
            \/ Skips(ev, i)
         /\ Trades(ev, "buy", i) => ~Trades(ev, "sell", i) /\ ~Receives(ev, i)
         /\ Trades(ev, "sell", i) => ~Receives(ev, i) /\ ~Opens(ev, i)
         /\ Skips(ev, i) => ~Opens(ev, i) /\ ~Trades(ev, "sell", i)
<1>1. Traded(ev) => ev.side \in {"buy", "sell"}
  BY DEF Traded, EventOK
<1> QED
  BY <1>1 DEF Trades, Receives, Skips, Opens, Transfers, Traded

LEMMA ResultIs ==
  ASSUME NEW ev, EventOK(ev), NEW i, NEW h \in Rat
  PROVE  /\ Trades(ev, "buy", i) => Result(ev, i, h) = Zero -- Gross(ev)
         /\ Trades(ev, "sell", i) => Result(ev, i, h) = Lesser(h, ev.qty) ** ev.price
         /\ Receives(ev, i) => Result(ev, i, h) = Zero -- ev.cost
         /\ Skips(ev, i) => Result(ev, i, h) = Zero
         /\ Result(ev, i, h) \in Rat
<1>1. CASE Trades(ev, "buy", i)
  <2>1. Result(ev, i, h) = Zero -- Gross(ev)
    BY <1>1, EventKinds DEF Result
  <2>2. ev.qty \in Rat /\ ev.price \in Rat
    BY <1>1 DEF EventOK, Trades, Traded
  <2>3. Gross(ev) \in Rat
    BY <2>2, MulType DEF Gross
  <2>4. Zero -- Gross(ev) \in Rat
    BY <2>3, ZeroType, AddType
  <2> QED
    BY <1>1, <2>1, <2>4, EventKinds DEF Opens
<1>2. CASE Trades(ev, "sell", i)
  <2>1. Result(ev, i, h) = Lesser(h, ev.qty) ** ev.price
    BY <1>2, EventKinds DEF Result
  <2>2. ev.qty \in Rat /\ ev.price \in Rat
    BY <1>2 DEF EventOK, Trades, Traded
  <2>3. Lesser(h, ev.qty) ** ev.price \in Rat
    BY <2>2, MinMax, MulType
  <2> QED
    BY <1>2, <2>1, <2>3, EventKinds
<1>3. CASE Receives(ev, i)
  <2>1. Result(ev, i, h) = Zero -- ev.cost
    BY <1>3, EventKinds DEF Result
  <2>2. ev.cost \in Rat
    BY <1>3 DEF EventOK, Receives
  <2>3. Zero -- ev.cost \in Rat
    BY <2>2, ZeroType, AddType
  <2> QED
    BY <1>3, <2>1, <2>3, EventKinds DEF Opens
<1>4. CASE Skips(ev, i)
  <2>1. Result(ev, i, h) = Zero
    BY <1>4, EventKinds DEF Result, Opens
  <2> QED
    BY <1>4, <2>1, ZeroType, EventKinds DEF Opens
<1> QED
  BY <1>1, <1>2, <1>3, <1>4, EventKinds

\* What an event does to what is held and to what it cost.
LEMMA OpenedCost ==
  ASSUME NEW inst, InstOK(inst), NEW lot \in EquityLot, NEW id, NEW o, Opened(inst, lot, id, o)
  PROVE  /\ FifoNative(o.fifo) = FifoNative(inst.fifo) -- (lot.qty ** lot.price)
         /\ FifoBase(o.fifo) = FifoBase(inst.fifo) -- (lot.qty ** (lot.price ** lot.fx))
         /\ AvgNative(o.avg) = AvgNative(inst.avg) -- (lot.qty ** lot.price)
         /\ AvgBase(o.avg) = AvgBase(inst.avg) -- (lot.qty ** (lot.price ** lot.fx))
<1> DEFINE lots == inst.fifo.lots
           gn == inst.fifo.gross_native
           gb == inst.fifo.gross_base
           an == inst.avg.gross_native
           ab == inst.avg.gross_base
           hn == inst.avg.qty ** inst.avg.native
           hb == inst.avg.qty ** inst.avg.base
           cn == NativeCost(lots)
           cb == BaseCost(lots)
           p == lot.qty ** lot.price
           q == lot.qty ** (lot.price ** lot.fx)
<1>1. /\ lots \in Seq(EquityLot) /\ gn \in Rat /\ gb \in Rat /\ an \in Rat /\ ab \in Rat
      /\ inst.avg.qty \in Rat /\ inst.avg.native \in Rat /\ inst.avg.base \in Rat
  BY InstFields DEF InstOK
<1>2. hn \in Rat /\ hb \in Rat
  BY <1>1, MulType
<1>3. p \in Rat /\ q \in Rat
  BY LotFields, MulType
<1>4. /\ cn \in Rat /\ cb \in Rat
      /\ NativeCost(Append(lots, lot)) = cn ++ p
      /\ BaseCost(Append(lots, lot)) = cb ++ q
  <2> HIDE DEF lots
  <2> QED
    BY <1>1, CostIs, CostAppend
<1>5. /\ FifoNative(o.fifo) = gn -- (cn ++ p) /\ FifoBase(o.fifo) = gb -- (cb ++ q)
      /\ FifoNative(inst.fifo) = gn -- cn /\ FifoBase(inst.fifo) = gb -- cb
  BY <1>4 DEF FifoNative, FifoBase, Opened
<1>6. /\ AvgNative(o.avg) = an -- (hn ++ p) /\ AvgBase(o.avg) = ab -- (hb ++ q)
      /\ AvgNative(inst.avg) = an -- hn /\ AvgBase(inst.avg) = ab -- hb
  BY DEF AvgNative, AvgBase, Opened
<1> HIDE DEF gn, gb, an, ab, hn, hb, cn, cb, p, q
<1>7. gn -- (cn ++ p) = (gn -- cn) -- p /\ gb -- (cb ++ q) = (gb -- cb) -- q
  BY <1>1, <1>3, <1>4, SubSub
<1>8. an -- (hn ++ p) = (an -- hn) -- p /\ ab -- (hb ++ q) = (ab -- hb) -- q
  BY <1>1, <1>2, <1>3, SubSub
<1> QED
  BY <1>5, <1>6, <1>7, <1>8 DEF p, q

\* The lot of a trade or a transfer, and what it cost.
LEMMA LotOf ==
  ASSUME NEW st, Sound(st), NEW ev, EventOK(ev), sid \in Nat
  PROVE  /\ Traded(ev) => /\ TradedLot(st, ev) \in EquityLot /\ TradeFx(st, ev) \in Rat
                          /\ TradedLot(st, ev).qty = ev.qty
                          /\ TradedLot(st, ev).entry = sid /\ TradedLot(st, ev).lot_id = sid
                          /\ TradedLot(st, ev).qty ** TradedLot(st, ev).price = Gross(ev)
         /\ Transfers(ev) => /\ TransferLot(ev) \in EquityLot
                             /\ TransferLot(ev).qty = ev.qty
                             /\ TransferLot(ev).entry = sid
                             /\ TransferLot(ev).lot_id = transfer_lot(ev)
                             /\ TransferLot(ev).qty ** TransferLot(ev).price = ev.cost
<1>1. ASSUME Traded(ev)
      PROVE  /\ TradedLot(st, ev) \in EquityLot /\ TradeFx(st, ev) \in Rat
             /\ TradedLot(st, ev).qty = ev.qty
             /\ TradedLot(st, ev).entry = sid /\ TradedLot(st, ev).lot_id = sid
             /\ TradedLot(st, ev).qty ** TradedLot(st, ev).price = Gross(ev)
  <2> DEFINE fx == TradeFx(st, ev)
             paid == cash_leg(st, ev)
  <2>1. TradeOK(ev) /\ ev.qty \in Rat /\ ev.price \in Rat
    BY <1>1 DEF TradeOK, EventOK, Traded
  <2>2. WalletOK(paid)
    BY <1>1, <2>1, TradeLeg DEF Sound
  <2>3. fx = trade_fx(ev, paid)
    BY DEF TradeFx
  <2> HIDE DEF paid, fx
  <2>4. fx \in Rat
    BY <2>1, <2>2, <2>3, TradeRate DEF WalletOK, CashSound
  <2>5. TradedLot(st, ev)
          = [lot_id |-> sid, entry |-> sid, qty |-> ev.qty, price |-> ev.price, fx |-> fx]
    BY DEF TradedLot, NewLot, fx
  <2> QED
    BY <2>1, <2>4, <2>5 DEF EquityLot, fx, Gross
<1>2. ASSUME Transfers(ev)
      PROVE  /\ TransferLot(ev) \in EquityLot
             /\ TransferLot(ev).qty = ev.qty
             /\ TransferLot(ev).entry = sid
             /\ TransferLot(ev).lot_id = transfer_lot(ev)
             /\ TransferLot(ev).qty ** TransferLot(ev).price = ev.cost
  <2> DEFINE p == ev.cost // ev.qty
  <2>1. ev.qty \in Rat /\ ev.cost \in Rat /\ ev.fx \in Rat /\ Positive(ev.qty)
        /\ transfer_lot(ev) \in Nat
    BY <1>2 DEF EventOK, Transfers, transfer_lot
  <2>2. p \in Rat /\ p ** ev.qty = ev.cost
    BY <2>1, DivMul
  <2>3. TransferLot(ev) = [lot_id |-> transfer_lot(ev), entry |-> sid, qty |-> ev.qty,
                            price |-> p, fx |-> ev.fx]
    BY DEF TransferLot, NewLot
  <2> HIDE DEF p
  <2>4. ev.qty ** p = ev.cost
    BY <2>1, <2>2, MulComm
  <2> QED
    BY <2>1, <2>2, <2>3, <2>4 DEF EquityLot
<1> QED
  BY <1>1, <1>2

\* What an event makes of the instrument i.
CostStep(a, b, ev, i) ==
  /\ b.fifo.qty = HeldAfter(a.fifo.qty, ev, i)
  /\ FifoNative(b.fifo) = FifoNative(a.fifo) ++ Result(ev, i, a.fifo.qty)

LEMMA FifoTypes ==
  ASSUME NEW inst, InstOK(inst)
  PROVE  /\ FifoNative(inst.fifo) \in Rat /\ FifoBase(inst.fifo) \in Rat
         /\ AvgNative(inst.avg) \in Rat /\ AvgBase(inst.avg) \in Rat
<1> DEFINE f == inst.fifo
           a == inst.avg
<1>1. /\ f.lots \in Seq(EquityLot) /\ f.gross_native \in Rat /\ f.gross_base \in Rat
      /\ a.gross_native \in Rat /\ a.gross_base \in Rat
      /\ a.qty \in Rat /\ a.native \in Rat /\ a.base \in Rat
  BY InstFields DEF InstOK
<1> HIDE DEF f, a
<1>2. NativeCost(f.lots) \in Rat /\ BaseCost(f.lots) \in Rat
  BY <1>1, CostIs
<1>3. a.qty ** a.native \in Rat /\ a.qty ** a.base \in Rat
  BY <1>1, MulType
<1> QED
  BY <1>1, <1>2, <1>3, AddType DEF FifoNative, FifoBase, AvgNative, AvgBase, f, a

LEMMA StepCost ==
  ASSUME NEW st, Sound(st), NEW s, NEW ev, EventStep(st, s, ev), EventOK(ev),
         sid \in Nat, NEW i \in Instrument
  PROVE  CostStep(st.instruments[i], s.instruments[i], ev, i)
<1> DEFINE a == st.instruments[i]
           b == s.instruments[i]
           q == a.fifo.qty
           n == FifoNative(a.fifo)
<1>1. InstStep(st, s, ev, i) /\ InstOK(a)
  BY DEF EventStep, Sound
<1>2. q \in Rat /\ n \in Rat /\ Zero \preceq q
  BY <1>1, InstTotals, FifoTypes
<1>3. ASSUME NEW lot \in EquityLot, Opened(a, lot, sid, b), NEW c \in Rat,
             lot.qty ** lot.price = c
      PROVE  b.fifo.qty = q ++ lot.qty /\ FifoNative(b.fifo) = n ++ (Zero -- c)
  <2>1. FifoNative(b.fifo) = n -- c
    <3> HIDE DEF a, b, n
    <3>1. FifoNative(b.fifo) = FifoNative(a.fifo) -- (lot.qty ** lot.price)
      BY <1>1, <1>3, OpenedCost
    <3> QED
      BY <1>3, <3>1 DEF n
  <2>2. n ++ (Zero -- c) = (n ++ Zero) -- c
    BY <1>2, ZeroType, SubSub
  <2>3. b.fifo.qty = q ++ lot.qty
    BY <1>3 DEF Opened
  <2> QED
    BY <1>2, <2>1, <2>2, <2>3, AddZero
<1>4. CASE Trades(ev, "buy", i)
  <2>1. Traded(ev) /\ ev.iid = i /\ ev.side = "buy" /\ Opens(ev, i)
    BY <1>4 DEF Trades, Opens
  <2>2. Opened(a, TradedLot(st, ev), sid, b)
    BY <1>1, <2>1 DEF InstStep
  <2>3. /\ TradedLot(st, ev) \in EquityLot /\ TradedLot(st, ev).qty = ev.qty
        /\ TradedLot(st, ev).qty ** TradedLot(st, ev).price = Gross(ev)
    BY <2>1, LotOf
  <2>4. Gross(ev) \in Rat
    BY <2>1, MulType DEF Gross, EventOK, Traded
  <2>5. b.fifo.qty = q ++ ev.qty /\ FifoNative(b.fifo) = n ++ (Zero -- Gross(ev))
    <3> HIDE DEF a, b, q, n
    <3> QED
      BY <1>3, <2>2, <2>3, <2>4
  <2> QED
    BY <1>2, <1>4, <2>1, <2>5, ResultIs DEF CostStep, HeldAfter
<1>5. CASE Receives(ev, i)
  <2>1. Transfers(ev) /\ ev.iid = i /\ Opens(ev, i)
    BY <1>5 DEF Receives, Transfers, Opens
  <2>2. Opened(a, TransferLot(ev), sid, b)
    BY <1>1, <2>1 DEF InstStep
  <2>3. /\ TransferLot(ev) \in EquityLot /\ TransferLot(ev).qty = ev.qty
        /\ TransferLot(ev).qty ** TransferLot(ev).price = ev.cost
    BY <2>1, LotOf
  <2>4. ev.cost \in Rat
    BY <2>1 DEF EventOK, Transfers
  <2>5. b.fifo.qty = q ++ ev.qty /\ FifoNative(b.fifo) = n ++ (Zero -- ev.cost)
    <3> HIDE DEF a, b, q, n
    <3> QED
      BY <1>3, <2>2, <2>3, <2>4
  <2> QED
    BY <1>2, <1>5, <2>1, <2>5, ResultIs DEF CostStep, HeldAfter
<1>6. CASE Trades(ev, "sell", i)
  <2>1. Traded(ev) /\ ev.iid = i /\ ev.side = "sell" /\ ~Opens(ev, i) /\ ev.qty \in Rat
    BY <1>6, EventKinds DEF Trades, EventOK, Traded
  <2>2. Closed(a, ev.qty, ev.price, TradeFx(st, ev), RealisesFx(ev), b)
    BY <1>1, <2>1 DEF InstStep
  <2>3. /\ b.fifo.qty = Greater(Zero, q -- ev.qty)
        /\ FifoNative(b.fifo) = n ++ (Lesser(ev.qty, q) ** ev.price)
    BY <2>2 DEF Closed, FifoSold
  <2>4. Lesser(ev.qty, q) = Lesser(q, ev.qty)
    <3> HIDE DEF q
    <3> QED
      BY <1>2, <2>1, OrderFacts DEF Lesser
  <2> QED
    BY <1>2, <1>6, <2>1, <2>3, <2>4, ResultIs DEF CostStep, HeldAfter
<1>7. CASE Skips(ev, i)
  <2>1. b = a /\ ~Opens(ev, i) /\ ~Trades(ev, "sell", i)
    BY <1>1, <1>7, EventKinds DEF InstStep, Skips
  <2>2. Result(ev, i, q) = Zero
    BY <1>2, <1>7, ResultIs
  <2>3. n ++ Zero = n
    BY <1>2, AddZero
  <2> QED
    BY <2>1, <2>2, <2>3 DEF CostStep, HeldAfter
<1> QED
  BY <1>4, <1>5, <1>6, <1>7, EventKinds

Results(events, i) ==
  [n \in DOMAIN events |-> Result(events[n], i, HeldIn(events, i)[n - 1])]

\* What is held is what the events left, and what it cost is accounted for.
CostKept ==
  \A i \in Instrument :
    /\ state.instruments[i].fifo.qty = HeldIn(log, i)[Len(log)]
    /\ FifoNative(state.instruments[i].fifo) = SumOf(Results(log, i))

LEMMA ResultsType ==
  ASSUME NEW events \in Seq(Event), NEW i
  PROVE  /\ Results(events, i) \in [1..Len(events) -> Rat]
         /\ \A n \in 1..Len(events) :
              Results(events, i)[n] = Result(events[n], i, HeldIn(events, i)[n - 1])
<1>1. /\ DOMAIN events = 1..Len(events) /\ Len(events) \in Nat
      /\ \A n \in 1..Len(events) : EventOK(events[n])
  BY LogEvents
<1>2. \A n \in 1..Len(events) : HeldIn(events, i)[n - 1] \in Rat
  <2>1. \A n \in 1..Len(events) : n - 1 \in 0..Len(events)
    BY <1>1
  <2> QED
    BY <2>1, HeldProp DEF NotNeg
<1>3. \A n \in 1..Len(events) : Result(events[n], i, HeldIn(events, i)[n - 1]) \in Rat
  BY <1>1, <1>2, ResultIs
<1> QED
  BY <1>1, <1>3 DEF Results

LEMMA InitCost == Init => CostKept
<1> SUFFICES ASSUME Init, NEW i \in Instrument
             PROVE  /\ state.instruments[i].fifo.qty = HeldIn(log, i)[Len(log)]
                    /\ FifoNative(state.instruments[i].fifo) = SumOf(Results(log, i))
  BY DEF CostKept
<1>1. state.instruments[i] = EmptyInst /\ log = <<>>
  BY DEF Init
<1>2. /\ EmptyInst.fifo.qty = Zero /\ EmptyInst.fifo.lots = <<>>
      /\ EmptyInst.fifo.gross_native = Zero
  BY DEF EmptyInst, EmptyFifo
<1>3. FifoNative(EmptyInst.fifo) = Zero
  BY <1>2, CostEmpty, ZeroType, AddZero DEF FifoNative
<1>4. HeldIn(<<>>, i)[0] = Zero
  <2>1. <<>> \in Seq(Event)
    OBVIOUS
  <2> QED
    BY <2>1, HeldProp
<1>5. Results(<<>>, i) = <<>>
  BY DEF Results
<1>6. Len(<<>>) = 0
  OBVIOUS
<1> QED
  BY <1>1, <1>2, <1>3, <1>4, <1>5, <1>6, SumEmpty

\* The holdings of the longer log, and the sum of its results.
LEMMA HeldNext ==
  ASSUME NEW events \in Seq(Event), NEW later \in Seq(Event), NEW i,
         Len(later) = Len(events) + 1, \A n \in 1..Len(events) : later[n] = events[n]
  PROVE  /\ \A n \in 0..Len(events) : HeldIn(later, i)[n] = HeldIn(events, i)[n]
         /\ HeldIn(later, i)[Len(later)]
              = HeldAfter(HeldIn(events, i)[Len(events)], later[Len(later)], i)
         /\ SumOf(Results(later, i))
              = SumOf(Results(events, i))
                  ++ Result(later[Len(later)], i, HeldIn(events, i)[Len(events)])
<1> DEFINE N == Len(events)
           g == HeldIn(later, i)
           f == HeldIn(events, i)
           p == Results(events, i)
           r == Results(later, i)
<1>1. N \in Nat /\ N \in 0..N /\ N + 1 \in 1..Len(later) /\ (N + 1) - 1 = N
  OBVIOUS
<1>2. \A n \in 0..N : g[n] = f[n]
  <2>1. Len(events) <= Len(later)
    BY <1>1
  <2> QED
    BY <2>1, HeldSame
<1>3. g[N + 1] = HeldAfter(g[(N + 1) - 1], later[N + 1], i)
  BY <1>1, HeldProp
<1>4. /\ p \in [1..N -> Rat] /\ r \in [1..N + 1 -> Rat]
      /\ \A n \in 1..N : p[n] = Result(events[n], i, f[n - 1])
      /\ \A n \in 1..N + 1 : r[n] = Result(later[n], i, g[n - 1])
  BY ResultsType
<1> HIDE DEF g, f, p, r
<1>5. \A n \in 1..N : r[n] = p[n]
  <2> SUFFICES ASSUME NEW n \in 1..N PROVE r[n] = p[n]
    OBVIOUS
  <2>1. n \in 1..N + 1 /\ n - 1 \in 0..N
    BY <1>1
  <2> QED
    BY <1>2, <1>4, <2>1
<1>6. r[N + 1] = Result(later[N + 1], i, f[N])
  BY <1>1, <1>2, <1>4
<1>7. SumOf(r) = SumOf(p) ++ r[N + 1]
  BY <1>1, <1>4, <1>5, SumExtended
<1> QED
  BY <1>1, <1>2, <1>3, <1>6, <1>7 DEF g, f, p, r

LEMMA NextCost == Books /\ CostKept /\ [Next]_vars => CostKept'
<1> SUFFICES ASSUME Books, CostKept, [Next]_vars PROVE CostKept'
  OBVIOUS
<1>1. ASSUME NEW ev \in Event, accumulate(ev) PROVE CostKept'
  <2> SUFFICES ASSUME NEW i \in Instrument
               PROVE  /\ state'.instruments[i].fifo.qty = HeldIn(log', i)[Len(log')]
                      /\ FifoNative(state'.instruments[i].fifo) = SumOf(Results(log', i))
    BY DEF CostKept, FifoNative, NativeCost, Total
  <2>1. /\ EventStep(state, state', ev) /\ log' \in Seq(Event) /\ log \in Seq(Event)
        /\ Len(log') = Len(log) + 1 /\ log'[Len(log')] = ev
        /\ sid = Len(log') /\ sid \in Nat
        /\ \A n \in 1..Len(log) : log'[n] = log[n]
    BY <1>1, Accumulated DEF Books
  <2>2. EventOK(ev) /\ Sound(state)
    BY EventAssumption DEF Books
  <2>3. CostStep(state.instruments[i], state'.instruments[i], ev, i)
    BY <2>1, <2>2, StepCost
  <2>4. /\ HeldIn(log', i)[Len(log')] = HeldAfter(HeldIn(log, i)[Len(log)], ev, i)
        /\ SumOf(Results(log', i))
             = SumOf(Results(log, i)) ++ Result(ev, i, HeldIn(log, i)[Len(log)])
    BY <2>1, HeldNext
  <2> QED
    BY <2>3, <2>4 DEF CostKept, CostStep
<1>2. CASE UNCHANGED vars
  BY <1>2 DEF vars, CostKept, FifoNative, NativeCost, Total
<1> QED
  BY <1>1, <1>2 DEF Next

LEMMA CostsKept == Books /\ CostKept => CostConserved
<1> SUFFICES ASSUME Books, CostKept, NEW i \in Instrument
             PROVE  LET inst == state.instruments[i]
                    IN  /\ inst.fifo.qty = Held(i)[Len(log)]
                        /\ inst.avg.qty = Held(i)[Len(log)]
                        /\ inst.fifo.gross_native =
                             LogTotal(LAMBDA n : Result(log[n], i, Held(i)[n - 1]))
                               ++ Total(inst.fifo.lots, LAMBDA lot : lot.qty ** lot.price)
  BY DEF CostConserved
<1> DEFINE inst == state.instruments[i]
           g == inst.fifo.gross_native
           c == NativeCost(inst.fifo.lots)
           s == SumOf(Results(log, i))
<1>1. InstOK(inst)
  BY DEF Books, Sound
<1>2. inst.fifo.qty = HeldIn(log, i)[Len(log)] /\ FifoNative(inst.fifo) = s
  BY DEF CostKept
<1>3. inst.avg.qty = inst.fifo.qty
  BY <1>1 DEF InstOK
<1>4. g \in Rat /\ inst.fifo.lots \in Seq(EquityLot)
  BY <1>1, InstFields DEF InstOK
<1>5. c \in Rat
  <2> HIDE DEF inst
  <2> QED
    BY <1>4, CostIs
<1>6. s = g -- c
  BY <1>2 DEF FifoNative
<1>7. s = LogTotal(LAMBDA n : Result(log[n], i, Held(i)[n - 1]))
  BY DEF LogTotal, Results, Held
<1>8. c = Total(inst.fifo.lots, LAMBDA lot : lot.qty ** lot.price)
  BY DEF NativeCost
<1>9. g = s ++ c
  <2> HIDE DEF g, c
  <2> QED
    BY <1>4, <1>5, <1>6, AddSub
<1> QED
  BY <1>2, <1>3, <1>7, <1>8, <1>9 DEF Held

\* Both accumulators hold what the trades and transfers left, and the profit
\* realised in native currency is what the sales brought in less what the lots
\* that are gone had cost, however much was sold (_fifo_close, _avg_close).
THEOREM FoldCosts == Spec => []CostConserved
<1>1. Init => Books /\ CostKept
  BY InitSound, InitCost
<1>2. Books /\ CostKept /\ [Next]_vars => (Books /\ CostKept)'
  BY NextSound, NextCost
<1>3. Books /\ CostKept => CostConserved
  BY CostsKept
<1> QED
  BY <1>1, <1>2, <1>3, PTL DEF Spec

(***************************************************************************)
(* The methods agree on the cost                                           *)
(***************************************************************************)

\* No sale of i among the events was of more than was held.
WithinHeld(events, i) ==
  \A n \in DOMAIN events :
    ~(Trades(events[n], "sell", i) /\ HeldIn(events, i)[n - 1] \prec events[n].qty)

\* Every sale of i had an FX rate of its own.
WithRates(events, i) ==
  \A n \in DOMAIN events : Trades(events[n], "sell", i) => RealisesFx(events[n])

CostsAgree ==
  \A i \in Instrument : WithinHeld(log, i) =>
    /\ FifoNative(state.instruments[i].fifo) = AvgNative(state.instruments[i].avg)
    /\ WithRates(log, i) =>
         FifoBase(state.instruments[i].fifo) = AvgBase(state.instruments[i].avg)

LEMMA InitAgree == Init => CostsAgree
<1> SUFFICES ASSUME Init, NEW i \in Instrument
             PROVE  /\ FifoNative(state.instruments[i].fifo) = AvgNative(state.instruments[i].avg)
                    /\ FifoBase(state.instruments[i].fifo) = AvgBase(state.instruments[i].avg)
  BY DEF CostsAgree
<1>1. state.instruments[i] = EmptyInst
  BY DEF Init
<1>2. /\ EmptyInst.fifo.lots = <<>> /\ EmptyInst.fifo.gross_native = Zero
      /\ EmptyInst.fifo.gross_base = Zero /\ EmptyInst.avg.gross_native = Zero
      /\ EmptyInst.avg.gross_base = Zero /\ EmptyInst.avg.qty = Zero
      /\ EmptyInst.avg.native = Zero /\ EmptyInst.avg.base = Zero
  BY DEF EmptyInst, EmptyFifo, EmptyAvg
<1>3. Zero ** Zero = Zero
  BY ZeroType, MulUnit
<1> QED
  BY <1>1, <1>2, <1>3, CostEmpty DEF FifoNative, FifoBase, AvgNative, AvgBase

LEMMA StepAgree ==
  ASSUME NEW st, Sound(st), NEW s, NEW ev, EventStep(st, s, ev), EventOK(ev),
         sid \in Nat, NEW i \in Instrument,
         Trades(ev, "sell", i) => ev.qty \preceq st.instruments[i].fifo.qty
  PROVE  /\ FifoNative(st.instruments[i].fifo) = AvgNative(st.instruments[i].avg) =>
              FifoNative(s.instruments[i].fifo) = AvgNative(s.instruments[i].avg)
         /\ (/\ FifoBase(st.instruments[i].fifo) = AvgBase(st.instruments[i].avg)
             /\ Trades(ev, "sell", i) => RealisesFx(ev))
              => FifoBase(s.instruments[i].fifo) = AvgBase(s.instruments[i].avg)
<1> DEFINE a == st.instruments[i]
           b == s.instruments[i]
<1>1. InstStep(st, s, ev, i) /\ InstOK(a)
  BY DEF EventStep, Sound
<1>2. ASSUME NEW lot \in EquityLot, Opened(a, lot, sid, b)
      PROVE  /\ FifoNative(a.fifo) = AvgNative(a.avg) => FifoNative(b.fifo) = AvgNative(b.avg)
             /\ FifoBase(a.fifo) = AvgBase(a.avg) => FifoBase(b.fifo) = AvgBase(b.avg)
  <2> HIDE DEF a, b
  <2> QED
    BY <1>1, <1>2, OpenedCost
<1>3. CASE Trades(ev, "buy", i)
  <2>1. Traded(ev) /\ ev.iid = i /\ ev.side = "buy"
    BY <1>3 DEF Trades
  <2>2. Opened(a, TradedLot(st, ev), sid, b)
    BY <1>1, <2>1 DEF InstStep
  <2>3. TradedLot(st, ev) \in EquityLot
    BY <2>1, LotOf
  <2> QED
    BY <1>2, <2>2, <2>3
<1>4. CASE Receives(ev, i)
  <2>1. Transfers(ev) /\ ev.iid = i
    BY <1>4 DEF Receives, Transfers
  <2>2. Opened(a, TransferLot(ev), sid, b)
    BY <1>1, <2>1 DEF InstStep
  <2>3. TransferLot(ev) \in EquityLot
    BY <2>1, LotOf
  <2> QED
    BY <1>2, <2>2, <2>3
<1>5. CASE Trades(ev, "sell", i)
  <2>1. /\ Traded(ev) /\ ev.iid = i /\ ev.side = "sell" /\ ev.qty \in Rat
        /\ ev.qty \preceq a.fifo.qty
    BY <1>5 DEF Trades, EventOK, Traded
  <2>2. Closed(a, ev.qty, ev.price, TradeFx(st, ev), RealisesFx(ev), b)
    BY <1>1, <2>1 DEF InstStep
  <2>3. /\ FifoSold(a.fifo, ev.qty, ev.price, TradeFx(st, ev), RealisesFx(ev), b.fifo)
        /\ AvgSold(a.avg, ev.qty, ev.price, TradeFx(st, ev), RealisesFx(ev), b.avg)
    BY <2>2 DEF Closed
  <2>4. a.fifo.qty \in Rat /\ a.avg.qty = a.fifo.qty
    BY <1>1, InstTotals DEF InstOK
  <2>5. Lesser(ev.qty, a.fifo.qty) = ev.qty
    BY <2>1, <2>4, OrderFacts
  <2> HIDE DEF a, b
  <2>6. /\ FifoNative(b.fifo) = FifoNative(a.fifo) ++ (ev.qty ** ev.price)
        /\ AvgNative(b.avg) = AvgNative(a.avg) ++ (ev.qty ** ev.price)
    BY <2>1, <2>3, <2>4, <2>5 DEF FifoSold, AvgSold
  <2>7. RealisesFx(ev) =>
          /\ FifoBase(b.fifo) = FifoBase(a.fifo) ++ (ev.qty ** (ev.price ** TradeFx(st, ev)))
          /\ AvgBase(b.avg) = AvgBase(a.avg) ++ (ev.qty ** (ev.price ** TradeFx(st, ev)))
    BY <2>1, <2>3, <2>4, <2>5 DEF FifoSold, AvgSold
  <2> QED
    BY <1>5, <2>6, <2>7 DEF a, b
<1>6. CASE Skips(ev, i)
  <2>1. b = a
    BY <1>1, <1>6 DEF InstStep, Skips
  <2> QED
    BY <2>1
<1> QED
  BY <1>3, <1>4, <1>5, <1>6, EventKinds

LEMMA NextAgree == Books /\ CostKept /\ CostsAgree /\ [Next]_vars => CostsAgree'
<1> SUFFICES ASSUME Books, CostKept, CostsAgree, [Next]_vars PROVE CostsAgree'
  OBVIOUS
<1>1. ASSUME NEW ev \in Event, accumulate(ev) PROVE CostsAgree'
  <2> SUFFICES ASSUME NEW i \in Instrument, WithinHeld(log', i)
               PROVE  /\ FifoNative(state'.instruments[i].fifo)
                           = AvgNative(state'.instruments[i].avg)
                      /\ WithRates(log', i) =>
                           FifoBase(state'.instruments[i].fifo)
                             = AvgBase(state'.instruments[i].avg)
    BY DEF CostsAgree
  <2>1. /\ EventStep(state, state', ev) /\ log' \in Seq(Event) /\ log \in Seq(Event)
        /\ Len(log') = Len(log) + 1 /\ Len(log) \in Nat /\ log'[Len(log')] = ev
        /\ sid = Len(log') /\ sid \in Nat
        /\ \A n \in 1..Len(log) : log'[n] = log[n]
    BY <1>1, Accumulated DEF Books
  <2>2. EventOK(ev) /\ Sound(state)
    BY EventAssumption DEF Books
  <2>3. /\ DOMAIN log' = 1..Len(log') /\ DOMAIN log = 1..Len(log) /\ Len(log') \in DOMAIN log'
        /\ Len(log') - 1 = Len(log) /\ Len(log) \in 0..Len(log)
        /\ \A n \in 1..Len(log) : n - 1 \in 0..Len(log) /\ n \in 1..Len(log')
    BY <2>1
  <2>4. \A n \in 0..Len(log) : HeldIn(log', i)[n] = HeldIn(log, i)[n]
    BY <2>1, HeldNext
  <2>5. WithinHeld(log, i) /\ (WithRates(log', i) => WithRates(log, i))
    BY <2>1, <2>3, <2>4 DEF WithinHeld, WithRates
  <2>6. WithRates(log', i) => (Trades(ev, "sell", i) => RealisesFx(ev))
    BY <2>1, <2>3 DEF WithRates
  <2>7. ~(Trades(ev, "sell", i) /\ HeldIn(log', i)[Len(log)] \prec ev.qty)
    BY <2>1, <2>3 DEF WithinHeld
  <2>8. HeldIn(log', i)[Len(log)] = state.instruments[i].fifo.qty
    BY <2>3, <2>4 DEF CostKept
  <2>9. Trades(ev, "sell", i) => ev.qty \preceq state.instruments[i].fifo.qty
    <3> DEFINE q == state.instruments[i].fifo.qty
    <3>1. q \in Rat
      BY <2>2, InstTotals DEF Sound
    <3> HIDE DEF q
    <3>2. Trades(ev, "sell", i) => ev.qty \in Rat
      BY <2>2 DEF Trades, Traded, EventOK
    <3>3. Trades(ev, "sell", i) => ~(q \prec ev.qty)
      BY <2>7, <2>8 DEF q
    <3>4. Trades(ev, "sell", i) => ev.qty \preceq q
      BY <3>1, <3>2, <3>3, OrderFacts
    <3> QED
      BY <3>4 DEF q
  <2>10. /\ FifoNative(state.instruments[i].fifo) = AvgNative(state.instruments[i].avg)
         /\ WithRates(log, i) =>
              FifoBase(state.instruments[i].fifo) = AvgBase(state.instruments[i].avg)
    BY <2>5 DEF CostsAgree
  <2>11. FifoNative(state'.instruments[i].fifo) = AvgNative(state'.instruments[i].avg)
    BY <2>1, <2>2, <2>9, <2>10, StepAgree
  <2>12. ASSUME WithRates(log', i)
         PROVE  FifoBase(state'.instruments[i].fifo) = AvgBase(state'.instruments[i].avg)
    BY <2>1, <2>2, <2>5, <2>6, <2>9, <2>10, <2>12, StepAgree
  <2> QED
    BY <2>11, <2>12
<1>2. CASE UNCHANGED vars
  BY <1>2 DEF vars, CostsAgree
<1> QED
  BY <1>1, <1>2 DEF Next

LEMMA CostsDoAgree == Books /\ CostsAgree => CostMethodsAgree
<1> SUFFICES ASSUME Books, CostsAgree, NEW i \in Instrument, NeverOversold(i)
             PROVE  LET fifo == state.instruments[i].fifo
                        avg  == state.instruments[i].avg
                    IN  /\ fifo.gross_native
                             -- Total(fifo.lots, LAMBDA lot : lot.qty ** lot.price)
                             = avg.gross_native -- (avg.qty ** avg.native)
                        /\ AlwaysRealisesFx(i) =>
                             fifo.gross_base
                               -- Total(fifo.lots, LAMBDA lot : lot.qty ** (lot.price ** lot.fx))
                             = avg.gross_base -- (avg.qty ** avg.base)
  BY DEF CostMethodsAgree
<1>1. WithinHeld(log, i)
  BY DEF WithinHeld, NeverOversold, OversoldAt, Held
<1>2. AlwaysRealisesFx(i) => WithRates(log, i)
  BY DEF AlwaysRealisesFx, WithRates, RealisesFx
<1>3. /\ FifoNative(state.instruments[i].fifo) = AvgNative(state.instruments[i].avg)
      /\ WithRates(log, i) =>
           FifoBase(state.instruments[i].fifo) = AvgBase(state.instruments[i].avg)
  BY <1>1 DEF CostsAgree
<1> QED
  BY <1>2, <1>3 DEF FifoNative, FifoBase, AvgNative, AvgBase, NativeCost, BaseCost

\* FIFO and average cost tell the same story: on the FX gain of a currency that
\* is only converted, and on realised profit plus open cost of an instrument that
\* is never oversold (_bucket_drain, _fifo_close, _avg_close).
THEOREM FoldMethods == Spec => []MethodsAgree
<1>1. Init => Books /\ GapsClosed /\ CostKept /\ CostsAgree
  BY InitSound, InitGaps, InitCost, InitAgree
<1>2. Books /\ GapsClosed /\ CostKept /\ CostsAgree /\ [Next]_vars
        => (Books /\ GapsClosed /\ CostKept /\ CostsAgree)'
  BY NextSound, NextGaps, NextCost, NextAgree
<1>3. Books /\ GapsClosed /\ CostKept /\ CostsAgree => MethodsAgree
  BY GapsAgree, CostsDoAgree DEF MethodsAgree
<1> QED
  BY <1>1, <1>2, <1>3, PTL DEF Spec

(***************************************************************************)
(* What a sale emits                                                       *)
(***************************************************************************)

CycleEntry == [cycle_seq : Nat, pnl_base : Rat]
ClosureEntry ==
  [lot_id : Nat, entry : Nat, qty : Rat, entry_price : Rat, entry_fx_to_base : Rat,
   exit_price : Rat, exit_fx_to_base : Rat, realized_pnl_base : Rat]

Streams ==
  cycles \in [Instrument -> Seq(CycleEntry)] /\ closures \in [Instrument -> Seq(ClosureEntry)]

SaleClosures(st, ev) ==
  Closures(st.instruments[ev.iid].fifo, ev.qty, ev.price, TradeFx(st, ev), RealisesFx(ev))

LEMMA SaleEmits ==
  ASSUME Sound(state), NEW ev, EventOK(ev), sid \in Nat, apply_trade(ev)
  PROVE  /\ ev.side = "buy" => UNCHANGED <<closures, cycles>>
         /\ ev.side = "sell" =>
              /\ cycles' = [cycles EXCEPT ![ev.iid] =
                              @ \o Cycles(state.instruments[ev.iid], state'.instruments[ev.iid])]
              /\ closures' = [closures EXCEPT ![ev.iid] = @ \o SaleClosures(state, ev)]
<1> DEFINE paid == cash_leg(state, ev)
           fx == TradeFx(state, ev)
           old == state.instruments[ev.iid]
           new == close_qty(old, ev.qty, ev.price, fx, RealisesFx(ev))
<1>1. Traded(ev) /\ ev.type = "TRADE" /\ Positive(ev.qty)
  BY DEF apply_trade, Traded
<1>2. TradeOK(ev) /\ ev.iid \in Instrument
  BY <1>1 DEF TradeOK, EventOK
<1>3. WalletOK(paid)
  BY <1>1, <1>2, TradeLeg DEF Sound
<1>4. equity_leg(ev, paid, old, fx, RealisesFx(ev))
  BY DEF apply_trade, trade_legs, TradeFx, RealisesFx
<1>5. SaleClosures(state, ev) = Closures(old.fifo, ev.qty, ev.price, fx, RealisesFx(ev))
  BY DEF SaleClosures
<1> HIDE DEF paid, fx
<1>6. CASE equity_buy(ev, paid, fx)
  BY <1>6 DEF equity_buy
<1>7. CASE equity_sell(ev, paid, close_qty(old, ev.qty, ev.price, fx, RealisesFx(ev)),
                       Closures(old.fifo, ev.qty, ev.price, fx, RealisesFx(ev)))
  <2>1. /\ ev.side = "sell"
        /\ state' = [paid EXCEPT !.instruments[ev.iid] = new]
        /\ closures' = [closures EXCEPT ![ev.iid] =
                          @ \o Closures(old.fifo, ev.qty, ev.price, fx, RealisesFx(ev))]
        /\ cycles' = [cycles EXCEPT ![ev.iid] = @ \o Cycles(old, new)]
    BY <1>7 DEF equity_sell
  <2> HIDE DEF new
  <2>2. state'.instruments[ev.iid] = new
    <3>1. paid \in StateSet
      BY <1>3 DEF WalletOK, CashSound
    <3> QED
      BY <1>2, <2>1, <3>1 DEF StateSet
  <2> QED
    BY <1>5, <2>1, <2>2
<1> QED
  BY <1>4, <1>6, <1>7 DEF equity_leg

\* What an event emits for the instrument i.
Emits(ev, i) ==
  /\ cycles'[i] = IF Trades(ev, "sell", i)
                  THEN cycles[i] \o Cycles(state.instruments[i], state'.instruments[i])
                  ELSE cycles[i]
  /\ closures'[i] = IF Trades(ev, "sell", i)
                    THEN closures[i] \o SaleClosures(state, ev) ELSE closures[i]

LEMMA Emitted ==
  ASSUME Books, Streams, NEW ev \in Event, accumulate(ev)
  PROVE  /\ DOMAIN cycles' = Instrument /\ DOMAIN closures' = Instrument
         /\ cycles' = [i \in Instrument |-> cycles'[i]]
         /\ closures' = [i \in Instrument |-> closures'[i]]
         /\ \A i \in Instrument : Emits(ev, i)
<1>1. EventOK(ev) /\ Sound(state) /\ sid \in Nat
  <2>1. Len(log) \in Nat
    BY DEF Books
  <2> QED
    BY <2>1, EventAssumption DEF Books, sid
<1>2. CASE UNCHANGED <<closures, cycles>> /\ \A i \in Instrument : ~Trades(ev, "sell", i)
  BY <1>2 DEF Emits, Streams
<1>3. CASE apply_trade(ev)
  <2>1. Traded(ev) /\ ev.side \in {"buy", "sell"} /\ ev.iid \in Instrument
    BY <1>1, <1>3 DEF apply_trade, Traded, EventOK
  <2>2. CASE ev.side = "buy"
    <3>1. UNCHANGED <<closures, cycles>>
      BY <1>1, <1>3, <2>2, SaleEmits
    <3> QED
      BY <1>2, <2>2, <3>1 DEF Trades
  <2>3. CASE ev.side = "sell"
    <3> DEFINE cyc == Cycles(state.instruments[ev.iid], state'.instruments[ev.iid])
               cls == SaleClosures(state, ev)
    <3>1. /\ cycles' = [cycles EXCEPT ![ev.iid] = @ \o cyc]
          /\ closures' = [closures EXCEPT ![ev.iid] = @ \o cls]
      BY <1>1, <1>3, <2>3, SaleEmits
    <3>2. \A i \in Instrument : Trades(ev, "sell", i) <=> i = ev.iid
      BY <2>1, <2>3 DEF Trades
    <3> HIDE DEF cyc, cls
    <3>3. /\ DOMAIN cycles' = Instrument /\ DOMAIN closures' = Instrument
          /\ cycles' = [i \in Instrument |-> cycles'[i]]
          /\ closures' = [i \in Instrument |-> closures'[i]]
      BY <3>1 DEF Streams
    <3>4. ASSUME NEW i \in Instrument PROVE Emits(ev, i)
      <4>1. CASE i = ev.iid
        BY <2>1, <3>1, <3>2, <4>1 DEF Emits, Streams, cyc, cls
      <4>2. CASE i # ev.iid
        BY <2>1, <3>1, <3>2, <4>2 DEF Emits, Streams
      <4> QED
        BY <4>1, <4>2
    <3> QED
      BY <3>3, <3>4
  <2> QED
    BY <2>1, <2>2, <2>3
<1>4. CASE ~apply_trade(ev)
  <2>1. \/ apply_cashflow(ev) \/ apply_dividend(ev) \/ apply_transfer_in(ev)
        \/ apply_fx_conversion(ev) \/ apply_nothing(ev)
    BY <1>4 DEF accumulate
  <2>2. UNCHANGED <<closures, cycles>>
    BY <2>1 DEF apply_cashflow, apply_dividend, apply_transfer_in, apply_fx_conversion,
       apply_nothing, NoSideStream
  <2>3. ~Traded(ev)
    BY <2>1 DEF apply_cashflow, apply_dividend, apply_transfer_in, apply_fx_conversion,
       apply_nothing, Traded
  <2> QED
    BY <1>2, <2>2, <2>3 DEF Trades
<1> QED
  BY <1>3, <1>4

(***************************************************************************)
(* The cycles account for the profit                                       *)
(***************************************************************************)

PnlOf == [e \in CycleEntry |-> e.pnl_base]

\* held are the holdings after the first 0, 1, ..., N events.
CycleOK(inst, seq, held, N) ==
  /\ inst.fifo.gross_base = inst.cycle_pnl ++ ValSum(seq, PnlOf)
  /\ \A k \in 1..Len(seq) : seq[k].cycle_seq = k - 1
  /\ inst.cycle_count = Len(seq)
  /\ inst.cycle_open = NoEvent => inst.fifo.qty = Zero /\ inst.cycle_pnl = Zero
  /\ inst.cycle_open # NoEvent =>
       /\ inst.cycle_open \in 1..N
       /\ held[inst.cycle_open - 1] = Zero
       /\ \A k \in inst.cycle_open..N : Positive(held[k])

\* The holdings with one more event.
LongerHeld(f, g, N) ==
  f \in [0..N -> NotNeg] /\ g \in [0..N + 1 -> NotNeg] /\ \A n \in 0..N : g[n] = f[n]

LEMMA PnlType == PnlOf \in [CycleEntry -> Rat]
BY DEF PnlOf, CycleEntry

LEMMA HeldPositive ==
  ASSUME NEW h \in NotNeg
  PROVE  h \in Rat /\ (h # Zero <=> Positive(h))
BY NotNegative DEF NotNeg

\* A lot opens a cycle when nothing was held.
LEMMA CycleOpened ==
  ASSUME NEW a, InstOK(a), NEW b, NEW lot, NEW N \in Nat, Opened(a, lot, N + 1, b),
         NEW seq \in Seq(CycleEntry), NEW f, NEW g, LongerHeld(f, g, N),
         f[N] = a.fifo.qty, g[N + 1] = b.fifo.qty, b.fifo.qty # Zero,
         CycleOK(a, seq, f, N)
  PROVE  CycleOK(b, seq, g, N + 1)
<1>1. /\ N + 1 \in Nat /\ N \in 0..N /\ N + 1 \in 0..N + 1 /\ N + 1 # NoEvent
      /\ (N + 1) - 1 = N /\ \A k \in N + 1..N + 1 : k = N + 1
  BY DEF NoEvent
<1>2. Positive(g[N + 1]) /\ g[N] = f[N]
  BY <1>1, HeldPositive DEF LongerHeld
<1>3. /\ b.fifo.gross_base = a.fifo.gross_base /\ b.cycle_count = a.cycle_count
      /\ b.cycle_open = IF a.fifo.qty = Zero THEN N + 1 ELSE a.cycle_open
      /\ b.cycle_pnl = IF a.fifo.qty = Zero THEN Zero ELSE a.cycle_pnl
  BY DEF Opened
<1>4. CASE a.fifo.qty = Zero
  <2>1. a.cycle_open = NoEvent
    <3>1. ASSUME a.cycle_open # NoEvent PROVE FALSE
      <4>1. a.cycle_open \in 1..N /\ N \in a.cycle_open..N
        BY <3>1 DEF CycleOK
      <4>2. Positive(f[N])
        BY <3>1, <4>1 DEF CycleOK
      <4> QED
        BY <1>4, <4>2, ZeroType, NotNegative
    <3> QED
      BY <3>1
  <2>2. a.cycle_pnl = Zero
    BY <2>1 DEF CycleOK
  <2>3. b.cycle_open = N + 1 /\ b.cycle_pnl = Zero
    BY <1>3, <1>4
  <2>4. g[b.cycle_open - 1] = Zero /\ \A k \in b.cycle_open..N + 1 : Positive(g[k])
    BY <1>1, <1>2, <1>4, <2>3
  <2> QED
    BY <1>1, <1>3, <2>2, <2>3, <2>4 DEF CycleOK
<1>5. CASE a.fifo.qty # Zero
  <2>1. a.cycle_open # NoEvent /\ a.cycle_open \in 1..N
    BY <1>5 DEF CycleOK
  <2>2. b.cycle_open = a.cycle_open /\ b.cycle_pnl = a.cycle_pnl
    BY <1>3, <1>5
  <2>3. /\ a.cycle_open \in 1..N + 1 /\ a.cycle_open - 1 \in 0..N
        /\ \A k \in a.cycle_open..N + 1 : k = N + 1 \/ k \in a.cycle_open..N
        /\ \A k \in a.cycle_open..N : k \in 0..N
    BY <2>1
  <2>4. g[a.cycle_open - 1] = Zero
    BY <2>1, <2>3 DEF CycleOK, LongerHeld
  <2>5. \A k \in a.cycle_open..N + 1 : Positive(g[k])
    BY <1>2, <2>1, <2>3 DEF CycleOK, LongerHeld
  <2> QED
    BY <1>3, <2>1, <2>2, <2>3, <2>4, <2>5 DEF CycleOK
<1> QED
  BY <1>4, <1>5

\* A sale that leaves nothing ends the cycle.
LEMMA CycleClosed ==
  ASSUME NEW a, InstOK(a), NEW b, NEW N \in Nat, NEW qty \in Rat, Positive(qty), NEW price,
         NEW fx, NEW realize \in BOOLEAN, Closed(a, qty, price, fx, realize, b),
         NEW seq \in Seq(CycleEntry), NEW f, NEW g, LongerHeld(f, g, N),
         f[N] = a.fifo.qty, g[N + 1] = b.fifo.qty, CycleOK(a, seq, f, N)
  PROVE  /\ seq \o Cycles(a, b) \in Seq(CycleEntry)
         /\ CycleOK(b, seq \o Cycles(a, b), g, N + 1)
<1> DEFINE gain == b.fifo.gross_base -- a.fifo.gross_base
           pnl == a.cycle_pnl
           total == ValSum(seq, PnlOf)
           entry == [cycle_seq |-> a.cycle_count, pnl_base |-> pnl ++ gain]
<1>1. InstOK(b) /\ a.cycle_count \in Nat /\ a.cycle_open \in Nat /\ pnl \in Rat
      /\ a.fifo.gross_base \in Rat /\ b.fifo.gross_base \in Rat
  BY InstFields DEF Closed, InstOK
<1>2. gain \in Rat /\ total \in Rat /\ pnl ++ gain \in Rat
  BY <1>1, AddType, PnlType, ValsType
<1>3. a.fifo.gross_base = pnl ++ total
  BY DEF CycleOK
<1>4. b.fifo.gross_base = (pnl ++ gain) ++ total
  <2>1. b.fifo.gross_base = a.fifo.gross_base ++ gain
    BY <1>1, AddSub
  <2> HIDE DEF gain, pnl, total
  <2>2. (pnl ++ total) ++ gain = (pnl ++ gain) ++ total
    BY <1>1, <1>2, AddAssoc, AddComm
  <2> QED
    BY <1>3, <2>1, <2>2
<1>5. CASE b.fifo.qty = Zero /\ a.cycle_open # NoEvent
  <2>1. b.cycle_count = a.cycle_count + 1 /\ b.cycle_open = NoEvent /\ b.cycle_pnl = Zero
    BY <1>5 DEF Closed
  <2>2. Cycles(a, b) = <<entry>>
    BY <1>1, <2>1 DEF Cycles
  <2>3. entry \in CycleEntry /\ entry.pnl_base = pnl ++ gain /\ entry.cycle_seq = a.cycle_count
    BY <1>1, <1>2 DEF CycleEntry
  <2> HIDE DEF entry, pnl, gain
  <2>4. seq \o <<entry>> = Append(seq, entry)
    OBVIOUS
  <2>5. /\ Append(seq, entry) \in Seq(CycleEntry) /\ Len(Append(seq, entry)) = Len(seq) + 1
        /\ Append(seq, entry)[Len(seq) + 1] = entry /\ Len(seq) \in Nat
        /\ \A k \in 1..Len(seq) : Append(seq, entry)[k] = seq[k]
    BY <2>3
  <2>6. ValSum(Append(seq, entry), PnlOf) = total ++ (pnl ++ gain)
    <3>1. PnlOf[entry] = pnl ++ gain
      BY <2>3 DEF PnlOf
    <3> QED
      BY <2>3, <3>1, PnlType, ValSumAppend
  <2>7. b.fifo.gross_base = Zero ++ ValSum(Append(seq, entry), PnlOf)
    <3>1. total ++ (pnl ++ gain) = (pnl ++ gain) ++ total
      BY <1>2, AddComm
    <3>2. total ++ (pnl ++ gain) \in Rat
      BY <1>2, AddType
    <3> QED
      BY <1>4, <2>6, <3>1, <3>2, AddZero
  <2> DEFINE longer == Append(seq, entry)
  <2>8. \A k \in 1..Len(seq) + 1 : longer[k].cycle_seq = k - 1
    <3> SUFFICES ASSUME NEW k \in 1..Len(seq) + 1 PROVE longer[k].cycle_seq = k - 1
      OBVIOUS
    <3>1. CASE k \in 1..Len(seq)
      BY <2>5, <3>1 DEF CycleOK
    <3>2. CASE k = Len(seq) + 1
      BY <2>3, <2>5, <3>2 DEF CycleOK
    <3> QED
      BY <2>5, <3>1, <3>2
  <2> HIDE DEF longer
  <2>9. longer \in Seq(CycleEntry) /\ Len(longer) = Len(seq) + 1
        /\ b.fifo.gross_base = Zero ++ ValSum(longer, PnlOf)
    BY <2>5, <2>7 DEF longer
  <2>10. CycleOK(b, longer, g, N + 1)
    BY <1>5, <2>1, <2>8, <2>9 DEF CycleOK
  <2> QED
    BY <2>2, <2>4, <2>9, <2>10 DEF longer
<1>6. CASE ~(b.fifo.qty = Zero /\ a.cycle_open # NoEvent)
  <2>1. /\ b.cycle_count = a.cycle_count /\ b.cycle_open = a.cycle_open
        /\ b.cycle_pnl = pnl ++ gain
    BY <1>6 DEF Closed
  <2>2. Cycles(a, b) = <<>> /\ seq \o <<>> = seq
    BY <2>1 DEF Cycles
  <2>3. CASE a.cycle_open = NoEvent
    <3>1. a.fifo.qty = Zero /\ pnl = Zero
      BY <2>3 DEF CycleOK
    <3>2. a.fifo.lots = <<>> /\ Zero \preceq qty
      BY <3>1, InstTotals, NotNegative
    <3>3. BaseTaken(a.fifo.lots, qty, price, fx, realize) = Zero
      BY <3>2, NoLots
    <3>4. b.fifo.gross_base = a.fifo.gross_base ++ Zero
      BY <3>3 DEF Closed, FifoSold
    <3>5. gain = Zero
      BY <1>1, <3>4, AddZero
    <3>6. b.fifo.qty = Zero
      <4>1. Rest(a.fifo.lots, qty) = <<>>
        BY <3>2, NoLots
      <4> QED
        BY <4>1, TotalEmpty DEF Closed, FifoSold
    <3>7. pnl ++ gain = Zero
      BY <3>1, <3>5, ZeroType, AddZero
    <3> QED
      BY <1>4, <2>1, <2>2, <2>3, <3>6, <3>7 DEF CycleOK
  <2>4. CASE a.cycle_open # NoEvent
    <3>1. b.fifo.qty # Zero
      BY <1>6, <2>4
    <3>2. N + 1 \in 0..N + 1
      OBVIOUS
    <3>3. Positive(g[N + 1])
      BY <3>1, <3>2, HeldPositive DEF LongerHeld
    <3>4. a.cycle_open \in 1..N
      BY <2>4 DEF CycleOK
    <3>5. /\ a.cycle_open \in 1..N + 1 /\ a.cycle_open - 1 \in 0..N
          /\ \A k \in a.cycle_open..N + 1 : k = N + 1 \/ k \in a.cycle_open..N
          /\ \A k \in a.cycle_open..N : k \in 0..N
      BY <3>4
    <3>6. g[a.cycle_open - 1] = Zero
      BY <2>4, <3>5 DEF CycleOK, LongerHeld
    <3>7. \A k \in a.cycle_open..N + 1 : Positive(g[k])
      BY <2>4, <3>3, <3>5 DEF CycleOK, LongerHeld
    <3> QED
      BY <1>4, <2>1, <2>2, <2>4, <3>5, <3>6, <3>7 DEF CycleOK
  <2> QED
    BY <2>3, <2>4
<1> QED
  BY <1>5, <1>6

LEMMA CycleSkipped ==
  ASSUME NEW a, NEW N \in Nat, NEW seq \in Seq(CycleEntry), NEW f, NEW g, LongerHeld(f, g, N),
         g[N + 1] = f[N], CycleOK(a, seq, f, N)
  PROVE  CycleOK(a, seq, g, N + 1)
<1>1. CASE a.cycle_open = NoEvent
  BY <1>1 DEF CycleOK
<1>2. CASE a.cycle_open # NoEvent
  <2>1. a.cycle_open \in 1..N
    BY <1>2 DEF CycleOK
  <2>2. /\ a.cycle_open \in 1..N + 1 /\ a.cycle_open - 1 \in 0..N /\ N \in a.cycle_open..N
        /\ \A k \in a.cycle_open..N + 1 : k = N + 1 \/ k \in a.cycle_open..N
        /\ \A k \in a.cycle_open..N : k \in 0..N
    BY <2>1
  <2>3. g[a.cycle_open - 1] = Zero
    BY <1>2, <2>2 DEF CycleOK, LongerHeld
  <2>4. \A k \in a.cycle_open..N + 1 : Positive(g[k])
    BY <1>2, <2>2 DEF CycleOK, LongerHeld
  <2> QED
    BY <1>2, <2>2, <2>3, <2>4 DEF CycleOK
<1> QED
  BY <1>1, <1>2

CyclesKept ==
  \A i \in Instrument :
    CycleOK(state.instruments[i], cycles[i], HeldIn(log, i), Len(log))

LEMMA InitCycles == Init => Streams /\ CyclesKept
<1> SUFFICES ASSUME Init PROVE Streams /\ CyclesKept
  OBVIOUS
<1>1. Streams
  BY DEF Init, Streams
<1>2. ASSUME NEW i \in Instrument
      PROVE  CycleOK(state.instruments[i], cycles[i], HeldIn(log, i), Len(log))
  <2>1. state.instruments[i] = EmptyInst /\ cycles[i] = <<>>
    BY DEF Init
  <2>2. /\ EmptyInst.fifo.gross_base = Zero /\ EmptyInst.cycle_pnl = Zero
        /\ EmptyInst.cycle_count = 0 /\ EmptyInst.cycle_open = NoEvent
        /\ EmptyInst.fifo.qty = Zero
    BY DEF EmptyInst, EmptyFifo
  <2>3. ValSum(<<>>, PnlOf) = Zero /\ Zero ++ Zero = Zero
    BY ValSumEmpty, ZeroType, AddZero
  <2>4. Len(<<>>) = 0 /\ 1..0 = {}
    OBVIOUS
  <2> QED
    BY <2>1, <2>2, <2>3, <2>4 DEF CycleOK
<1> QED
  BY <1>1, <1>2 DEF CyclesKept

LEMMA StepCycle ==
  ASSUME NEW st, Sound(st), NEW s, NEW ev, EventStep(st, s, ev), EventOK(ev),
         NEW N \in Nat, sid = N + 1, NEW i \in Instrument,
         NEW seq \in Seq(CycleEntry), NEW f, NEW g, LongerHeld(f, g, N),
         f[N] = st.instruments[i].fifo.qty, g[N + 1] = s.instruments[i].fifo.qty,
         CycleOK(st.instruments[i], seq, f, N),
         NEW longer, longer = IF Trades(ev, "sell", i)
                              THEN seq \o Cycles(st.instruments[i], s.instruments[i]) ELSE seq
  PROVE  longer \in Seq(CycleEntry) /\ CycleOK(s.instruments[i], longer, g, N + 1)
<1> DEFINE a == st.instruments[i]
           b == s.instruments[i]
<1>1. InstStep(st, s, ev, i) /\ InstOK(a) /\ sid \in Nat
  BY DEF EventStep, Sound
<1>2. ASSUME NEW lot, Opened(a, lot, sid, b), lot.qty \in Rat, Positive(lot.qty), longer = seq
      PROVE  longer \in Seq(CycleEntry) /\ CycleOK(b, longer, g, N + 1)
  <2>1. b.fifo.qty # Zero
    <3>1. a.fifo.qty \in Rat /\ Zero \preceq a.fifo.qty
      BY <1>1, InstTotals
    <3>2. b.fifo.qty = a.fifo.qty ++ lot.qty
      BY <1>2 DEF Opened
    <3> HIDE DEF a, b
    <3>3. Zero \preceq lot.qty
      BY <1>2, NotNegative
    <3>4. Positive(b.fifo.qty) /\ b.fifo.qty \in Rat
      BY <1>2, <3>1, <3>2, <3>3, NonNegativeSum, AddType
    <3> QED
      BY <3>4, NotNegative
  <2> HIDE DEF a, b
  <2>2. CycleOK(b, seq, g, N + 1)
    BY <1>1, <1>2, <2>1, CycleOpened DEF a, b
  <2> QED
    BY <1>2, <2>2
<1>3. CASE Trades(ev, "buy", i)
  <2>1. Traded(ev) /\ ev.iid = i /\ ev.side = "buy" /\ ev.qty \in Rat /\ Positive(ev.qty)
    BY <1>3 DEF Trades, Traded, EventOK
  <2>2. Opened(a, TradedLot(st, ev), sid, b)
    BY <1>1, <2>1 DEF InstStep
  <2>3. TradedLot(st, ev).qty = ev.qty
    BY <1>1, <2>1, LotOf
  <2>4. longer = seq
    BY <1>3, EventKinds
  <2> QED
    BY <1>2, <2>1, <2>2, <2>3, <2>4
<1>4. CASE Receives(ev, i)
  <2>1. Transfers(ev) /\ ev.iid = i /\ ev.qty \in Rat /\ Positive(ev.qty)
    BY <1>4 DEF Receives, Transfers, EventOK
  <2>2. Opened(a, TransferLot(ev), sid, b)
    BY <1>1, <2>1 DEF InstStep
  <2>3. TransferLot(ev).qty = ev.qty
    BY <1>1, <2>1, LotOf
  <2>4. longer = seq
    BY <1>4, EventKinds
  <2> QED
    BY <1>2, <2>1, <2>2, <2>3, <2>4
<1>5. CASE Trades(ev, "sell", i)
  <2>1. /\ Traded(ev) /\ ev.iid = i /\ ev.side = "sell" /\ ev.qty \in Rat /\ Positive(ev.qty)
        /\ RealisesFx(ev) \in BOOLEAN
    BY <1>5 DEF Trades, EventOK, Traded, RealisesFx
  <2>2. Closed(a, ev.qty, ev.price, TradeFx(st, ev), RealisesFx(ev), b)
    BY <1>1, <2>1 DEF InstStep
  <2>3. longer = seq \o Cycles(a, b)
    BY <1>5
  <2>4. /\ seq \o Cycles(a, b) \in Seq(CycleEntry)
        /\ CycleOK(b, seq \o Cycles(a, b), g, N + 1)
    <3>1. f[N] = a.fifo.qty /\ g[N + 1] = b.fifo.qty /\ CycleOK(a, seq, f, N)
      OBVIOUS
    <3> HIDE DEF a, b
    <3> QED
      BY <1>1, <2>1, <2>2, <3>1, CycleClosed
  <2> QED
    BY <2>3, <2>4
<1>6. CASE Skips(ev, i)
  <2>1. b = a
    BY <1>1, <1>6 DEF InstStep, Skips
  <2>2. longer = seq
    BY <1>6, EventKinds
  <2>3. g[N + 1] = f[N]
    BY <2>1
  <2>4. CycleOK(a, seq, g, N + 1)
    <3> HIDE DEF a
    <3> QED
      BY <2>3, CycleSkipped DEF a
  <2> QED
    BY <2>1, <2>2, <2>4
<1> QED
  BY <1>3, <1>4, <1>5, <1>6, EventKinds

LEMMA HeldLonger ==
  ASSUME NEW events \in Seq(Event), NEW later \in Seq(Event), NEW i,
         Len(later) = Len(events) + 1, \A n \in 1..Len(events) : later[n] = events[n]
  PROVE  LongerHeld(HeldIn(events, i), HeldIn(later, i), Len(events))
BY HeldProp, HeldNext DEF LongerHeld

LEMMA NextCycles ==
  Books /\ Streams /\ CostKept /\ CostKept' /\ CyclesKept /\ [Next]_vars
    => (cycles \in [Instrument -> Seq(CycleEntry)])' /\ CyclesKept'
<1> SUFFICES ASSUME Books, Streams, CostKept, CostKept', CyclesKept, [Next]_vars
             PROVE  (cycles \in [Instrument -> Seq(CycleEntry)])' /\ CyclesKept'
  OBVIOUS
<1>1. ASSUME NEW ev \in Event, accumulate(ev)
      PROVE  cycles' \in [Instrument -> Seq(CycleEntry)] /\ CyclesKept'
  <2>1. /\ EventStep(state, state', ev) /\ log' \in Seq(Event) /\ log \in Seq(Event)
        /\ Len(log') = Len(log) + 1 /\ Len(log) \in Nat
        /\ sid = Len(log) + 1
        /\ \A n \in 1..Len(log) : log'[n] = log[n]
    BY <1>1, Accumulated DEF Books
  <2>2. EventOK(ev) /\ Sound(state)
    BY EventAssumption DEF Books
  <2>3. /\ cycles' = [i \in Instrument |-> cycles'[i]]
        /\ \A i \in Instrument : Emits(ev, i)
    BY <1>1, Emitted
  <2>4. ASSUME NEW i \in Instrument
        PROVE  /\ cycles'[i] \in Seq(CycleEntry)
               /\ CycleOK(state'.instruments[i], cycles'[i], HeldIn(log', i), Len(log'))
    <3> DEFINE N == Len(log)
               f == HeldIn(log, i)
               g == HeldIn(log', i)
               seq == cycles[i]
               longer == cycles'[i]
    <3>1. LongerHeld(f, g, N)
      BY <2>1, HeldLonger
    <3>2. f[N] = state.instruments[i].fifo.qty
      BY DEF CostKept
    <3>3. g[N + 1] = state'.instruments[i].fifo.qty
      BY <2>1 DEF CostKept
    <3>4. seq \in Seq(CycleEntry) /\ CycleOK(state.instruments[i], seq, f, N)
      BY DEF Streams, CyclesKept
    <3>5. longer = IF Trades(ev, "sell", i)
                   THEN seq \o Cycles(state.instruments[i], state'.instruments[i]) ELSE seq
      BY <2>3 DEF Emits
    <3> HIDE DEF N, f, g, seq, longer
    <3>6. longer \in Seq(CycleEntry) /\ CycleOK(state'.instruments[i], longer, g, N + 1)
      <4>1. N \in Nat /\ sid = N + 1
        BY <2>1 DEF N
      <4> QED
        BY <2>1, <2>2, <3>1, <3>2, <3>3, <3>4, <3>5, <4>1, StepCycle
    <3> QED
      BY <2>1, <3>6 DEF N, g, longer
  <2>5. cycles' \in [Instrument -> Seq(CycleEntry)]
    BY <2>3, <2>4
  <2>6. CyclesKept'
    BY <2>4 DEF CyclesKept
  <2> QED
    BY <2>5, <2>6
<1>2. CASE UNCHANGED vars
  BY <1>2 DEF vars, CyclesKept, Streams
<1> QED
  BY <1>1, <1>2 DEF Next

LEMMA CyclesDoAccount == Books /\ Streams /\ CostKept /\ CyclesKept => CyclesAccount
<1> SUFFICES ASSUME Books, Streams, CostKept, CyclesKept, NEW i \in Instrument
             PROVE  LET inst == state.instruments[i] IN
                    /\ inst.fifo.gross_base
                         = inst.cycle_pnl ++ Total(cycles[i], LAMBDA e : e.pnl_base)
                    /\ \A n \in DOMAIN cycles[i] : cycles[i][n].cycle_seq = n - 1
                    /\ inst.cycle_count = Len(cycles[i])
                    /\ IF inst.cycle_open = NoEvent THEN Held(i)[Len(log)] = Zero
                       ELSE /\ Held(i)[inst.cycle_open - 1] = Zero
                            /\ \A n \in inst.cycle_open..Len(log) : Positive(Held(i)[n])
  BY DEF CyclesAccount
<1> DEFINE seq == cycles[i]
<1>1. seq \in Seq(CycleEntry) /\ CycleOK(state.instruments[i], seq, HeldIn(log, i), Len(log))
  BY DEF Streams, CyclesKept
<1>2. state.instruments[i].fifo.qty = Held(i)[Len(log)]
  BY DEF CostKept, Held
<1>3. Total(seq, LAMBDA e : e.pnl_base) = ValSum(seq, PnlOf)
  <2> HIDE DEF seq
  <2>1. \A n \in DOMAIN seq : PnlOf[seq[n]] = seq[n].pnl_base
    BY <1>1 DEF PnlOf
  <2>2. [n \in DOMAIN seq |-> seq[n].pnl_base] = [n \in DOMAIN seq |-> PnlOf[seq[n]]]
    BY <2>1
  <2> QED
    BY <2>2 DEF Total, ValSum, Vals
<1>4. DOMAIN seq = 1..Len(seq)
  BY <1>1
<1> HIDE DEF seq
<1> QED
  BY <1>1, <1>2, <1>3, <1>4 DEF CycleOK, seq, Held

(***************************************************************************)
(* The oldest lots are taken first                                         *)
(***************************************************************************)

\* A lot is taken from only when all older ones are taken in full.
LEMMA TakenFirst ==
  ASSUME NEW L, LotSet(L), NEW lots \in Seq(L), AllPositive(lots), NEW amount \in Rat,
         NEW j \in 1..Len(lots), Taken(lots, amount)[j] # Zero, NEW k \in 1..j - 1
  PROVE  Taken(lots, amount)[k] = lots[k].qty
<1> DEFINE N == Len(lots)
           q == Qtys(lots)
           t == Taken(lots, amount)
<1>1. N \in Nat /\ DOMAIN lots = 1..N
  OBVIOUS
<1>2. /\ q \in Seq(Rat) /\ Len(q) = N
      /\ \A i \in 1..N : q[i] = lots[i].qty /\ lots[i].qty \in Rat
  BY QtysType
<1>3. \A i \in 1..N : Positive(lots[i].qty) /\ Zero \preceq q[i]
  BY <1>1, <1>2, NotNegative DEF AllPositive
<1>4. t = [i \in 1..N |-> Greater(Zero, Lesser(lots[i].qty, amount -- Sums(q)[i - 1]))]
  BY <1>1 DEF Taken, Qtys
<1>5. /\ \A i \in 1..N : Sums(q)[i] = Sums(q)[i - 1] ++ q[i]
      /\ \A i \in 0..N : Sums(q)[i] \in Rat
  BY <1>2, SumsProp
<1>6. /\ j \in 1..N /\ k \in 1..N /\ j - 1 \in 0..N /\ k \in 0..N /\ k - 1 \in 0..N
      /\ j - 1 \in k..N
  BY <1>1
<1>7. Sums(q)[k] \preceq Sums(q)[j - 1]
  <2> HIDE DEF q
  <2> QED
    BY <1>2, <1>3, <1>6, SumsGrow
<1> DEFINE s == Sums(q)[j - 1]
           u == Sums(q)[k]
           v == Sums(q)[k - 1]
           x == lots[k].qty
           y == lots[j].qty
<1>8. /\ s \in Rat /\ u \in Rat /\ v \in Rat /\ x \in Rat /\ y \in Rat
      /\ Positive(x) /\ Positive(y) /\ u = v ++ x /\ u \preceq s
  BY <1>2, <1>3, <1>5, <1>6, <1>7
<1>9. /\ t[j] = Greater(Zero, Lesser(y, amount -- s))
      /\ t[k] = Greater(Zero, Lesser(x, amount -- v))
  BY <1>4, <1>6
<1>10. t[j] # Zero
  OBVIOUS
<1> HIDE DEF N, q, t, s, u, v, x, y
<1>11. amount -- s \in Rat /\ amount -- v \in Rat /\ amount -- u \in Rat
  BY <1>8, AddType
<1>12. Positive(amount -- s)
  <2>1. ASSUME ~Positive(amount -- s) PROVE t[j] = Zero
    <3>1. (amount -- s) \preceq Zero
      BY <1>11, <2>1, ZeroType, OrderFacts DEF Positive
    <3>2. Zero \preceq y
      BY <1>8, NotNegative
    <3>3. (amount -- s) \preceq y
      BY <1>8, <1>11, <3>1, <3>2, ZeroType, OrderTrans
    <3>4. Lesser(y, amount -- s) = amount -- s
      BY <1>8, <1>11, <3>3, OrderFacts
    <3>5. Greater(Zero, amount -- s) = Zero
      BY <1>11, <3>1, ZeroType, OrderFacts
    <3> QED
      BY <1>9, <3>4, <3>5
  <2> QED
    BY <1>10, <2>1
<1>13. u \preceq amount
  <2>1. s \prec amount
    BY <1>8, <1>12, OrderFacts
  <2> QED
    BY <1>8, <2>1, OrderFacts, OrderTrans
<1>14. x \preceq (amount -- v)
  <2>1. Zero \preceq (amount -- u)
    BY <1>8, <1>13, OrderFacts
  <2>2. (amount -- v) -- x = amount -- u
    BY <1>8, SubSub
  <2> QED
    BY <1>8, <1>11, <2>1, <2>2, OrderFacts
<1>15. Lesser(x, amount -- v) = x
  BY <1>8, <1>11, <1>14, OrderFacts
<1>16. Greater(Zero, x) = x
  <2>1. Zero \preceq x
    BY <1>8, NotNegative
  <2> QED
    BY <1>8, <2>1, ZeroType, OrderFacts
<1>17. t[k] = x
  BY <1>9, <1>15, <1>16
<1> QED
  BY <1>17 DEF t, x

\* The lots are in the order of the events that opened them, of the first N.
InOrder(lots, N) ==
  /\ \A a \in 1..Len(lots) : lots[a].entry <= N
  /\ \A a \in 1..Len(lots) : \A b \in 1..a : lots[b].entry <= lots[a].entry

LEMMA OrderAppend ==
  ASSUME NEW lots \in Seq(EquityLot), NEW N \in Nat, NEW M \in Nat, N <= M, InOrder(lots, N),
         NEW l \in EquityLot, N <= l.entry, l.entry <= M
  PROVE  InOrder(Append(lots, l), M)
<1> DEFINE t == Append(lots, l)
           K == Len(lots)
<1>1. /\ K \in Nat /\ Len(t) = K + 1 /\ t[K + 1] = l
      /\ \A a \in 1..K : t[a] = lots[a] /\ lots[a] \in EquityLot
  OBVIOUS
<1>2. l.entry \in Nat /\ \A a \in 1..K : lots[a].entry \in Nat /\ lots[a].entry <= N
  BY <1>1, LotFields DEF InOrder
<1>3. \A a \in 1..K + 1 : a \in 1..K \/ a = K + 1
  BY <1>1
<1> HIDE DEF t
<1>4. \A a \in 1..K + 1 : t[a].entry <= M
  <2> SUFFICES ASSUME NEW a \in 1..K + 1 PROVE t[a].entry <= M
    OBVIOUS
  <2> QED
    BY <1>1, <1>2, <1>3
<1>5. \A a \in 1..K + 1 : \A b \in 1..a : t[b].entry <= t[a].entry
  <2> SUFFICES ASSUME NEW a \in 1..K + 1, NEW b \in 1..a PROVE t[b].entry <= t[a].entry
    OBVIOUS
  <2>1. CASE a \in 1..K
    <3>1. b \in 1..K
      BY <1>1, <2>1
    <3> QED
      BY <1>1, <2>1, <3>1 DEF InOrder
  <2>2. CASE a = K + 1 /\ b = K + 1
    BY <1>1, <1>2, <2>2
  <2>3. CASE a = K + 1 /\ b # K + 1
    <3>1. b \in 1..K
      BY <1>1, <2>3
    <3> QED
      BY <1>1, <1>2, <2>3, <3>1
  <2> QED
    BY <1>3, <2>1, <2>2, <2>3
<1> QED
  BY <1>1, <1>4, <1>5 DEF InOrder, t

\* What a loop keeps is in the same order.
LEMMA KeptOrder ==
  ASSUME NEW lots \in Seq(EquityLot), NEW N \in Nat, InOrder(lots, N)
  PROVE  InOrder(Kept(lots), N)
<1> DEFINE k == KeptFn(lots)
           K == Len(lots)
           LastId(j) == IF j = 0 THEN 0 ELSE lots[j].entry
           S == {j \in Nat : j <= K => InOrder(k[j], LastId(j))}
<1>0. /\ k \in [0..K -> Seq(EquityLot)] /\ k[0] = <<>>
      /\ \A i \in 1..K : k[i] = IF Positive(lots[i].qty)
                                THEN Append(k[i - 1], lots[i]) ELSE k[i - 1]
      /\ Kept(lots) = k[K]
  BY KeptProp
<1>1. K \in Nat /\ \A i \in 1..K : lots[i] \in EquityLot /\ lots[i].entry \in Nat
  <2>1. K \in Nat /\ \A i \in 1..K : lots[i] \in EquityLot
    OBVIOUS
  <2> QED
    BY <2>1, LotFields
<1>2. /\ \A j \in 0..K : LastId(j) \in Nat
      /\ \A j \in 0..K : LastId(j) <= N
      /\ \A j \in 1..K : LastId(j - 1) <= lots[j].entry /\ LastId(j) = lots[j].entry
  <2>1. \A j \in 0..K : j = 0 \/ j \in 1..K
    BY <1>1
  <2>2. \A j \in 1..K : j - 1 = 0 \/ (j - 1 \in 1..K /\ j - 1 \in 1..j)
    BY <1>1
  <2>3. \A j \in 1..K : LastId(j) = lots[j].entry /\ j # 0
    BY <1>1
  <2>4. LastId(0) = 0
    OBVIOUS
  <2> HIDE DEF LastId
  <2>5. \A j \in 1..K : LastId(j - 1) <= lots[j].entry
    <3> SUFFICES ASSUME NEW j \in 1..K PROVE LastId(j - 1) <= lots[j].entry
      OBVIOUS
    <3>1. CASE j - 1 = 0
      BY <1>1, <2>4, <3>1
    <3>2. CASE j - 1 \in 1..K /\ j - 1 \in 1..j
      BY <2>3, <3>2 DEF InOrder
    <3> QED
      BY <2>2, <3>1, <3>2
  <2>6. \A j \in 0..K : LastId(j) \in Nat /\ LastId(j) <= N
    <3> SUFFICES ASSUME NEW j \in 0..K PROVE LastId(j) \in Nat /\ LastId(j) <= N
      OBVIOUS
    <3>1. CASE j = 0
      BY <2>4, <3>1
    <3>2. CASE j \in 1..K
      BY <1>1, <2>3, <3>2 DEF InOrder
    <3> QED
      BY <2>1, <3>1, <3>2
  <2> QED
    BY <2>3, <2>5, <2>6
<1> HIDE DEF k, K, Last
<1>3. ASSUME NEW q, NEW a \in Nat, NEW b \in Nat, a <= b, q \in Seq(EquityLot), InOrder(q, a)
      PROVE  InOrder(q, b)
  <2>1. \A x \in 1..Len(q) : q[x].entry \in Nat
    <3>1. \A x \in 1..Len(q) : q[x] \in EquityLot
      BY <1>3
    <3> QED
      BY <3>1, LotFields
  <2> QED
    BY <1>3, <2>1 DEF InOrder
<1>4. 0 \in S
  BY <1>0 DEF InOrder
<1>5. ASSUME NEW n \in Nat, n \in S PROVE n + 1 \in S
  <2> SUFFICES ASSUME n + 1 <= K PROVE InOrder(k[n + 1], LastId(n + 1))
    OBVIOUS
  <2>1. n + 1 \in 1..K /\ (n + 1) - 1 = n /\ n \in 0..K /\ n + 1 \in 0..K
    BY <1>1
  <2>2. /\ k[n] \in Seq(EquityLot) /\ lots[n + 1] \in EquityLot /\ InOrder(k[n], LastId(n))
        /\ LastId(n) \in Nat /\ LastId(n + 1) \in Nat /\ LastId(n) <= LastId(n + 1)
        /\ LastId(n + 1) = lots[n + 1].entry
    <3>1. k[n] \in Seq(EquityLot)
      BY <1>0, <2>1
    <3>2. lots[n + 1] \in EquityLot
      BY <1>1, <2>1
    <3>3. LastId(n) \in Nat /\ LastId(n + 1) \in Nat
      BY <1>2, <2>1
    <3>4. LastId(n) <= LastId(n + 1) /\ LastId(n + 1) = lots[n + 1].entry
      BY <1>2, <2>1
    <3>5. n <= K
      BY <1>1, <2>1
    <3>6. InOrder(k[n], LastId(n))
      BY <1>5, <3>5
    <3> QED
      BY <3>1, <3>2, <3>3, <3>4, <3>6
  <2>3. k[n + 1] = IF Positive(lots[n + 1].qty) THEN Append(k[n], lots[n + 1]) ELSE k[n]
    BY <1>0, <2>1
  <2>4. InOrder(Append(k[n], lots[n + 1]), LastId(n + 1))
    <3> DEFINE q == k[n]
               l == lots[n + 1]
               a == LastId(n)
               b == LastId(n + 1)
    <3>1. q \in Seq(EquityLot) /\ l \in EquityLot /\ InOrder(q, a) /\ a \in Nat /\ b \in Nat
          /\ a <= b /\ a <= l.entry /\ l.entry <= b
      BY <2>2
    <3> HIDE DEF q, l, a, b
    <3>2. InOrder(Append(q, l), b)
      BY <3>1, OrderAppend
    <3> QED
      BY <3>2 DEF q, l, b
  <2>5. InOrder(k[n], LastId(n + 1))
    BY <1>3, <2>2
  <2> QED
    BY <2>3, <2>4, <2>5
<1> HIDE DEF S
<1>6. \A n \in Nat : n \in S
  BY <1>4, <1>5, Induction
<1>7. InOrder(k[K], LastId(K)) /\ K \in 0..K
  BY <1>1, <1>6 DEF S
<1> QED
  BY <1>0, <1>1, <1>2, <1>3, <1>7

(***************************************************************************)
(* The closures of a sale                                                  *)
(***************************************************************************)

IdQty(K, n) == [e \in ClosureEntry |-> IF e[K] = n THEN e.qty ELSE Zero]
RealizedOf  == [e \in ClosureEntry |-> e.realized_pnl_base]
LotIs(K, n) == [l \in EquityLot |-> IF l[K] = n THEN One ELSE Zero]

\* What is closed of the lots with key n, what is left, and what a sale takes of it.
ClosedQty(K, cl, n) == ValSum(cl, IdQty(K, n))
LeftQty(K, lots, n) == ValSum(lots, Weighed(EquityLot, LotIs(K, n)))
TakenQty(K, lots, amount, n) == SumOf(TakenVals(lots, Taken(lots, amount), LotIs(K, n)))

LEMMA ClosureTypes ==
  ASSUME NEW K \in Keys, NEW n
  PROVE  /\ IdQty(K, n) \in [ClosureEntry -> Rat] /\ RealizedOf \in [ClosureEntry -> Rat]
         /\ WeightOf(EquityLot, LotIs(K, n)) /\ LotIs(K, n) \in [EquityLot -> Rat]
<1>1. IdQty(K, n) \in [ClosureEntry -> Rat] /\ RealizedOf \in [ClosureEntry -> Rat]
  BY ZeroType DEF IdQty, RealizedOf, ClosureEntry
<1>2. LotIs(K, n) \in [EquityLot -> Rat]
  BY ZeroType, OneRatio DEF LotIs
<1>3. \A l \in EquityLot : \A q \in Rat : LotIs(K, n)[[l EXCEPT !.qty = q]] = LotIs(K, n)[l]
  <2> SUFFICES ASSUME NEW l \in EquityLot, NEW q \in Rat
               PROVE  LotIs(K, n)[[l EXCEPT !.qty = q]] = LotIs(K, n)[l]
    OBVIOUS
  <2> DEFINE m == [l EXCEPT !.qty = q]
  <2>1. m \in EquityLot /\ m[K] = l[K]
    BY LotFields, LotKeys
  <2> HIDE DEF m
  <2>2. LotIs(K, n)[m] = LotIs(K, n)[l]
    BY <2>1 DEF LotIs
  <2> QED
    BY <2>2 DEF m
<1> QED
  BY <1>1, <1>2, <1>3 DEF WeightOf

LEMMA TakenQtyType ==
  ASSUME NEW lots \in Seq(EquityLot), AllPositive(lots), NEW amount \in Rat,
         Zero \preceq amount, NEW K \in Keys, NEW n
  PROVE  /\ TakenQty(K, lots, amount, n) \in Rat /\ Zero \preceq TakenQty(K, lots, amount, n)
         /\ LeftQty(K, lots, n) \in Rat
         /\ LeftQty(K, Rest(lots, amount), n)
              = LeftQty(K, lots, n) -- TakenQty(K, lots, amount, n)
<1> DEFINE t == Taken(lots, amount)
           q == TakenVals(lots, t, LotIs(K, n))
<1>1. TakenWell(lots, t, amount)
  BY LotSets, TakenFacts
<1>2. /\ q \in Seq(Rat) /\ Len(q) = Len(lots) /\ SumOf(q) \in Rat
      /\ \A i \in 1..Len(lots) : q[i] = t[i] ** LotIs(K, n)[lots[i]] /\ t[i] \in Rat
  BY <1>1, ClosureTypes, TakenValsType DEF TakenWell
<1>3. \A i \in 1..Len(lots) : Zero \preceq q[i]
  <2> SUFFICES ASSUME NEW i \in 1..Len(lots) PROVE Zero \preceq q[i]
    OBVIOUS
  <2>1. q[i] = t[i] ** LotIs(K, n)[lots[i]] /\ t[i] \in Rat /\ Zero \preceq t[i]
    BY <1>1, <1>2 DEF TakenWell
  <2>2. LotIs(K, n)[lots[i]] = One \/ LotIs(K, n)[lots[i]] = Zero
    BY DEF LotIs
  <2>3. Zero \preceq Zero
    BY ZeroType, NotNegative
  <2> HIDE DEF t, q
  <2> QED
    BY <2>1, <2>2, <2>3, MulUnit
<1>4. Zero \preceq SumOf(q)
  <2> HIDE DEF q
  <2>1. 0 \in 0..Len(q) /\ Len(q) \in 0..Len(q)
    BY <1>2
  <2>2. \A i \in 1..Len(q) : Zero \preceq q[i]
    BY <1>2, <1>3
  <2>3. Sums(q)[0] \preceq Sums(q)[Len(q)]
    BY <1>2, <2>1, <2>2, SumsGrow
  <2> QED
    BY <1>2, <2>3, SumsProp DEF SumOf
<1>5. LeftQty(K, lots, n) \in Rat
  <2>1. Weighed(EquityLot, LotIs(K, n)) \in [EquityLot -> Rat]
    BY LotSets, ClosureTypes, WeighedType
  <2> QED
    BY <2>1, ValsType DEF LeftQty
<1>6. LeftQty(K, Rest(lots, amount), n) = LeftQty(K, lots, n) -- SumOf(q)
  BY LotSets, ClosureTypes, RestSum DEF LeftQty
<1> QED
  BY <1>2, <1>4, <1>5, <1>6 DEF TakenQty

\* The closures are what is taken, lot by lot, with the profit of each.
ClosuresAre(lots, amount, price, fx, realize, cls) ==
  /\ cls \in Seq(ClosureEntry)
  /\ \A K \in Keys : \A n \in Nat : ClosedQty(K, cls, n) = TakenQty(K, lots, amount, n)
  /\ ValSum(cls, RealizedOf) = BaseTaken(lots, amount, price, fx, realize)

LEMMA ClosuresFacts ==
  ASSUME NEW fifo, fifo.lots \in Seq(EquityLot), AllPositive(fifo.lots), NEW amount \in Rat,
         Zero \preceq amount, NEW price \in Rat, NEW fx \in Rat, NEW realize \in BOOLEAN
  PROVE  ClosuresAre(fifo.lots, amount, price, fx, realize,
                     Closures(fifo, amount, price, fx, realize))
<1> DEFINE lots == fifo.lots
           N == Len(lots)
           t == Taken(lots, amount)
           units == BaseUnits(price, fx, realize)
           entry(i) == [lot_id |-> lots[i].lot_id, entry |-> lots[i].entry, qty |-> t[i],
                        entry_price |-> lots[i].price, entry_fx_to_base |-> lots[i].fx,
                        exit_price |-> price, exit_fx_to_base |-> fx,
                        realized_pnl_base |-> t[i] ** UnitBase(lots[i], price, fx, realize)]
           raw == [i \in DOMAIN lots |-> entry(i)]
           cls == Closures(fifo, amount, price, fx, realize)
<1>1. cls = Kept(raw)
  BY DEF Closures
<1>2. lots \in Seq(EquityLot) /\ AllPositive(lots) /\ N \in Nat /\ DOMAIN lots = 1..N
  OBVIOUS
<1>3. TakenWell(lots, t, amount)
  <2> HIDE DEF lots
  <2> QED
    BY <1>2, LotSets, TakenFacts
<1>4. \A i \in 1..N : t[i] \in Rat /\ Zero \preceq t[i]
  BY <1>3 DEF TakenWell
<1>5. units \in [EquityLot -> Rat]
  BY UnitsType
<1>6. \A i \in 1..N : /\ lots[i] \in EquityLot
                      /\ UnitBase(lots[i], price, fx, realize) = units[lots[i]]
                      /\ units[lots[i]] \in Rat
  BY <1>2, <1>5 DEF BaseUnits
<1> HIDE DEF lots, t, units
<1>7. \A i \in 1..N : /\ entry(i) \in ClosureEntry
                      /\ (\A K \in Keys : entry(i)[K] = lots[i][K]) /\ entry(i).qty = t[i]
                      /\ entry(i).realized_pnl_base = t[i] ** units[lots[i]]
  <2> SUFFICES ASSUME NEW i \in 1..N
               PROVE  /\ entry(i) \in ClosureEntry
                      /\ (\A K \in Keys : entry(i)[K] = lots[i][K]) /\ entry(i).qty = t[i]
                      /\ entry(i).realized_pnl_base = t[i] ** units[lots[i]]
    OBVIOUS
  <2>1. lots[i].lot_id \in Nat /\ lots[i].entry \in Nat /\ lots[i].price \in Rat /\ lots[i].fx \in Rat
    BY <1>6 DEF EquityLot
  <2>2. t[i] ** units[lots[i]] \in Rat /\ t[i] \in Rat
    BY <1>4, <1>6, MulType
  <2>3. t[i] ** UnitBase(lots[i], price, fx, realize) = t[i] ** units[lots[i]]
    BY <1>6
  <2> QED
    BY <2>1, <2>2, <2>3 DEF ClosureEntry, Keys
<1>8. /\ raw \in Seq(ClosureEntry) /\ Len(raw) = N
      /\ \A i \in 1..N : /\ raw[i] \in ClosureEntry
                         /\ (\A K \in Keys : raw[i][K] = lots[i][K]) /\ raw[i].qty = t[i]
                         /\ raw[i].realized_pnl_base = t[i] ** units[lots[i]]
  <2>1. \A i \in 1..N : raw[i] = entry(i)
    BY <1>2
  <2> HIDE DEF entry
  <2>2. raw \in [1..N -> ClosureEntry]
    BY <1>2, <1>7
  <2> HIDE DEF raw
  <2> QED
    BY <1>2, <1>7, <2>1, <2>2, FunSeq
<1> HIDE DEF raw, cls
<1>9. \A i \in 1..N : Positive(raw[i].qty) \/ raw[i].qty = Zero
  BY <1>4, <1>8, NotNegative
<1>10. cls \in Seq(ClosureEntry)
  BY <1>1, <1>8, KeptFacts
<1>11. ASSUME NEW K \in Keys, NEW n \in Nat PROVE ClosedQty(K, cls, n) = TakenQty(K, lots, amount, n)
  <2> DEFINE val == IdQty(K, n)
             q == TakenVals(lots, t, LotIs(K, n))
  <2>1. val \in [ClosureEntry -> Rat]
    BY ClosureTypes
  <2>2. \A i \in 1..N : val[raw[i]] = IF lots[i][K] = n THEN t[i] ELSE Zero
    BY <1>8 DEF IdQty
  <2>3. \A i \in 1..N : Positive(raw[i].qty) \/ val[raw[i]] = Zero
    BY <1>8, <1>9, <2>2
  <2>4. ValSum(cls, val) = ValSum(raw, val)
    <3> HIDE DEF val
    <3> QED
      BY <1>1, <1>8, <2>1, <2>3, KeptSum
  <2>5. /\ q \in Seq(Rat) /\ Len(q) = N
        /\ \A i \in 1..N : q[i] = t[i] ** LotIs(K, n)[lots[i]]
    <3>1. t \in Seq(Rat) /\ Len(t) = N
      BY <1>3 DEF TakenWell
    <3> QED
      BY <1>2, <3>1, ClosureTypes, TakenValsType
  <2>6. \A i \in 1..N : q[i] = IF lots[i][K] = n THEN t[i] ELSE Zero
    BY <1>4, <1>6, <2>5, MulUnit DEF LotIs
  <2>7. /\ Vals(raw, val) \in Seq(Rat) /\ Len(Vals(raw, val)) = N
        /\ \A i \in 1..N : Vals(raw, val)[i] = val[raw[i]]
    <3> HIDE DEF val
    <3> QED
      BY <1>8, <2>1, ValsType
  <2>8. \A i \in 1..N : Vals(raw, val)[i] = q[i]
    BY <2>2, <2>6, <2>7
  <2>9. SumOf(Vals(raw, val)) = SumOf(q)
    <3> DEFINE r == Vals(raw, val)
    <3>1. r \in Seq(Rat) /\ Len(r) = Len(q) /\ \A i \in 1..Len(r) : r[i] = q[i]
      BY <2>5, <2>7, <2>8
    <3> HIDE DEF r, q
    <3>2. SumOf(r) = SumOf(q)
      BY <2>5, <3>1, SumSame
    <3> QED
      BY <3>2 DEF r
  <2> QED
    BY <2>4, <2>9 DEF ClosedQty, TakenQty, ValSum, t
<1>12. ValSum(cls, RealizedOf) = BaseTaken(lots, amount, price, fx, realize)
  <2> DEFINE val == RealizedOf
             q == TakenVals(lots, t, units)
  <2>1. val \in [ClosureEntry -> Rat]
    BY ClosureTypes DEF Keys
  <2>2. \A i \in 1..N : val[raw[i]] = t[i] ** units[lots[i]]
    BY <1>8 DEF RealizedOf
  <2>3. \A i \in 1..N : Positive(raw[i].qty) \/ val[raw[i]] = Zero
    BY <1>6, <1>8, <1>9, <2>2, MulUnit
  <2>4. ValSum(cls, val) = ValSum(raw, val)
    <3> HIDE DEF val
    <3> QED
      BY <1>1, <1>8, <2>1, <2>3, KeptSum
  <2>5. /\ q \in Seq(Rat) /\ Len(q) = N
        /\ \A i \in 1..N : q[i] = t[i] ** units[lots[i]]
    <3>1. t \in Seq(Rat) /\ Len(t) = N
      BY <1>3 DEF TakenWell
    <3> QED
      BY <1>2, <1>5, <3>1, TakenValsType
  <2>6. /\ Vals(raw, val) \in Seq(Rat) /\ Len(Vals(raw, val)) = N
        /\ \A i \in 1..N : Vals(raw, val)[i] = val[raw[i]]
    <3> HIDE DEF val
    <3> QED
      BY <1>8, <2>1, ValsType
  <2>7. SumOf(Vals(raw, val)) = SumOf(q)
    <3> DEFINE r == Vals(raw, val)
    <3>1. r \in Seq(Rat) /\ Len(r) = Len(q) /\ \A i \in 1..Len(r) : r[i] = q[i]
      BY <2>2, <2>5, <2>6
    <3> HIDE DEF r, q
    <3>2. SumOf(r) = SumOf(q)
      BY <2>5, <3>1, SumSame
    <3> QED
      BY <3>2 DEF r
  <2>8. BaseTaken(lots, amount, price, fx, realize) = SumOf(q)
    BY <1>2, UnitSums DEF t, units
  <2> QED
    BY <2>4, <2>7, <2>8 DEF ValSum
<1> QED
  BY <1>10, <1>11, <1>12 DEF ClosuresAre, lots, cls

\* Nothing is taken of a lot that is not there, and none is left.
LEMMA NoLotOf ==
  ASSUME NEW lots \in Seq(EquityLot), AllPositive(lots), NEW amount \in Rat,
         Zero \preceq amount, NEW K \in Keys, NEW n \in Nat,
         \A j \in 1..Len(lots) : lots[j][K] # n \/ Taken(lots, amount)[j] = Zero
  PROVE  TakenQty(K, lots, amount, n) = Zero
<1> DEFINE t == Taken(lots, amount)
           q == TakenVals(lots, t, LotIs(K, n))
<1>1. TakenWell(lots, t, amount)
  BY LotSets, TakenFacts
<1>2. /\ q \in Seq(Rat) /\ Len(q) = Len(lots)
      /\ \A i \in 1..Len(lots) : q[i] = t[i] ** LotIs(K, n)[lots[i]] /\ t[i] \in Rat
  BY <1>1, ClosureTypes, TakenValsType DEF TakenWell
<1>3. \A i \in 1..Len(lots) : /\ lots[i][K] # n => LotIs(K, n)[lots[i]] = Zero
                              /\ LotIs(K, n)[lots[i]] \in Rat
                              /\ lots[i][K] # n \/ t[i] = Zero
  BY ZeroType, OneRatio DEF LotIs
<1> HIDE DEF t, q
<1>4. \A i \in 1..Len(q) : q[i] = Zero
  BY <1>2, <1>3, MulUnit
<1>5. SumOf(q) = Zero
  BY <1>2, <1>4, SumZero
<1> QED
  BY <1>5 DEF TakenQty, q, t

LEMMA NoneLeft ==
  ASSUME NEW lots \in Seq(EquityLot), NEW K \in Keys, NEW n \in Nat,
         \A j \in 1..Len(lots) : lots[j][K] # n \/ lots[j].qty = Zero
  PROVE  LeftQty(K, lots, n) = Zero
<1> DEFINE val == Weighed(EquityLot, LotIs(K, n))
           q == Vals(lots, val)
<1>1. val \in [EquityLot -> Rat]
  BY LotSets, ClosureTypes, WeighedType
<1>2. \A j \in 1..Len(lots) : /\ lots[j] \in EquityLot
                              /\ lots[j].qty \in Rat
                              /\ val[lots[j]] = lots[j].qty ** LotIs(K, n)[lots[j]]
                              /\ LotIs(K, n)[lots[j]] \in Rat
                              /\ lots[j][K] # n => LotIs(K, n)[lots[j]] = Zero
  <2>1. \A j \in 1..Len(lots) : lots[j] \in EquityLot
    OBVIOUS
  <2> QED
    BY <2>1, LotFields, ZeroType, OneRatio DEF Weighed, LotIs
<1>3. /\ q \in Seq(Rat) /\ Len(q) = Len(lots)
      /\ \A j \in 1..Len(lots) : q[j] = val[lots[j]]
  <2> HIDE DEF val
  <2> QED
    BY <1>1, ValsType
<1> HIDE DEF val, q
<1>4. \A j \in 1..Len(q) : q[j] = Zero
  BY <1>2, <1>3, MulUnit
<1>5. SumOf(q) = Zero
  BY <1>3, <1>4, SumZero
<1> QED
  BY <1>5 DEF LeftQty, ValSum, q, val

\* While an older lot is left, nothing is taken of a newer one.
LEMMA OldestFirst ==
  ASSUME NEW lots \in Seq(EquityLot), AllPositive(lots), NEW amount \in Rat,
         Zero \preceq amount, NEW N \in Nat, InOrder(lots, N), NEW n \in Nat, NEW m \in Nat,
         n < m, Positive(LeftQty("entry", Rest(lots, amount), n))
  PROVE  TakenQty("entry", lots, amount, m) = Zero
<1> DEFINE t == Taken(lots, amount)
           left == Left(lots, t)
<1>k. "entry" \in Keys
  BY DEF Keys
<1>1. ASSUME NEW j \in 1..Len(lots), lots[j].entry = m, t[j] # Zero PROVE FALSE
  <2>1. \A k \in 1..j - 1 : t[k] = lots[k].qty
    BY <1>1, LotSets, TakenFirst
  <2>2. TakenWell(lots, t, amount)
    BY LotSets, TakenFacts
  <2>3. t \in Seq(Rat) /\ Len(t) = Len(lots)
    BY <2>2 DEF TakenWell
  <2>4. /\ left \in Seq(EquityLot) /\ Len(left) = Len(lots)
        /\ \A i \in 1..Len(lots) :
             /\ left[i] = [lots[i] EXCEPT !.qty = lots[i].qty -- t[i]]
             /\ left[i].qty = lots[i].qty -- t[i]
             /\ lots[i].qty \in Rat /\ t[i] \in Rat /\ lots[i].qty -- t[i] \in Rat
    <3> HIDE DEF t
    <3> QED
      BY <2>3, LotSets, LeftFacts
  <2>5. \A i \in 1..Len(lots) : lots[i] \in EquityLot /\ lots[i].entry \in Nat
    <3>1. \A i \in 1..Len(lots) : lots[i] \in EquityLot
      OBVIOUS
    <3> QED
      BY <3>1, LotFields
  <2> HIDE DEF t, left
  <2>6. \A i \in 1..Len(lots) : left[i].entry = lots[i].entry
    <3> SUFFICES ASSUME NEW i \in 1..Len(lots) PROVE left[i].entry = lots[i].entry
      OBVIOUS
    <3> DEFINE l == lots[i]
             x == lots[i].qty -- t[i]
    <3>1. l \in EquityLot /\ x \in Rat /\ left[i] = [l EXCEPT !.qty = x]
      BY <2>4, <2>5
    <3> HIDE DEF l, x
    <3>2. left[i].entry = l.entry
      BY <3>1, LotFields
    <3> QED
      BY <3>2 DEF l
  <2>7. \A i \in 1..Len(left) : left[i].entry # n \/ left[i].qty = Zero
    <3> SUFFICES ASSUME NEW i \in 1..Len(lots), lots[i].entry = n PROVE left[i].qty = Zero
      BY <2>4, <2>6
    <3>1. i \in 1..j - 1
      <4>1. ASSUME j <= i PROVE FALSE
        <5>1. j \in 1..i
          BY <4>1
        <5>2. lots[j].entry <= lots[i].entry
          BY <5>1 DEF InOrder
        <5> QED
          BY <1>1, <5>2
      <4> QED
        BY <4>1
    <3>2. left[i].qty = lots[i].qty -- lots[i].qty /\ lots[i].qty \in Rat
      BY <2>1, <2>4, <3>1
    <3> QED
      BY <3>2, AddZero
  <2>8. LeftQty("entry", left, n) = Zero
    <3>1. \A i \in 1..Len(left) : left[i] \in EquityLot
      BY <2>4
    <3>2. \A i \in 1..Len(left) : left[i]["entry"] # n \/ left[i].qty = Zero
      BY <1>k, <2>7, <3>1, LotKeys
    <3> QED
      BY <1>k, <2>4, <3>2, NoneLeft
  <2>9. LeftQty("entry", left, n) = LeftQty("entry", Rest(lots, amount), n)
    <3>1. LeftQty("entry", left, n)
            = LeftQty("entry", lots, n) -- SumOf(TakenVals(lots, t, LotIs("entry", n)))
      BY <1>k, <2>3, LotSets, ClosureTypes, LeftSum DEF LeftQty, left
    <3>2. LeftQty("entry", Rest(lots, amount), n) = LeftQty("entry", lots, n) -- TakenQty("entry", lots, amount, n)
      BY <1>k, TakenQtyType
    <3> QED
      BY <3>1, <3>2 DEF TakenQty, t
  <2> QED
    BY <2>8, <2>9, ZeroType, NotNegative
<1>2. \A j \in 1..Len(lots) : lots[j]["entry"] # m \/ t[j] = Zero
  <2>1. \A j \in 1..Len(lots) : lots[j] \in EquityLot
    OBVIOUS
  <2> HIDE DEF t
  <2> QED
    BY <1>1, <1>k, <2>1, LotKeys
<1> QED
  BY <1>2, <1>k, NoLotOf

LEMMA RestOrder ==
  ASSUME NEW lots \in Seq(EquityLot), AllPositive(lots), NEW amount \in Rat,
         Zero \preceq amount, NEW N \in Nat, InOrder(lots, N)
  PROVE  InOrder(Rest(lots, amount), N)
<1> DEFINE t == Taken(lots, amount)
           left == Left(lots, t)
<1>1. TakenWell(lots, t, amount)
  BY LotSets, TakenFacts
<1>2. t \in Seq(Rat) /\ Len(t) = Len(lots)
  BY <1>1 DEF TakenWell
<1>3. /\ left \in Seq(EquityLot) /\ Len(left) = Len(lots)
      /\ \A i \in 1..Len(lots) :
           /\ left[i] = [lots[i] EXCEPT !.qty = lots[i].qty -- t[i]]
           /\ lots[i].qty -- t[i] \in Rat
  <2> HIDE DEF t
  <2> QED
    BY <1>2, LotSets, LeftFacts
<1>4. \A i \in 1..Len(lots) : lots[i] \in EquityLot
  OBVIOUS
<1>5. Rest(lots, amount) = Kept(left)
  BY RestIs
<1> HIDE DEF t, left
<1>6. \A i \in 1..Len(lots) : left[i].entry = lots[i].entry
  <2> SUFFICES ASSUME NEW i \in 1..Len(lots) PROVE left[i].entry = lots[i].entry
    OBVIOUS
  <2> DEFINE l == lots[i]
           x == lots[i].qty -- t[i]
  <2>1. l \in EquityLot /\ x \in Rat /\ left[i] = [l EXCEPT !.qty = x]
    BY <1>3, <1>4
  <2> HIDE DEF l, x
  <2>2. left[i].entry = l.entry
    BY <2>1, LotFields
  <2> QED
    BY <2>2 DEF l
<1>7. \A a \in 1..Len(lots) : \A b \in 1..a : b \in 1..Len(lots)
  OBVIOUS
<1>8. InOrder(left, N)
  BY <1>3, <1>6, <1>7 DEF InOrder
<1> QED
  BY <1>3, <1>5, <1>8, KeptOrder

(***************************************************************************)
(* First in, first out                                                     *)
(***************************************************************************)

\* cl are the closures so far of the instrument inst, and op[K][n] is what was
\* opened of it in lots with the key n; there have been N events.
ClosOK(inst, cl, op, N) ==
  /\ inst.fifo.gross_base = ValSum(cl, RealizedOf)
  /\ InOrder(inst.fifo.lots, N)
  /\ \A K \in Keys : \A n \in Nat :
       ClosedQty(K, cl, n) ++ LeftQty(K, inst.fifo.lots, n) = op[K][n]
  /\ \A n \in Nat : \A m \in Nat :
       n < m => ~Positive(LeftQty("entry", inst.fifo.lots, n)) \/ ClosedQty("entry", cl, m) = Zero
  /\ \A m \in Nat : N < m => ClosedQty("entry", cl, m) = Zero

LEMMA ClosedType ==
  ASSUME NEW cl \in Seq(ClosureEntry), NEW more \in Seq(ClosureEntry),
         NEW K \in Keys, NEW n
  PROVE  /\ ClosedQty(K, cl, n) \in Rat /\ ValSum(cl, RealizedOf) \in Rat
         /\ ClosedQty(K, cl \o more, n) = ClosedQty(K, cl, n) ++ ClosedQty(K, more, n)
         /\ ValSum(cl \o more, RealizedOf)
              = ValSum(cl, RealizedOf) ++ ValSum(more, RealizedOf)
BY ClosureTypes, ValsType, ValSumConcat DEF ClosedQty

LEMMA OrderLonger ==
  ASSUME NEW lots \in Seq(EquityLot), NEW N \in Nat, InOrder(lots, N)
  PROVE  InOrder(lots, N + 1)
<1>1. \A j \in 1..Len(lots) : lots[j].entry \in Nat
  <2>1. \A j \in 1..Len(lots) : lots[j] \in EquityLot
    OBVIOUS
  <2> QED
    BY <2>1, LotFields
<1> QED
  BY <1>1 DEF InOrder

\* A sale moves what it takes of each lot to the closures.
LEMMA ClosSold ==
  ASSUME NEW a, InstOK(a), NEW b, NEW N \in Nat, NEW qty \in Rat, Positive(qty),
         NEW price \in Rat, NEW fx \in Rat, NEW realize \in BOOLEAN,
         Closed(a, qty, price, fx, realize, b),
         NEW cl \in Seq(ClosureEntry), NEW op, ClosOK(a, cl, op, N)
  PROVE  /\ cl \o Closures(a.fifo, qty, price, fx, realize) \in Seq(ClosureEntry)
         /\ ClosOK(b, cl \o Closures(a.fifo, qty, price, fx, realize), op, N + 1)
<1> DEFINE lots == a.fifo.lots
           cls == Closures(a.fifo, qty, price, fx, realize)
           all == cl \o cls
           rest == Rest(lots, qty)
<1>1. /\ lots \in Seq(EquityLot) /\ AllPositive(lots) /\ Zero \preceq qty
      /\ InOrder(lots, N)
  BY InstFields, NotNegative DEF InstOK, ClosOK
<1>2. /\ b.fifo.lots = rest
      /\ b.fifo.gross_base = a.fifo.gross_base ++ BaseTaken(lots, qty, price, fx, realize)
  BY DEF Closed, FifoSold
<1>3. ClosuresAre(lots, qty, price, fx, realize, cls)
  BY <1>1, ClosuresFacts
<1>4. a.fifo.gross_base = ValSum(cl, RealizedOf)
  BY DEF ClosOK
<1>5. \A n \in Nat : /\ ~Positive(LeftQty("entry", lots, n)) \/ \A m \in Nat : n < m => ClosedQty("entry", cl, m) = Zero
                     /\ N < n => ClosedQty("entry", cl, n) = Zero
  BY DEF ClosOK
<1>k. "entry" \in Keys
  BY DEF Keys
<1>s. \A K \in Keys : \A n \in Nat : ClosedQty(K, cl, n) ++ LeftQty(K, lots, n) = op[K][n]
  BY DEF ClosOK
<1> HIDE DEF lots, cls, rest
<1>6. /\ cls \in Seq(ClosureEntry)
      /\ \A K \in Keys : \A n \in Nat : ClosedQty(K, cls, n) = TakenQty(K, lots, qty, n)
      /\ ValSum(cls, RealizedOf) = BaseTaken(lots, qty, price, fx, realize)
  BY <1>3 DEF ClosuresAre
<1>7. all \in Seq(ClosureEntry)
  BY <1>6
<1>8. b.fifo.gross_base = ValSum(all, RealizedOf)
  BY <1>2, <1>4, <1>6, <1>k, ClosedType
<1>9. rest \in Seq(EquityLot) /\ InOrder(rest, N + 1)
  <2>1. rest \in Seq(EquityLot)
    BY <1>1, LotSets, RestType DEF rest
  <2>2. InOrder(rest, N)
    BY <1>1, RestOrder DEF rest
  <2> QED
    BY <2>1, <2>2, OrderLonger
<1>10. \A K \in Keys : \A n \in Nat :
         /\ TakenQty(K, lots, qty, n) \in Rat /\ Zero \preceq TakenQty(K, lots, qty, n)
         /\ LeftQty(K, lots, n) \in Rat
         /\ LeftQty(K, rest, n) = LeftQty(K, lots, n) -- TakenQty(K, lots, qty, n)
         /\ ClosedQty(K, cl, n) \in Rat
         /\ ClosedQty(K, all, n) = ClosedQty(K, cl, n) ++ TakenQty(K, lots, qty, n)
  BY <1>1, <1>6, TakenQtyType, ClosedType DEF rest
<1> HIDE DEF all
<1>11. ASSUME NEW K \in Keys, NEW n \in Nat PROVE ClosedQty(K, all, n) ++ LeftQty(K, rest, n) = op[K][n]
  <2> DEFINE c == ClosedQty(K, cl, n)
             l == LeftQty(K, lots, n)
             t == TakenQty(K, lots, qty, n)
  <2>1. /\ c \in Rat /\ l \in Rat /\ t \in Rat /\ c ++ l = op[K][n]
        /\ ClosedQty(K, all, n) = c ++ t /\ LeftQty(K, rest, n) = l -- t
    BY <1>s, <1>10
  <2> HIDE DEF c, l, t
  <2>2. l -- t \in Rat
    BY <2>1, AddType
  <2>3. (c ++ t) ++ (l -- t) = c ++ (t ++ (l -- t))
    BY <2>1, <2>2, AddAssoc
  <2>4. t ++ (l -- t) = l
    BY <2>1, AddSub
  <2> QED
    BY <2>1, <2>3, <2>4
<1>12. ASSUME NEW n \in Nat, NEW m \in Nat, n < m, Positive(LeftQty("entry", rest, n))
       PROVE  ClosedQty("entry", all, m) = Zero
  <2>1. TakenQty("entry", lots, qty, m) = Zero
    BY <1>1, <1>12, OldestFirst DEF rest
  <2>2. Positive(LeftQty("entry", lots, n))
    <3> DEFINE l == LeftQty("entry", lots, n)
               t == TakenQty("entry", lots, qty, n)
               r == LeftQty("entry", rest, n)
    <3>1. l \in Rat /\ t \in Rat /\ Zero \preceq t /\ r = l -- t /\ Positive(r)
      BY <1>10, <1>12, <1>k
    <3> HIDE DEF l, t, r
    <3>2. r \in Rat /\ r ++ t = l
      BY <3>1, AddType, AddSub
    <3>3. Zero \preceq r
      BY <3>1, <3>2, NotNegative
    <3>4. Positive(l)
      BY <3>1, <3>2, <3>3, NonNegativeSum
    <3> QED
      BY <3>4 DEF l
  <2>3. ClosedQty("entry", cl, m) = Zero
    BY <1>5, <1>12, <2>2
  <2> QED
    BY <1>10, <1>k, <2>1, <2>3, ZeroType, AddZero
<1>13. ASSUME NEW m \in Nat, N + 1 < m PROVE ClosedQty("entry", all, m) = Zero
  <2>1. ClosedQty("entry", cl, m) = Zero
    <3>1. N < m
      BY <1>13
    <3> QED
      BY <1>5, <3>1
  <2>2. \A j \in 1..Len(lots) : lots[j].entry # m
    <3>1. \A j \in 1..Len(lots) : lots[j] \in EquityLot
      BY <1>1
    <3>2. \A j \in 1..Len(lots) : lots[j].entry \in Nat /\ lots[j].entry <= N
      BY <1>1, <3>1, LotFields DEF InOrder
    <3> QED
      BY <1>13, <3>2
  <2>3. TakenQty("entry", lots, qty, m) = Zero
    <3>1. \A j \in 1..Len(lots) : lots[j]["entry"] # m
      <4>1. \A j \in 1..Len(lots) : lots[j] \in EquityLot
        BY <1>1
      <4> QED
        BY <1>k, <2>2, <4>1, LotKeys
    <3> QED
      BY <1>1, <1>k, <3>1, NoLotOf
  <2> QED
    BY <1>10, <1>k, <2>1, <2>3, ZeroType, AddZero
<1>14. ClosOK(b, all, op, N + 1)
  BY <1>2, <1>8, <1>9, <1>11, <1>12, <1>13 DEF ClosOK
<1> QED
  BY <1>7, <1>14 DEF all, cls

\* What a lot that is added holds is left of its event.
LEMMA LeftAppend ==
  ASSUME NEW lots \in Seq(EquityLot), NEW l \in EquityLot, NEW K \in Keys,
         NEW n
  PROVE  /\ LeftQty(K, lots, n) \in Rat
         /\ LeftQty(K, Append(lots, l), n)
              = IF l[K] = n THEN LeftQty(K, lots, n) ++ l.qty ELSE LeftQty(K, lots, n)
<1> DEFINE val == Weighed(EquityLot, LotIs(K, n))
<1>1. val \in [EquityLot -> Rat]
  BY LotSets, ClosureTypes, WeighedType
<1>2. val[l] = l.qty ** (IF l[K] = n THEN One ELSE Zero) /\ l.qty \in Rat
  BY LotFields DEF Weighed, LotIs
<1> HIDE DEF val
<1>3. /\ ValSum(lots, val) \in Rat
      /\ ValSum(Append(lots, l), val) = ValSum(lots, val) ++ val[l]
  BY <1>1, ValsType, ValSumAppend
<1>4. val[l] = IF l[K] = n THEN l.qty ELSE Zero
  BY <1>2, MulUnit
<1> QED
  BY <1>3, <1>4, AddZero DEF LeftQty, val

\* op2 is what is opened after op by the lot that is added.
MoreOpened(op, op2, lot) ==
  \A K \in Keys : \A n \in Nat :
    op2[K][n] = IF lot[K] = n THEN op[K][n] ++ lot.qty ELSE op[K][n]

LEMMA ClosOpened ==
  ASSUME NEW a, InstOK(a), NEW b, NEW lot \in EquityLot, NEW N \in Nat, lot.entry = N + 1,
         NEW id, Opened(a, lot, id, b), NEW cl \in Seq(ClosureEntry), NEW op, NEW op2,
         MoreOpened(op, op2, lot), ClosOK(a, cl, op, N)
  PROVE  ClosOK(b, cl, op2, N + 1)
<1> DEFINE lots == a.fifo.lots
           more == Append(lots, lot)
<1>1. /\ lots \in Seq(EquityLot) /\ InOrder(lots, N)
      /\ b.fifo.lots = more /\ b.fifo.gross_base = ValSum(cl, RealizedOf)
  BY InstFields DEF InstOK, ClosOK, Opened
<1>2. /\ \A K \in Keys : \A n \in Nat : ClosedQty(K, cl, n) ++ LeftQty(K, lots, n) = op[K][n]
      /\ \A n \in Nat : \A m \in Nat :
           n < m => ~Positive(LeftQty("entry", lots, n)) \/ ClosedQty("entry", cl, m) = Zero
      /\ \A m \in Nat : N < m => ClosedQty("entry", cl, m) = Zero
  BY DEF ClosOK
<1>k. "entry" \in Keys /\ lot["entry"] = N + 1 /\ lot.qty \in Rat
  <2>1. "entry" \in Keys
    BY DEF Keys
  <2> QED
    BY <2>1, LotKeys, LotFields
<1> HIDE DEF lots
<1>3. InOrder(more, N + 1)
  <2>1. N + 1 \in Nat /\ N <= N + 1 /\ N <= lot.entry /\ lot.entry <= N + 1
    OBVIOUS
  <2> QED
    BY <1>1, <2>1, OrderAppend
<1>5. \A K \in Keys : \A n \in Nat :
        /\ LeftQty(K, lots, n) \in Rat
        /\ LeftQty(K, more, n) = IF lot[K] = n THEN LeftQty(K, lots, n) ++ lot.qty
                                 ELSE LeftQty(K, lots, n)
  BY <1>1, LeftAppend
<1> HIDE DEF more
<1>7. ASSUME NEW K \in Keys, NEW n \in Nat
      PROVE  ClosedQty(K, cl, n) ++ LeftQty(K, more, n) = op2[K][n]
  <2> DEFINE c == ClosedQty(K, cl, n)
             l == LeftQty(K, lots, n)
             q == lot.qty
  <2>1. /\ c \in Rat /\ l \in Rat /\ q \in Rat /\ c ++ l = op[K][n]
        /\ LeftQty(K, more, n) = IF lot[K] = n THEN l ++ q ELSE l
        /\ op2[K][n] = IF lot[K] = n THEN op[K][n] ++ q ELSE op[K][n]
    BY <1>2, <1>5, <1>k, ClosedType DEF MoreOpened
  <2> HIDE DEF c, l, q
  <2>2. c ++ (l ++ q) = (c ++ l) ++ q
    BY <2>1, AddAssoc
  <2> QED
    BY <2>1, <2>2 DEF c
<1>8. ASSUME NEW n \in Nat, NEW m \in Nat, n < m, Positive(LeftQty("entry", more, n))
      PROVE  ClosedQty("entry", cl, m) = Zero
  <2>1. CASE n = N + 1
    <3>1. N < m
      BY <1>8, <2>1
    <3> QED
      BY <1>2, <3>1
  <2>2. CASE n # N + 1
    BY <1>2, <1>5, <1>8, <1>k, <2>2
  <2> QED
    BY <2>1, <2>2
<1>9. \A m \in Nat : N + 1 < m => ClosedQty("entry", cl, m) = Zero
  <2>1. \A m \in Nat : N + 1 < m => N < m
    OBVIOUS
  <2> QED
    BY <1>2, <2>1
<1> QED
  BY <1>1, <1>3, <1>7, <1>8, <1>9 DEF ClosOK

LEMMA ClosSkipped ==
  ASSUME NEW a, InstOK(a), NEW N \in Nat, NEW cl, NEW op, NEW op2,
         \A K \in Keys : \A n \in Nat : op2[K][n] = op[K][n], ClosOK(a, cl, op, N)
  PROVE  ClosOK(a, cl, op2, N + 1)
<1>1. a.fifo.lots \in Seq(EquityLot)
  BY InstFields DEF InstOK
<1>2. InOrder(a.fifo.lots, N + 1)
  BY <1>1, OrderLonger DEF ClosOK
<1>3. \A m \in Nat : N + 1 < m => N < m
  OBVIOUS
<1> QED
  BY <1>2, <1>3 DEF ClosOK

\* The key of the lot that the event ev, the n-th, opens.
KeyOf(K, ev, n) == IF K = "entry" THEN n ELSE LotId(ev, n)

\* What the events opened of the instrument i under the lot id.
OpenedVals(events, i, id) ==
  [n \in DOMAIN events |->
     IF Opens(events[n], i) /\ LotId(events[n], n) = id THEN events[n].qty ELSE Zero]

\* What each event opened, and what was opened under each lot id.
OpenedIn(events, i) ==
  [entry  |-> [n \in Nat |-> IF n \in 1..Len(events) /\ Opens(events[n], i)
                             THEN events[n].qty ELSE Zero],
   lot_id |-> [id \in Nat |-> SumOf(OpenedVals(events, i, id))]]

ClosuresKept ==
  \A i \in Instrument :
    ClosOK(state.instruments[i], closures[i], OpenedIn(log, i), Len(log))

LEMMA InitClosures == Init => ClosuresKept
<1> SUFFICES ASSUME Init, NEW i \in Instrument
             PROVE  ClosOK(state.instruments[i], closures[i], OpenedIn(log, i), Len(log))
  BY DEF ClosuresKept
<1>1. state.instruments[i] = EmptyInst /\ closures[i] = <<>> /\ log = <<>>
  BY DEF Init
<1>2. EmptyInst.fifo.gross_base = Zero /\ EmptyInst.fifo.lots = <<>>
  BY DEF EmptyInst, EmptyFifo
<1>3. ValSum(<<>>, RealizedOf) = Zero /\ Zero ++ Zero = Zero
  BY ValSumEmpty, ZeroType, AddZero
<1>4. \A K, n : ClosedQty(K, <<>>, n) = Zero /\ LeftQty(K, <<>>, n) = Zero
  BY ValSumEmpty DEF ClosedQty, LeftQty
<1>5. ~Positive(Zero)
  BY ZeroType, NotNegative
<1>6. InOrder(<<>>, 0) /\ Len(<<>>) = 0
  BY DEF InOrder
<1>7. \A K \in Keys : \A n \in Nat : OpenedIn(<<>>, i)[K][n] = Zero
  <2>1. \A n \in Nat : OpenedIn(<<>>, i)["entry"][n] = Zero
    BY <1>6 DEF OpenedIn
  <2>2. \A id : OpenedVals(<<>>, i, id) = <<>>
    BY DEF OpenedVals
  <2>3. \A n \in Nat : OpenedIn(<<>>, i)["lot_id"][n] = Zero
    BY <2>2, SumEmpty DEF OpenedIn
  <2> QED
    BY <2>1, <2>3 DEF Keys
<1> QED
  BY <1>1, <1>2, <1>3, <1>4, <1>5, <1>6, <1>7 DEF ClosOK

\* What an event that comes after N others adds to what is opened.
OpensMore(op, op2, ev, i, N) ==
  \A K \in Keys : \A n \in Nat :
    op2[K][n] = IF Opens(ev, i) /\ KeyOf(K, ev, N + 1) = n THEN op[K][n] ++ ev.qty ELSE op[K][n]

LEMMA OpensQty ==
  ASSUME NEW ev, EventOK(ev), NEW i, Opens(ev, i)
  PROVE  ev.qty \in Rat
BY DEF Opens, Trades, Receives, Traded, EventOK

LEMMA OpenedMore ==
  ASSUME NEW events \in Seq(Event), NEW ev \in Event, NEW more, more = Append(events, ev),
         NEW i
  PROVE  OpensMore(OpenedIn(events, i), OpenedIn(more, i), ev, i, Len(events))
<1> DEFINE N == Len(events)
           op == OpenedIn(events, i)
           op2 == OpenedIn(more, i)
<1>1. /\ N \in Nat /\ Len(more) = N + 1 /\ more[N + 1] = ev
      /\ DOMAIN events = 1..N /\ DOMAIN more = 1..N + 1
      /\ \A n \in 1..N : more[n] = events[n]
  OBVIOUS
<1>2. EventOK(ev) /\ \A n \in 1..N : EventOK(events[n])
  BY LogEvents, EventAssumption
<1> HIDE DEF N
<1>3. ASSUME NEW n \in Nat
      PROVE  op2["entry"][n] = IF Opens(ev, i) /\ KeyOf("entry", ev, N + 1) = n
                               THEN op["entry"][n] ++ ev.qty ELSE op["entry"][n]
  <2>1. /\ op["entry"][n] = IF n \in 1..N /\ Opens(events[n], i) THEN events[n].qty ELSE Zero
        /\ op2["entry"][n] = IF n \in 1..N + 1 /\ Opens(more[n], i)
                             THEN more[n].qty ELSE Zero
        /\ KeyOf("entry", ev, N + 1) = N + 1
    BY <1>1 DEF OpenedIn, N, KeyOf
  <2> HIDE DEF op, op2
  <2>2. CASE n = N + 1
    <3>1. op["entry"][n] = Zero
      BY <1>1, <2>1, <2>2
    <3>2. op2["entry"][n] = IF Opens(ev, i) THEN ev.qty ELSE Zero
      BY <1>1, <2>1, <2>2
    <3>3. Opens(ev, i) => Zero ++ ev.qty = ev.qty
      BY <1>2, OpensQty, AddZero
    <3> QED
      BY <2>1, <2>2, <3>1, <3>2, <3>3
  <2>3. CASE n # N + 1
    <3>1. n \in 1..N + 1 <=> n \in 1..N
      BY <1>1, <2>3
    <3>2. op2["entry"][n] = op["entry"][n]
      BY <1>1, <2>1, <3>1
    <3> QED
      BY <2>1, <2>3, <3>2
  <2> QED
    BY <2>2, <2>3
<1>4. ASSUME NEW id \in Nat
      PROVE  op2["lot_id"][id] = IF Opens(ev, i) /\ KeyOf("lot_id", ev, N + 1) = id
                                 THEN op["lot_id"][id] ++ ev.qty ELSE op["lot_id"][id]
  <2> DEFINE q == OpenedVals(events, i, id)
             t == OpenedVals(more, i, id)
             opens == Opens(ev, i) /\ LotId(ev, N + 1) = id
             x == IF opens THEN ev.qty ELSE Zero
  <2>1. /\ op["lot_id"][id] = SumOf(q) /\ op2["lot_id"][id] = SumOf(t)
        /\ KeyOf("lot_id", ev, N + 1) = LotId(ev, N + 1)
    BY DEF OpenedIn, KeyOf
  <2>2. /\ q = [n \in 1..N |-> IF Opens(events[n], i) /\ LotId(events[n], n) = id
                               THEN events[n].qty ELSE Zero]
        /\ t = [n \in 1..N + 1 |-> IF Opens(more[n], i) /\ LotId(more[n], n) = id
                                   THEN more[n].qty ELSE Zero]
    BY <1>1 DEF OpenedVals
  <2>3. x \in Rat
    BY <1>2, OpensQty, ZeroType
  <2>4. q \in Seq(Rat) /\ Len(q) = N
    <3>1. \A n \in 1..N : (IF Opens(events[n], i) /\ LotId(events[n], n) = id
                           THEN events[n].qty ELSE Zero) \in Rat
      BY <1>2, OpensQty, ZeroType
    <3>2. q \in [1..N -> Rat]
      BY <2>2, <3>1
    <3> HIDE DEF q
    <3> QED
      BY <1>1, <3>2, FunSeq
  <2>5. /\ t[N + 1] = x /\ DOMAIN t = 1..N + 1
        /\ \A n \in 1..N : t[n] = q[n]
    BY <1>1, <2>2
  <2> HIDE DEF q, t, x
  <2>6. t = Append(q, x)
    <3> DEFINE r == Append(q, x)
    <3>1. \A n \in 1..N + 1 : n = N + 1 \/ n \in 1..N
      BY <1>1
    <3>2. /\ r \in Seq(Rat) /\ Len(r) = N + 1 /\ r[N + 1] = x
          /\ \A n \in 1..N : r[n] = q[n]
      BY <1>1, <2>3, <2>4
    <3> HIDE DEF r
    <3>3. \A n \in 1..N + 1 : t[n] \in Rat /\ t[n] = r[n]
      BY <2>3, <2>4, <2>5, <3>1, <3>2
    <3>4. t \in Seq(Rat) /\ Len(t) = N + 1
      <4>1. t \in [1..N + 1 -> Rat] /\ N + 1 \in Nat
        BY <1>1, <2>2, <3>3
      <4> QED
        BY <4>1, FunSeq
    <3>5. t = r
      BY <3>2, <3>3, <3>4, SeqEqual
    <3> QED
      BY <3>5 DEF r
  <2>7. SumOf(t) = SumOf(q) ++ x /\ SumOf(q) \in Rat
    BY <2>3, <2>4, <2>6, SumAppend, SumType
  <2>8. CASE opens
    BY <2>1, <2>7, <2>8 DEF x
  <2>9. CASE ~opens
    BY <2>1, <2>7, <2>9, AddZero DEF x
  <2> QED
    BY <2>8, <2>9
<1> QED
  BY <1>3, <1>4 DEF OpensMore, Keys, N

LEMMA StepClosures ==
  ASSUME NEW st, Sound(st), NEW s, NEW ev, EventStep(st, s, ev), EventOK(ev),
         NEW N \in Nat, sid = N + 1, NEW i \in Instrument,
         NEW cl \in Seq(ClosureEntry), NEW op, NEW op2,
         OpensMore(op, op2, ev, i, N),
         ClosOK(st.instruments[i], cl, op, N),
         NEW longer, longer = IF Trades(ev, "sell", i)
                              THEN cl \o SaleClosures(st, ev) ELSE cl
  PROVE  longer \in Seq(ClosureEntry) /\ ClosOK(s.instruments[i], longer, op2, N + 1)
<1> DEFINE a == st.instruments[i]
           b == s.instruments[i]
<1>1. InstStep(st, s, ev, i) /\ InstOK(a) /\ sid \in Nat
  BY DEF EventStep, Sound
<1>2. ASSUME NEW lot \in EquityLot, Opened(a, lot, sid, b), lot.qty = ev.qty,
             lot.entry = sid, lot.lot_id = LotId(ev, sid), longer = cl, Opens(ev, i)
      PROVE  longer \in Seq(ClosureEntry) /\ ClosOK(b, longer, op2, N + 1)
  <2>1. ClosOK(a, cl, op, N) /\ lot.entry = N + 1
    BY <1>2
  <2>3. MoreOpened(op, op2, lot)
    <3>1. \A K \in Keys : lot[K] = KeyOf(K, ev, N + 1)
      BY <1>2, LotKeys DEF KeyOf, Keys
    <3> QED
      BY <1>2, <3>1 DEF OpensMore, MoreOpened
  <2> HIDE DEF a, b
  <2>2. ClosOK(b, cl, op2, N + 1)
    BY <1>1, <1>2, <2>1, <2>3, ClosOpened
  <2> QED
    BY <1>2, <2>2
<1>3. CASE Trades(ev, "buy", i)
  <2>1. Traded(ev) /\ ev.iid = i /\ ev.side = "buy" /\ Opens(ev, i)
    BY <1>3 DEF Trades, Opens
  <2>2. Opened(a, TradedLot(st, ev), sid, b)
    BY <1>1, <2>1 DEF InstStep
  <2>3. /\ TradedLot(st, ev) \in EquityLot /\ TradedLot(st, ev).qty = ev.qty
        /\ TradedLot(st, ev).entry = sid /\ TradedLot(st, ev).lot_id = sid
    BY <1>1, <2>1, LotOf
  <2>4. longer = cl
    BY <1>3, EventKinds
  <2>5. LotId(ev, sid) = sid
    BY <2>1 DEF LotId, Traded
  <2> QED
    BY <1>2, <2>1, <2>2, <2>3, <2>4, <2>5
<1>4. CASE Receives(ev, i)
  <2>1. Transfers(ev) /\ ev.iid = i /\ Opens(ev, i)
    BY <1>4 DEF Receives, Transfers, Opens
  <2>2. Opened(a, TransferLot(ev), sid, b)
    BY <1>1, <2>1 DEF InstStep
  <2>3. /\ TransferLot(ev) \in EquityLot /\ TransferLot(ev).qty = ev.qty
        /\ TransferLot(ev).entry = sid /\ TransferLot(ev).lot_id = transfer_lot(ev)
    BY <1>1, <2>1, LotOf
  <2>4. longer = cl
    BY <1>4, EventKinds
  <2>5. LotId(ev, sid) = transfer_lot(ev)
    BY <2>1 DEF LotId, transfer_lot, Transfers
  <2> QED
    BY <1>2, <2>1, <2>2, <2>3, <2>4, <2>5
<1>5. ASSUME ~Opens(ev, i) PROVE \A K \in Keys : \A n \in Nat : op2[K][n] = op[K][n]
  BY <1>5 DEF OpensMore
<1>6. CASE Trades(ev, "sell", i)
  <2>1. /\ Traded(ev) /\ ev.iid = i /\ ev.side = "sell" /\ ev.qty \in Rat /\ Positive(ev.qty)
        /\ ev.price \in Rat /\ RealisesFx(ev) \in BOOLEAN
    BY <1>6 DEF Trades, EventOK, Traded, RealisesFx
  <2>2. Closed(a, ev.qty, ev.price, TradeFx(st, ev), RealisesFx(ev), b)
    BY <1>1, <2>1 DEF InstStep
  <2>3. TradeFx(st, ev) \in Rat
    BY <1>1, <2>1, LotOf
  <2>4. longer = cl \o Closures(a.fifo, ev.qty, ev.price, TradeFx(st, ev), RealisesFx(ev))
    BY <1>6, <2>1 DEF SaleClosures
  <2>5. \A K \in Keys : \A n \in Nat : op2[K][n] = op[K][n]
    BY <1>5, <1>6, EventKinds
  <2>6. ClosOK(a, cl, op, N)
    OBVIOUS
  <2> DEFINE fx == TradeFx(st, ev)
             r == RealisesFx(ev)
             q == ev.qty
             p == ev.price
             all == cl \o Closures(a.fifo, q, p, fx, r)
  <2>7. fx \in Rat /\ r \in BOOLEAN /\ q \in Rat /\ Positive(q) /\ p \in Rat
        /\ Closed(a, q, p, fx, r, b) /\ longer = all
    BY <2>1, <2>2, <2>3, <2>4
  <2> HIDE DEF fx, r, q, p, a, b
  <2>8. all \in Seq(ClosureEntry) /\ ClosOK(b, all, op, N + 1)
    BY <1>1, <2>6, <2>7, ClosSold
  <2> HIDE DEF all
  <2>9. ClosOK(b, all, op2, N + 1)
    BY <2>5, <2>8 DEF ClosOK
  <2> QED
    BY <2>7, <2>8, <2>9 DEF b
<1>7. CASE Skips(ev, i)
  <2>1. b = a
    BY <1>1, <1>7 DEF InstStep, Skips
  <2>2. longer = cl
    BY <1>7, EventKinds
  <2>3. \A K \in Keys : \A n \in Nat : op2[K][n] = op[K][n]
    BY <1>5, <1>7, EventKinds
  <2>4. ClosOK(a, cl, op, N)
    OBVIOUS
  <2> HIDE DEF a, b
  <2>5. ClosOK(a, cl, op2, N + 1)
    BY <1>1, <2>3, <2>4, ClosSkipped
  <2> QED
    BY <2>1, <2>2, <2>5 DEF b
<1> QED
  BY <1>3, <1>4, <1>6, <1>7, EventKinds

LEMMA NextClosures ==
  Books /\ Streams /\ ClosuresKept /\ [Next]_vars
    => (closures \in [Instrument -> Seq(ClosureEntry)])' /\ ClosuresKept'
<1> SUFFICES ASSUME Books, Streams, ClosuresKept, [Next]_vars
             PROVE  (closures \in [Instrument -> Seq(ClosureEntry)])' /\ ClosuresKept'
  OBVIOUS
<1>1. ASSUME NEW ev \in Event, accumulate(ev)
      PROVE  closures' \in [Instrument -> Seq(ClosureEntry)] /\ ClosuresKept'
  <2>1. /\ EventStep(state, state', ev) /\ log' \in Seq(Event) /\ log \in Seq(Event)
        /\ Len(log') = Len(log) + 1 /\ Len(log) \in Nat /\ log'[Len(log')] = ev
        /\ sid = Len(log) + 1
        /\ \A n \in 1..Len(log) : log'[n] = log[n]
    BY <1>1, Accumulated DEF Books
  <2>2. EventOK(ev) /\ Sound(state)
    BY EventAssumption DEF Books
  <2>3. /\ closures' = [i \in Instrument |-> closures'[i]]
        /\ \A i \in Instrument : Emits(ev, i)
    BY <1>1, Emitted
  <2>4. ASSUME NEW i \in Instrument
        PROVE  /\ closures'[i] \in Seq(ClosureEntry)
               /\ ClosOK(state'.instruments[i], closures'[i], OpenedIn(log', i), Len(log'))
    <3> DEFINE N == Len(log)
               op == OpenedIn(log, i)
               op2 == OpenedIn(log', i)
               cl == closures[i]
               longer == closures'[i]
    <3>4. cl \in Seq(ClosureEntry) /\ ClosOK(state.instruments[i], cl, op, N)
      BY DEF Streams, ClosuresKept
    <3>5. longer = IF Trades(ev, "sell", i) THEN cl \o SaleClosures(state, ev) ELSE cl
      BY <2>3 DEF Emits
    <3>6. N \in Nat /\ sid = N + 1
      BY <2>1
    <3>8. OpensMore(op, op2, ev, i, N)
      BY <1>1, <2>1, OpenedMore DEF accumulate
    <3> HIDE DEF N, op, op2, cl, longer
    <3>7. longer \in Seq(ClosureEntry) /\ ClosOK(state'.instruments[i], longer, op2, N + 1)
      BY <2>1, <2>2, <3>4, <3>5, <3>6, <3>8, StepClosures
    <3> QED
      BY <2>1, <3>7 DEF N, op2, longer
  <2>5. closures' \in [Instrument -> Seq(ClosureEntry)]
    BY <2>3, <2>4
  <2>6. ClosuresKept'
    BY <2>4 DEF ClosuresKept
  <2> QED
    BY <2>5, <2>6
<1>2. CASE UNCHANGED vars
  BY <1>2 DEF vars, ClosuresKept, Streams
<1> QED
  BY <1>1, <1>2 DEF Next

\* The sums of the invariant in the form of the kernel's.
LEMMA ClosureSums ==
  ASSUME NEW cl \in Seq(ClosureEntry), NEW lots \in Seq(EquityLot), NEW K \in Keys, NEW n
  PROVE  /\ Total(cl, LAMBDA e : IF e[K] = n THEN e.qty ELSE Zero) = ClosedQty(K, cl, n)
         /\ Total(lots, LAMBDA l : IF l[K] = n THEN l.qty ELSE Zero) = LeftQty(K, lots, n)
         /\ Total(cl, LAMBDA e : e.realized_pnl_base) = ValSum(cl, RealizedOf)
<1>1. \A k \in DOMAIN cl : /\ IdQty(K, n)[cl[k]] = IF cl[k][K] = n THEN cl[k].qty ELSE Zero
                           /\ RealizedOf[cl[k]] = cl[k].realized_pnl_base
  BY DEF IdQty, RealizedOf
<1>2. \A k \in DOMAIN lots :
        Weighed(EquityLot, LotIs(K, n))[lots[k]] = IF lots[k][K] = n THEN lots[k].qty ELSE Zero
  <2> SUFFICES ASSUME NEW k \in DOMAIN lots
               PROVE  Weighed(EquityLot, LotIs(K, n))[lots[k]]
                        = IF lots[k][K] = n THEN lots[k].qty ELSE Zero
    OBVIOUS
  <2>1. lots[k] \in EquityLot
    OBVIOUS
  <2>2. lots[k].qty \in Rat
    BY <2>1, LotFields
  <2> QED
    BY <2>1, <2>2, MulUnit DEF Weighed, LotIs
<1>3. Total(cl, LAMBDA e : IF e[K] = n THEN e.qty ELSE Zero) = ClosedQty(K, cl, n)
  <2>1. [k \in DOMAIN cl |-> IF cl[k][K] = n THEN cl[k].qty ELSE Zero]
          = [k \in DOMAIN cl |-> IdQty(K, n)[cl[k]]]
    BY <1>1
  <2> QED
    BY <2>1 DEF Total, ClosedQty, ValSum, Vals
<1>4. Total(lots, LAMBDA l : IF l[K] = n THEN l.qty ELSE Zero) = LeftQty(K, lots, n)
  <2>1. [k \in DOMAIN lots |-> IF lots[k][K] = n THEN lots[k].qty ELSE Zero]
          = [k \in DOMAIN lots |-> Weighed(EquityLot, LotIs(K, n))[lots[k]]]
    BY <1>2
  <2> QED
    BY <2>1 DEF Total, LeftQty, ValSum, Vals
<1>5. Total(cl, LAMBDA e : e.realized_pnl_base) = ValSum(cl, RealizedOf)
  <2>1. [k \in DOMAIN cl |-> cl[k].realized_pnl_base] = [k \in DOMAIN cl |-> RealizedOf[cl[k]]]
    BY <1>1
  <2> QED
    BY <2>1 DEF Total, ValSum, Vals
<1> QED
  BY <1>3, <1>4, <1>5

LEMMA ClosuresDoAccount == Books /\ Streams /\ ClosuresKept => ClosuresFirstInFirstOut
<1> SUFFICES ASSUME Books, Streams, ClosuresKept, NEW i \in Instrument
             PROVE  /\ \A n \in DOMAIN log : Opens(log[n], i) =>
                         /\ ClosedBy("entry", i, n) ++ LeftBy("entry", i, n) = log[n].qty
                         /\ Positive(LeftBy("entry", i, n)) =>
                              \A m \in n + 1..Len(log) : ClosedBy("entry", i, m) = Zero
                         /\ LET id == LotId(log[n], n) IN
                              ClosedBy("lot_id", i, id) ++ LeftBy("lot_id", i, id)
                                = OpenedAs(i, id)
                    /\ state.instruments[i].fifo.gross_base =
                         Total(closures[i], LAMBDA e : e.realized_pnl_base)
  BY DEF ClosuresFirstInFirstOut
<1> DEFINE inst == state.instruments[i]
           cl == closures[i]
<1>k. "entry" \in Keys /\ "lot_id" \in Keys
  BY DEF Keys
<1>1. /\ cl \in Seq(ClosureEntry) /\ inst.fifo.lots \in Seq(EquityLot)
      /\ ClosOK(inst, cl, OpenedIn(log, i), Len(log))
  BY InstFields DEF Books, Sound, InstOK, Streams, ClosuresKept
<1>2. \A K \in Keys : \A n : /\ ClosedBy(K, i, n) = ClosedQty(K, cl, n)
                             /\ LeftBy(K, i, n) = LeftQty(K, inst.fifo.lots, n)
  BY <1>1, ClosureSums DEF ClosedBy, LeftBy
<1>3. Total(cl, LAMBDA e : e.realized_pnl_base) = ValSum(cl, RealizedOf)
  BY <1>1, <1>k, ClosureSums
<1>4. DOMAIN log = 1..Len(log) /\ Len(log) \in Nat
  BY DEF Books
<1>5. ASSUME NEW n \in DOMAIN log, Opens(log[n], i)
      PROVE  /\ ClosedQty("entry", cl, n) ++ LeftQty("entry", inst.fifo.lots, n) = log[n].qty
             /\ Positive(LeftQty("entry", inst.fifo.lots, n)) =>
                  \A m \in n + 1..Len(log) : ClosedQty("entry", cl, m) = Zero
  <2>1. OpenedIn(log, i)["entry"][n] = log[n].qty
    BY <1>4, <1>5 DEF OpenedIn
  <2>2. n \in Nat /\ \A m \in n + 1..Len(log) : m \in Nat /\ n < m
    BY <1>4
  <2> HIDE DEF inst, cl
  <2> QED
    BY <1>1, <1>k, <2>1, <2>2 DEF ClosOK
<1>6. ASSUME NEW n \in DOMAIN log
      PROVE  LET id == LotId(log[n], n) IN
               ClosedQty("lot_id", cl, id) ++ LeftQty("lot_id", inst.fifo.lots, id)
                 = OpenedAs(i, id)
  <2> DEFINE id == LotId(log[n], n)
  <2>1. id \in Nat
    <3>1. EventOK(log[n]) /\ n \in Nat
      BY <1>4, LogEvents DEF Books
    <3> QED
      BY <3>1 DEF LotId, EventOK
  <2>2. OpenedIn(log, i)["lot_id"][id] = SumOf(OpenedVals(log, i, id))
    BY <2>1 DEF OpenedIn
  <2>3. OpenedAs(i, id) = SumOf(OpenedVals(log, i, id))
    BY DEF OpenedAs, LogTotal, OpenedVals
  <2> HIDE DEF id, inst, cl
  <2>4. ClosedQty("lot_id", cl, id) ++ LeftQty("lot_id", inst.fifo.lots, id) = OpenedAs(i, id)
    BY <1>1, <1>k, <2>1, <2>2, <2>3 DEF ClosOK
  <2> QED
    BY <2>4 DEF id
<1>7. inst.fifo.gross_base = ValSum(cl, RealizedOf)
  BY <1>1 DEF ClosOK
<1> HIDE DEF inst, cl
<1>8. ASSUME NEW n \in DOMAIN log, Opens(log[n], i)
      PROVE  /\ ClosedBy("entry", i, n) ++ LeftBy("entry", i, n) = log[n].qty
             /\ Positive(LeftBy("entry", i, n)) =>
                  \A m \in n + 1..Len(log) : ClosedBy("entry", i, m) = Zero
             /\ LET id == LotId(log[n], n) IN
                  ClosedBy("lot_id", i, id) ++ LeftBy("lot_id", i, id) = OpenedAs(i, id)
  BY <1>2, <1>5, <1>6, <1>8, <1>k
<1> QED
  BY <1>3, <1>7, <1>8 DEF inst, cl

\* Cycles and closures are two partitions of the realised profit: the cycles so
\* far and the open one account for it, and so do the closures, which take every
\* lot in the order of purchase and never more than it held (_fifo_close, the
\* side streams of accumulate).
THEOREM FoldProfit == Spec => []ProfitIsAccounted
<1> DEFINE Inv == Books /\ Streams /\ CostKept /\ CyclesKept /\ ClosuresKept
<1>1. Init => Inv
  BY InitSound, InitCost, InitCycles, InitClosures
<1>2. Inv /\ [Next]_vars => Inv'
  <2> SUFFICES ASSUME Inv, [Next]_vars PROVE Inv'
    OBVIOUS
  <2>1. Books' /\ CostKept'
    BY NextSound, NextCost
  <2>2. (cycles \in [Instrument -> Seq(CycleEntry)])' /\ CyclesKept'
    BY <2>1, NextCycles
  <2>3. (closures \in [Instrument -> Seq(ClosureEntry)])' /\ ClosuresKept'
    BY NextClosures
  <2> QED
    BY <2>1, <2>2, <2>3 DEF Streams
<1>3. Inv => ProfitIsAccounted
  BY CyclesDoAccount, ClosuresDoAccount DEF ProfitIsAccounted
<1> HIDE DEF Inv
<1> QED
  BY <1>1, <1>2, <1>3, PTL DEF Spec

\* In the other currencies a deposit leaves the loans where they are.
LEMMA DepositElsewhere ==
  ASSUME NEW st, CashSound(st), NEW ccy \in Currency, NEW qty \in Rat, NEW fx \in Rat,
         NEW d, d = bucket_deposit(st, ccy, qty, fx), NEW c \in Currency, c # ccy, NEW id
  PROVE  Debt(d, c, id) = Debt(st, c, id)
<1>1. CASE ~Positive(qty)
  BY <1>1 DEF bucket_deposit
<1>2. CASE Positive(qty)
  BY <1>2, DepositDebts DEF DebtsAfter
<1> QED
  BY <1>1, <1>2

(***************************************************************************)
(* What an event does to the loans                                         *)
(***************************************************************************)

\* The events whose loan may be mixed up with another one.
Exempt(ev) == FeeElsewhere(ev) \/ ConvertsNothing(ev)

\* There is no loan of the event m yet.
Fresh(st, m) ==
  \A id \in BorrowId : id[1] = m =>
    /\ id \notin DOMAIN st.pending_borrows
    /\ \A c \in Currency : Debt(st, c, id) = Zero

LoansAfter(st, s, ev) ==
  /\ LoansStep(st, s, sid)
  /\ \A id \in DOMAIN s.pending_borrows :
       id \in DOMAIN st.pending_borrows \/ Exempt(ev) \/ LoanOK(s, id)

LEMMA AfterNone ==
  ASSUME NEW st, NEW s, NEW ev, LoansStep(st, s, sid),
         DOMAIN s.pending_borrows = DOMAIN st.pending_borrows
  PROVE  LoansAfter(st, s, ev)
BY DEF LoansAfter

LEMMA AfterSame ==
  ASSUME NEW st, NEW s \in StateSet, NEW u, NEW ev, LoansAfter(st, s, ev), LoansSame(s, u)
  PROVE  LoansAfter(st, u, ev)
<1>1. LoansStep(s, u, sid) /\ DOMAIN u.pending_borrows = DOMAIN s.pending_borrows
  BY SameLoansStep DEF LoansSame
<1>2. LoansStep(st, u, sid)
  BY <1>1, LoansTrans DEF LoansAfter
<1>3. \A id \in DOMAIN s.pending_borrows : LoanOK(u, id) <=> LoanOK(s, id)
  BY SameLoanOK
<1> QED
  BY <1>1, <1>2, <1>3 DEF LoansAfter

\* Cash that comes in, and cash that goes out.
LEMMA DepositAfter ==
  ASSUME NEW st, CashSound(st), NEW ccy \in Currency, NEW qty \in Rat, NEW fx \in Rat, NEW ev,
         NEW d, d = bucket_deposit(st, ccy, qty, fx)
  PROVE  LoansAfter(st, d, ev) /\ CashSound(d)
<1>1. LoansKept(st, d)
  BY DepositLoans
<1>2. LoansStep(st, d, sid)
  BY <1>1, KeptStep
<1>3. DOMAIN d.pending_borrows = DOMAIN st.pending_borrows
  BY <1>1 DEF LoansKept
<1>4. CashSound(d)
  BY Deposited DEF CashKeeps
<1> QED
  BY <1>2, <1>3, <1>4, AfterNone

LEMMA DrainAfter ==
  ASSUME NEW st, CashSound(st), NEW ccy \in Currency, NEW amount \in Rat, NEW ev, sid \in Nat,
         NEW s, s = drain(st, ccy, amount)
  PROVE  LoansAfter(st, s, ev) /\ CashSound(s)
<1> DEFINE id == NextId(st, ccy, sid)
           res == bucket_drain(st, ccy, amount, None, sid)
<1>1. s = res.st
  BY DEF drain
<1>2. DrainOK(st, ccy, res, id) /\ id[1] = sid
  BY Drains DEF NextId
<1> HIDE DEF res, id
<1>3. DOMAIN res.st.pending_borrows = DOMAIN st.pending_borrows
  BY <1>2 DEF DrainOK, DrainDebts
<1>4. LoansStep(st, res.st, sid) /\ CashSound(res.st)
  BY <1>2 DEF DrainOK
<1> QED
  BY <1>1, <1>3, <1>4, AfterNone

\* Fees do not touch the loans.
LEMMA AfterFees ==
  ASSUME NEW st, NEW s, CashSound(s), NEW ev, LoansAfter(st, s, ev),
         NEW ccy \in Currency, NEW native \in Rat, NEW fx \in Rat,
         NEW u, u = add_fees(s, ccy, native, fx)
  PROVE  LoansAfter(st, u, ev) /\ CashSound(u)
<1>1. LoansSame(s, u)
  BY LoansSameFees
<1>2. s \in StateSet
  BY DEF CashSound
<1>3. CashSound(u)
  BY AddFees DEF CashKeeps
<1> QED
  BY <1>1, <1>2, <1>3, AfterSame

LEMMA CashflowLoans ==
  ASSUME NEW st, CashSound(st), NEW ev, ev.type = "CASHFLOW", EventOK(ev), sid \in Nat
  PROVE  LoansAfter(st, CashflowTo(st, ev), ev)
<1>1. ev.ccy \in Currency /\ ev.amount \in Rat /\ ev.fx \in Rat
  BY DEF EventOK
<1> DEFINE s == drain(st, ev.ccy, ev.amount)
           d == bucket_deposit(st, ev.ccy, ev.amount, ev.fx)
           u == add_fees(s, ev.ccy, ev.amount, ev.fx)
<1>2. LoansAfter(st, s, ev) /\ CashSound(s)
  BY <1>1, DrainAfter
<1>3. LoansAfter(st, d, ev)
  BY <1>1, DepositAfter
<1>4. LoansAfter(st, u, ev)
  <2> HIDE DEF s
  <2> QED
    BY <1>1, <1>2, AfterFees
<1> QED
  BY <1>2, <1>3, <1>4 DEF CashflowTo

LEMMA DividendLoans ==
  ASSUME NEW st, CashSound(st), NEW ev, ev.type = "DIVIDEND", EventOK(ev)
  PROVE  LoansAfter(st, DividendTo(st, ev), ev)
<1>1. /\ ev.ccy \in Currency /\ ev.gross \in Rat /\ ev.withholding \in Rat /\ ev.fx \in Rat
      /\ ev.rate = None \/ ev.rate \in Rat
  BY DEF EventOK
<1>2. Net(ev) \in Rat /\ Withheld(ev) \in Rat
  BY <1>1, AddType, MinMax, ZeroType DEF Net, Withheld
<1>3. CASE PaysNothing(ev)
  <2>1. LoansSame(st, st) /\ st \in StateSet
    BY DEF LoansSame, CashSound
  <2> QED
    BY <1>3, <2>1, SameLoansStep, AfterNone DEF DividendTo
<1>4. CASE ~PaysNothing(ev) /\ settled_in_base(ev)
  <2> DEFINE d == bucket_deposit(st, Base, Net(ev) ** ev.rate, One)
  <2>1. ev.rate \in Rat
    BY <1>1, <1>4 DEF settled_in_base
  <2>2. Net(ev) ** ev.rate \in Rat /\ Withheld(ev) ** ev.rate \in Rat
    BY <1>2, <2>1, MulType
  <2>3. LoansAfter(st, d, ev) /\ CashSound(d)
    BY <2>2, OneRatio, BaseAssumption, DepositAfter
  <2>4. DividendTo(st, ev) = add_fees(d, Base, Withheld(ev) ** ev.rate, One)
    BY <1>4 DEF DividendTo
  <2> HIDE DEF d
  <2> QED
    BY <2>2, <2>3, <2>4, OneRatio, BaseAssumption, AfterFees
<1>5. CASE ~PaysNothing(ev) /\ ~settled_in_base(ev)
  <2> DEFINE d == bucket_deposit(st, ev.ccy, Net(ev), ev.fx)
  <2>1. LoansAfter(st, d, ev) /\ CashSound(d)
    BY <1>1, <1>2, DepositAfter
  <2>2. DividendTo(st, ev) = add_fees(d, ev.ccy, Withheld(ev), ev.fx)
    BY <1>5 DEF DividendTo
  <2> HIDE DEF d
  <2> QED
    BY <1>1, <1>2, <2>1, <2>2, AfterFees
<1> QED
  BY <1>3, <1>4, <1>5

\* A conversion: its own loan is entered when the money has arrived, and its fee
\* may take another one.
LEMMA ConversionLoans ==
  ASSUME NEW st, CashSound(st), NEW ev, ev.type = "FX_CONVERSION", EventOK(ev), sid \in Nat,
         Fresh(st, sid)
  PROVE  LoansAfter(st, ConversionTo(st, ev), ev)
<1> DEFINE res == bucket_drain(st, ev.from, ev.from_amt, ev.broker_fx, sid)
           id == NextId(st, ev.from, sid)
           s1 == res.st
           s2 == bucket_deposit(s1, ev.to, ev.to_amt, (ev.from_amt ** ev.broker_fx) // ev.to_amt)
           s3 == register_borrow(s2, res, "convert", ev.from, sid, Zero, ev.broker_fx)
           fres == bucket_drain(s3, ev.fee_ccy, ev.fee, None, sid)
           fid == NextId(s3, ev.fee_ccy, sid)
           s4 == fres.st
           s5 == add_fees(s4, ev.fee_ccy, ev.fee, ev.broker_fx)
           q == res.borrowed_qty
<1>1. /\ ev.from \in Currency /\ ev.to \in Currency /\ ev.fee_ccy \in Currency
      /\ ev.from_amt \in Rat /\ ev.to_amt \in Rat /\ ev.fee \in Rat
      /\ ev.broker_fx \in Rat /\ ev.from_amt ** ev.broker_fx \in Rat
  BY MulType DEF EventOK
<1>2. ConversionTo(st, ev) = s5
  BY DEF ConversionTo, converted, drain
<1>3a. id[1] = sid
  BY DEF NextId
<1>3. /\ DrainDebts(st, s1, ev.from, q, id) /\ LoansStep(st, s1, sid) /\ CashSound(s1)
      /\ ResultOK(res) /\ id \in BorrowId /\ (Positive(q) => res.borrow_id = id)
  <2>1. DrainOK(st, ev.from, res, id) /\ id[1] = sid
    BY <1>1, Drains DEF NextId
  <2> HIDE DEF res, id
  <2> QED
    BY <2>1 DEF DrainOK
<1> HIDE DEF res
<1>4. /\ LoansKept(s1, s2) /\ CashSound(s2)
      /\ \A c \in Currency : c # ev.to => \A j : Debt(s2, c, j) = Debt(s1, c, j)
  <2> DEFINE fx == (ev.from_amt ** ev.broker_fx) // ev.to_amt
  <2>1. CASE ~Positive(ev.to_amt)
    <3>1. s2 = s1
      BY <2>1 DEF bucket_deposit
    <3> QED
      BY <1>3, <3>1 DEF LoansKept
  <2>2. CASE Positive(ev.to_amt)
    <3>1. fx \in Rat
      BY <1>1, <2>2, DivType
    <3> HIDE DEF fx, s1
    <3>2. s2 = bucket_deposit(s1, ev.to, ev.to_amt, fx)
      BY DEF fx
    <3> HIDE DEF s2
    <3>3. LoansKept(s1, s2)
      BY <1>1, <1>3, <3>1, <3>2, DepositLoans
    <3>4. CashSound(s2)
      BY <1>1, <1>3, <3>1, <3>2, Deposited DEF CashKeeps
    <3>5. \A c \in Currency : c # ev.to => \A j : Debt(s2, c, j) = Debt(s1, c, j)
      BY <1>1, <1>3, <3>1, <3>2, DepositElsewhere
    <3> QED
      BY <3>3, <3>4, <3>5
  <2> QED
    BY <2>1, <2>2
<1> HIDE DEF s2
<1>5. RegisteredAs(s2, s3, ev.from, res)
  <2>1. "convert" \in {"buy", "convert"}
    OBVIOUS
  <2> QED
    BY <1>1, <1>3, <1>4, <2>1, ZeroType, Registers
<1> HIDE DEF s3
<1>6. CashSound(s3) /\ s3.currencies = s2.currencies
  BY <1>5 DEF RegisteredAs
<1>7. /\ DrainDebts(s3, s4, ev.fee_ccy, fres.borrowed_qty, fid) /\ LoansStep(s3, s4, sid)
      /\ CashSound(s4) /\ (~Positive(ev.fee) => s4 = s3)
  <2>1. DrainOK(s3, ev.fee_ccy, fres, fid) /\ fid[1] = sid
    BY <1>1, <1>6, Drains DEF NextId
  <2>2. ~Positive(ev.fee) => fres.st = s3
    BY DrainNothing
  <2> HIDE DEF fres, fid
  <2> QED
    BY <2>1, <2>2 DEF DrainOK
<1> HIDE DEF fres, s4, s1
<1>8. LoansStep(s2, s3, sid)
  <2>1. s2 \in StateSet
    BY <1>4 DEF CashSound
  <2>2. CASE Positive(q)
    <3>1. res.borrow_id[1] = sid
      BY <1>3, <1>3a, <2>2
    <3> QED
      BY <1>1, <1>5, <2>1, <2>2, <3>1, RegisterLoans
  <2>3. CASE ~Positive(q)
    <3>1. s3 = s2
      BY <1>5, <2>3 DEF RegisteredAs
    <3> QED
      BY <2>1, <3>1, SameLoansStep DEF LoansSame
  <2> QED
    BY <2>2, <2>3
<1>9. LoansStep(st, s4, sid)
  <2>1. LoansStep(s1, s2, sid)
    BY <1>4, KeptStep
  <2>2. LoansStep(st, s2, sid)
    BY <1>3, <2>1, LoansTrans
  <2>3. LoansStep(st, s3, sid)
    BY <1>8, <2>2, LoansTrans
  <2> QED
    BY <1>7, <2>3, LoansTrans
<1>10. ASSUME ~Exempt(ev), NEW j \in DOMAIN s4.pending_borrows, j \notin DOMAIN st.pending_borrows
       PROVE  LoanOK(s4, j)
  <2>1. /\ ev.from # ev.to
        /\ ~Positive(ev.fee) \/ ev.fee_ccy = ev.from
    BY <1>10 DEF Exempt, FeeElsewhere, ConvertsNothing
  <2>2. DOMAIN s2.pending_borrows = DOMAIN st.pending_borrows
        /\ s4.pending_borrows = s3.pending_borrows
    BY <1>3, <1>4, <1>7 DEF DrainDebts, LoansKept
  <2>3. Positive(q) /\ j = id /\ j \in DOMAIN s3.pending_borrows /\ res.borrow_id = id
    BY <1>3, <1>5, <1>10, <2>2 DEF RegisteredAs
  <2>4. /\ Debt(st, ev.from, id) = Zero
        /\ \A c \in Currency : Debt(st, c, id) = Zero
    BY <1>1, <1>3, <1>3a DEF Fresh
  <2>5. Debt(s1, ev.from, id) = q /\ \A c \in Currency : c # ev.from => Debt(s1, c, id) = Zero
    <3>1. q \in Rat
      BY <1>3 DEF ResultOK
    <3> QED
      BY <1>3, <2>3, <2>4, <3>1, AddZero DEF DrainDebts
  <2>6. Debt(s2, ev.from, id) = q /\ \A c \in Currency : c # ev.from => Debt(s2, c, id) = Zero
    <3>1. Debt(s2, ev.from, id) = q
      BY <1>1, <1>4, <2>1, <2>5
    <3>2. \A c \in Currency : c # ev.from => Debt(s2, c, id) = Zero
      BY <1>3, <1>4, <2>5 DEF LoansKept
    <3> QED
      BY <3>1, <3>2
  <2>7. LoanOK(s3, id)
    <3>1. s2 \in StateSet
      BY <1>4 DEF CashSound
    <3> HIDE DEF id
    <3> QED
      BY <1>1, <1>3, <1>5, <2>3, <2>6, <3>1, RegisterOK
  <2>8. CASE ~Positive(ev.fee)
    BY <1>7, <2>3, <2>7, <2>8
  <2>9. CASE ev.fee_ccy = ev.from
    <3>1. s3.currencies[ev.from].borrow_seq = s1.currencies[ev.from].borrow_seq
      BY <1>1, <1>4, <1>6 DEF LoansKept
    <3>2. s1.currencies[ev.from].borrow_seq = st.currencies[ev.from].borrow_seq + 1
      BY <1>3, <2>3 DEF DrainDebts
    <3>3. st.currencies[ev.from].borrow_seq \in Nat
      BY <1>1, StateFields, BucketFields DEF CashSound
    <3>4. fid # id
      BY <2>9, <3>1, <3>2, <3>3 DEF NextId
    <3>5. s3 \in StateSet
      BY <1>6 DEF CashSound
    <3> HIDE DEF id, fid
    <3> QED
      BY <1>1, <1>7, <2>3, <2>7, <3>4, <3>5, DrainOther
  <2> QED
    BY <2>1, <2>8, <2>9
<1>11. LoansAfter(st, s4, ev)
  BY <1>9, <1>10 DEF LoansAfter
<1> QED
  BY <1>1, <1>2, <1>7, <1>11, AfterFees

LEMMA TrackedAfter ==
  ASSUME NEW st, NEW s, WalletOK(s), NEW ev, TradeOK(ev), sid \in Nat, NEW fx \in Rat,
         LoansAfter(st, s, ev)
  PROVE  /\ LoansAfter(st, track_buy(s, ev, fx), ev) /\ WalletOK(track_buy(s, ev, fx))
         /\ LoansAfter(st, track_sell(s, ev, fx), ev) /\ WalletOK(track_sell(s, ev, fx))
<1> DEFINE b == track_buy(s, ev, fx)
           u == track_sell(s, ev, fx)
<1>1. WalletOK(b) /\ WalletOK(u)
  <2>1. LegKeeps(s, b)
    BY TrackBuy
  <2>2. LegKeeps(s, u)
    BY TrackSell
  <2> QED
    BY <2>1, <2>2 DEF LegKeeps
<1>2. LoansSame(s, b) /\ LoansSame(s, u)
  <2>1. s \in StateSet
    BY DEF WalletOK, CashSound
  <2>2. b.currencies = s.currencies /\ b.pending_borrows = s.pending_borrows
    BY <2>1 DEF track_buy, StateSet
  <2>3. u.currencies = s.currencies /\ u.pending_borrows = s.pending_borrows
    BY <2>1 DEF track_sell, StateSet
  <2> QED
    BY <2>2, <2>3 DEF LoansSame
<1>3. s \in StateSet
  BY DEF WalletOK, CashSound
<1> HIDE DEF b, u
<1>4. LoansAfter(st, b, ev) /\ LoansAfter(st, u, ev)
  BY <1>2, <1>3, AfterSame
<1> QED
  BY <1>1, <1>4 DEF b, u

\* Money that a drain borrowed and the registry knows of.
LEMMA BoughtAfter ==
  ASSUME NEW st, CashSound(st), NEW ev, TradeOK(ev), sid \in Nat, Fresh(st, sid),
         NEW amount \in Rat, NEW res, res = bucket_drain(st, ev.ccy, amount, None, sid),
         NEW u, u = register_borrow(res.st, res, "buy", ev.ccy, sid, ev.fees, One)
  PROVE  LoansAfter(st, u, ev) /\ CashKeeps(st, u)
<1> DEFINE id == NextId(st, ev.ccy, sid)
           s == res.st
           q == res.borrowed_qty
<1>1. ev.ccy \in Currency /\ ev.fees \in Rat /\ None \in Rat \cup {None} /\ One \in Rat
      /\ "buy" \in {"buy", "convert"}
  BY OneRatio DEF TradeOK
<1>2a. id[1] = sid
  BY DEF NextId
<1>2. /\ DrainDebts(st, s, ev.ccy, q, id) /\ LoansStep(st, s, sid) /\ CashSound(s)
      /\ ResultOK(res) /\ id \in BorrowId /\ (Positive(q) => res.borrow_id = id)
  <2>1. DrainOK(st, ev.ccy, res, id) /\ id[1] = sid
    BY <1>1, Drains DEF NextId
  <2> HIDE DEF id
  <2> QED
    BY <2>1 DEF DrainOK
<1>3. CashKeeps(st, s)
  BY <1>1, Drained DEF DrainWell
<1> HIDE DEF s
<1>4. RegisteredAs(s, u, ev.ccy, res)
  BY <1>1, <1>2, Registers DEF s
<1>5. CashKeeps(st, u)
  <2> DEFINE r == register_borrow(s, res, "buy", ev.ccy, sid, ev.fees, One)
  <2>1. CashKeeps(s, r)
    BY <1>1, <1>2, Registered
  <2>2. u = r
    BY DEF s
  <2> HIDE DEF r
  <2> QED
    BY <1>3, <2>1, <2>2, CashKeepsTrans
<1>6. s \in StateSet
  BY <1>2 DEF CashSound
<1>7. CASE ~Positive(q)
  <2>1. u = s
    BY <1>4, <1>7 DEF RegisteredAs
  <2>2. DOMAIN s.pending_borrows = DOMAIN st.pending_borrows
    BY <1>2 DEF DrainDebts
  <2> QED
    BY <1>2, <1>5, <2>1, <2>2, AfterNone
<1>8. CASE Positive(q)
  <2>1. res.borrow_id = id /\ res.borrow_id[1] = sid
    BY <1>2, <1>2a, <1>8
  <2>2. LoansStep(st, u, sid)
    <3>1. LoansStep(s, u, sid)
      BY <1>1, <1>4, <1>6, <1>8, <2>1, RegisterLoans
    <3> QED
      BY <1>2, <3>1, LoansTrans
  <2>3. \A c \in Currency : Debt(st, c, id) = Zero
    BY <1>2, <1>2a DEF Fresh
  <2>4. Debt(s, ev.ccy, id) = q /\ \A c \in Currency : c # ev.ccy => Debt(s, c, id) = Zero
    <3>1. q \in Rat
      BY <1>2 DEF ResultOK
    <3> QED
      BY <1>1, <1>2, <1>8, <2>3, <3>1, AddZero DEF DrainDebts
  <2>5. DOMAIN u.pending_borrows = DOMAIN st.pending_borrows \cup {id}
    BY <1>2, <1>4, <1>8, <2>1 DEF RegisteredAs, DrainDebts
  <2> HIDE DEF id
  <2>6. LoanOK(u, id)
    BY <1>1, <1>2, <1>4, <1>6, <1>8, <2>1, <2>4, RegisterOK
  <2> QED
    BY <1>5, <2>2, <2>5, <2>6 DEF LoansAfter
<1> QED
  BY <1>7, <1>8

LEMMA BuyLoans ==
  ASSUME NEW st, WalletOK(st), NEW ev, TradeOK(ev), sid \in Nat, Fresh(st, sid)
  PROVE  LoansAfter(st, buy_in_currency(st, ev), ev)
<1> DEFINE amount == Gross(ev) ++ ev.fees
           res == bucket_drain(st, ev.ccy, amount, None, sid)
           prov == IF res.lot_backed_basis = None THEN One ELSE res.lot_backed_basis
           reg == register_borrow(res.st, res, "buy", ev.ccy, sid, ev.fees, One)
           tracked == track_buy(reg, ev, prov)
           s == buy_in_currency(st, ev)
<1>1. /\ ev.ccy \in Currency /\ ev.fees \in Rat /\ amount \in Rat /\ CashSound(st)
      /\ None \in Rat \cup {None} /\ One \in Rat
  BY TradeAmounts, OneRatio DEF TradeOK, WalletOK
<1> HIDE DEF amount
<1>2. s = IF ev.ccy = Base THEN add_fees(res.st, Base, ev.fees, One)
          ELSE IF Positive(res.borrowed_qty) THEN tracked
          ELSE add_fees(tracked, ev.ccy, ev.fees, prov)
  BY DEF buy_in_currency, bought_with, amount
<1>3. DrainWell(st, ev.ccy, amount, None, res)
  BY <1>1, Drained
<1>4. CashSound(res.st) /\ prov \in Rat
  BY <1>1, <1>3 DEF DrainWell, CashKeeps
<1>5. LoansAfter(st, reg, ev) /\ CashKeeps(st, reg)
  BY <1>1, BoughtAfter
<1>6. ev.ccy = Base => LoansAfter(st, res.st, ev)
  <2>1. drain(st, ev.ccy, amount) = res.st
    BY DEF drain
  <2> HIDE DEF res
  <2> QED
    BY <1>1, <2>1, DrainAfter
<1> HIDE DEF res, s, prov
<1>7. CASE ev.ccy = Base
  BY <1>1, <1>2, <1>4, <1>6, <1>7, AfterFees DEF s
<1>8. CASE ev.ccy # Base
  <2>1. WalletOK(reg)
    BY <1>5, CashLeg DEF LegKeeps
  <2> HIDE DEF reg
  <2>2. LoansAfter(st, tracked, ev) /\ WalletOK(tracked)
    BY <1>4, <1>5, <2>1, TrackedAfter
  <2> HIDE DEF tracked
  <2>3. CashSound(tracked)
    BY <2>2 DEF WalletOK
  <2>4. LoansAfter(st, add_fees(tracked, ev.ccy, ev.fees, prov), ev)
    BY <1>1, <1>4, <2>2, <2>3, AfterFees
  <2> QED
    BY <1>2, <1>8, <2>2, <2>4 DEF s
<1> QED
  BY <1>7, <1>8

LEMMA SoldLoans ==
  ASSUME NEW st, NEW s, WalletOK(s), NEW ev, TradeOK(ev), NEW fx \in Rat, LoansSame(st, s),
         WalletOK(st)
  PROVE  LoansAfter(st, sold_at(s, ev, fx), ev)
<1> DEFINE d == bucket_deposit(s, ev.ccy, Gross(ev) -- ev.fees, fx)
<1>1. ev.ccy \in Currency /\ ev.fees \in Rat /\ Gross(ev) -- ev.fees \in Rat
  BY TradeAmounts DEF TradeOK
<1>2. CashSound(s) /\ st \in StateSet
  BY DEF WalletOK, CashSound
<1>3. LoansAfter(s, d, ev) /\ CashSound(d)
  BY <1>1, <1>2, DepositAfter
<1>4. LoansAfter(s, sold_at(s, ev, fx), ev)
  <2> HIDE DEF d
  <2>1. sold_at(s, ev, fx) = add_fees(d, ev.ccy, ev.fees, fx)
    BY DEF sold_at, d
  <2> QED
    BY <1>1, <1>3, <2>1, AfterFees
<1>5. LoansStep(st, s, sid) /\ DOMAIN s.pending_borrows = DOMAIN st.pending_borrows
  BY <1>2, SameLoansStep DEF LoansSame
<1> QED
  BY <1>4, <1>5, LoansTrans DEF LoansAfter

LEMMA SellLoans ==
  ASSUME NEW st, WalletOK(st), NEW ev, TradeOK(ev), sid \in Nat
  PROVE  LoansAfter(st, sell_in_currency(st, ev), ev)
<1> DEFINE t == track_sell(st, ev, One)
<1>1. st \in StateSet /\ One \in Rat
  BY OneRatio DEF WalletOK, CashSound
<1>2. CASE ev.ccy = Base
  <2>1. LoansSame(st, st)
    BY DEF LoansSame
  <2> QED
    BY <1>1, <1>2, <2>1, SoldLoans DEF sell_in_currency
<1>3. CASE ev.ccy # Base
  <2>1. WalletOK(t) /\ t.foreign_sell_fx_basis[sid] \in Rat
    <3>1. LegKeeps(st, t) /\ t.foreign_sell_fx_basis[sid] \in Rat
      BY <1>1, TrackSell
    <3> QED
      BY <3>1 DEF LegKeeps
  <2>2. LoansSame(st, t)
    BY <1>1 DEF track_sell, StateSet, LoansSame
  <2> HIDE DEF t
  <2>3. sell_in_currency(st, ev) = sold_at(t, ev, t.foreign_sell_fx_basis[sid])
    BY <1>3 DEF sell_in_currency, sold_tracked, t
  <2> QED
    BY <2>1, <2>2, <2>3, SoldLoans
<1> QED
  BY <1>2, <1>3

LEMMA SettleLoans ==
  ASSUME NEW st, WalletOK(st), NEW ev, TradeOK(ev), sid \in Nat, settled_in_base(ev)
  PROVE  LoansAfter(st, settle_in_base(st, ev), ev)
<1> DEFINE s == drain(st, Base, (Gross(ev) ++ ev.fees) ** ev.rate)
           d == bucket_deposit(st, Base, (Gross(ev) -- ev.fees) ** ev.rate, One)
           a == track_buy(s, ev, ev.rate)
           b == track_sell(d, ev, ev.rate)
<1>1. /\ ev.rate \in Rat /\ Base \in Currency /\ ev.fees ** ev.rate \in Rat /\ One \in Rat
      /\ (Gross(ev) ++ ev.fees) ** ev.rate \in Rat /\ (Gross(ev) -- ev.fees) ** ev.rate \in Rat
      /\ CashSound(st)
  BY BaseAssumption, TradeAmounts, MulType, OneRatio DEF TradeOK, WalletOK
<1>2. LoansAfter(st, s, ev) /\ WalletOK(s)
  <2>1. LoansAfter(st, s, ev)
    BY <1>1, DrainAfter
  <2>2. CashKeeps(st, s)
    BY <1>1, Paid
  <2> QED
    BY <2>1, <2>2, CashLeg DEF LegKeeps
<1>3. LoansAfter(st, d, ev) /\ WalletOK(d)
  <2>1. LoansAfter(st, d, ev)
    BY <1>1, DepositAfter
  <2>2. CashKeeps(st, d)
    BY <1>1, Deposited
  <2> QED
    BY <2>1, <2>2, CashLeg DEF LegKeeps
<1>4. settle_in_base(st, ev)
        = add_fees(IF ev.side = "buy" THEN a ELSE b, Base, ev.fees ** ev.rate, One)
  BY DEF settle_in_base
<1> HIDE DEF s, d
<1>5. LoansAfter(st, a, ev) /\ WalletOK(a)
  BY <1>1, <1>2, TrackedAfter
<1>6. LoansAfter(st, b, ev) /\ WalletOK(b)
  BY <1>1, <1>3, TrackedAfter
<1> HIDE DEF a, b
<1>7. CASE ev.side = "buy"
  BY <1>1, <1>4, <1>5, <1>7, AfterFees DEF WalletOK
<1>8. CASE ev.side # "buy"
  BY <1>1, <1>4, <1>6, <1>8, AfterFees DEF WalletOK
<1> QED
  BY <1>7, <1>8

LEMMA TradeLoans ==
  ASSUME NEW st, Sound(st), NEW ev, Traded(ev), EventOK(ev), sid \in Nat, Fresh(st, sid)
  PROVE  LoansAfter(st, TradeTo(st, ev), ev)
<1> DEFINE p == cash_leg(st, ev)
<1>1. TradeOK(ev) /\ WalletOK(st)
  BY DEF Traded, TradeOK, EventOK, Sound
<1>2. LoansAfter(st, p, ev)
  <2>1. CASE settled_in_base(ev)
    BY <1>1, <2>1, SettleLoans DEF cash_leg
  <2>2. CASE ~settled_in_base(ev)
    BY <1>1, <2>2, BuyLoans, SellLoans DEF cash_leg
  <2> QED
    BY <2>1, <2>2
<1>3. p \in StateSet
  BY <1>1, TradeLeg DEF WalletOK, CashSound
<1> HIDE DEF p
<1>4. LoansSame(p, TradeTo(st, ev))
  BY <1>3 DEF TradeTo, WithInst, StateSet, LoansSame, p
<1> QED
  BY <1>2, <1>3, <1>4, AfterSame

\* What an event makes of the state.
EventTo(st, ev) ==
  IF Traded(ev) THEN TradeTo(st, ev)
  ELSE IF Transfers(ev) THEN TransferTo(st, ev)
  ELSE IF ev.type = "CASHFLOW" THEN CashflowTo(st, ev)
  ELSE IF ev.type = "DIVIDEND" THEN DividendTo(st, ev)
  ELSE IF ev.type = "FX_CONVERSION" THEN ConversionTo(st, ev)
  ELSE st

LEMMA TradeIs ==
  ASSUME Sound(state), NEW ev, EventOK(ev), sid \in Nat, apply_trade(ev)
  PROVE  state' = EventTo(state, ev)
<1> DEFINE paid == cash_leg(state, ev)
           fx == TradeFx(state, ev)
           old == state.instruments[ev.iid]
<1>1. Traded(ev) /\ TradeOK(ev)
  BY DEF apply_trade, Traded, TradeOK, EventOK
<1>2. paid.instruments = state.instruments
  BY <1>1, TradeLeg DEF Sound
<1>3. equity_leg(ev, paid, old, fx, RealisesFx(ev))
  BY DEF apply_trade, trade_legs, TradeFx, RealisesFx
<1> HIDE DEF paid, fx, old
<1>4. CASE equity_buy(ev, paid, fx)
  <2>1. ev.side = "buy"
    BY <1>4 DEF equity_buy
  <2>2. state' = [paid EXCEPT !.instruments[ev.iid] =
                    open_lot(paid.instruments[ev.iid], NewLot(sid, sid, ev.qty, ev.price, fx), sid)]
    BY <1>4 DEF equity_buy
  <2>3. TradeTo(state, ev)
          = [paid EXCEPT !.instruments[ev.iid] =
               open_lot(old, NewLot(sid, sid, ev.qty, ev.price, fx), sid)]
    BY <2>1 DEF TradeTo, WithInst, BoughtInst, TradedLot, paid, fx, old
  <2>4. paid.instruments[ev.iid] = old
    BY <1>2 DEF old
  <2> QED
    BY <1>1, <2>2, <2>3, <2>4 DEF EventTo
<1>5. CASE equity_sell(ev, paid, close_qty(old, ev.qty, ev.price, fx, RealisesFx(ev)),
                       Closures(old.fifo, ev.qty, ev.price, fx, RealisesFx(ev)))
  <2>1. ev.side = "sell"
    BY <1>5 DEF equity_sell
  <2>2. state' = [paid EXCEPT !.instruments[ev.iid] =
                    close_qty(old, ev.qty, ev.price, fx, RealisesFx(ev))]
    BY <1>5 DEF equity_sell
  <2>3. TradeTo(state, ev)
          = [paid EXCEPT !.instruments[ev.iid] =
               close_qty(old, ev.qty, ev.price, fx, RealisesFx(ev))]
    BY <2>1 DEF TradeTo, WithInst, SoldInst, paid, fx, old
  <2> QED
    BY <1>1, <2>2, <2>3 DEF EventTo
<1> QED
  BY <1>3, <1>4, <1>5 DEF equity_leg

LEMMA EventIs ==
  ASSUME Sound(state), NEW ev \in Event, sid \in Nat, accumulate(ev)
  PROVE  state' = EventTo(state, ev)
<1>1. EventOK(ev)
  BY EventAssumption
<1>2. CASE apply_trade(ev)
  BY <1>1, <1>2, TradeIs
<1>3. CASE apply_transfer_in(ev)
  <2>1. Transfers(ev) /\ ~Traded(ev) /\ state' = TransferTo(state, ev)
    BY <1>3 DEF apply_transfer_in, TransferTo, WithInst, TransferLot, Transfers, Traded
  <2> QED
    BY <2>1 DEF EventTo
<1>4. CASE apply_cashflow(ev)
  <2>1. /\ ev.type = "CASHFLOW" /\ ~Traded(ev) /\ ~Transfers(ev)
        /\ state' = CashflowTo(state, ev)
    BY <1>4 DEF apply_cashflow, CashflowTo, Traded, Transfers
  <2> QED
    BY <2>1 DEF EventTo
<1>5. CASE apply_dividend(ev)
  <2>1. /\ ev.type = "DIVIDEND" /\ ~Traded(ev) /\ ~Transfers(ev)
        /\ state' = DividendTo(state, ev)
    BY <1>5 DEF apply_dividend, DividendTo, Traded, Transfers
  <2> QED
    BY <2>1 DEF EventTo
<1>6. CASE apply_fx_conversion(ev)
  <2>1. /\ ev.type = "FX_CONVERSION" /\ ~Traded(ev) /\ ~Transfers(ev)
        /\ state' = ConversionTo(state, ev)
    BY <1>6 DEF apply_fx_conversion, ConversionTo, Traded, Transfers
  <2> QED
    BY <2>1 DEF EventTo
<1>7. CASE apply_nothing(ev)
  BY <1>7 DEF apply_nothing, EventTo, Traded, Transfers
<1> QED
  BY <1>2, <1>3, <1>4, <1>5, <1>6, <1>7 DEF accumulate

LEMMA EventLoans ==
  ASSUME NEW st, Sound(st), NEW ev, EventOK(ev), sid \in Nat, Fresh(st, sid)
  PROVE  LoansAfter(st, EventTo(st, ev), ev)
<1>1. CashSound(st) /\ st \in StateSet
  BY DEF Sound, WalletOK, CashSound
<1>2. LoansSame(st, st)
  BY DEF LoansSame
<1>3. LoansAfter(st, st, ev)
  BY <1>1, <1>2, SameLoansStep, AfterNone
<1>4. LoansSame(st, TransferTo(st, ev))
  BY <1>1 DEF TransferTo, WithInst, StateSet, LoansSame
<1>5. LoansAfter(st, TransferTo(st, ev), ev)
  BY <1>1, <1>3, <1>4, AfterSame
<1> QED
  BY <1>1, <1>3, <1>5, TradeLoans, CashflowLoans, DividendLoans, ConversionLoans DEF EventTo

(***************************************************************************)
(* The borrows are covered                                                 *)
(***************************************************************************)

\* The events of the log took the loans, and what the registry says of those it
\* must keep is true; the events to come have no loan yet.
LoansInOrder ==
  /\ \A id \in DOMAIN state.pending_borrows :
       id[1] \in 1..Len(log) /\ (Exempt(log[id[1]]) \/ LoanOK(state, id))
  /\ \A id \in BorrowId : \A c \in Currency :
       id[1] > Len(log) => Debt(state, c, id) = Zero

LEMMA InitLoans == Init => LoansInOrder
<1> SUFFICES ASSUME Init PROVE LoansInOrder
  OBVIOUS
<1>1. DOMAIN state.pending_borrows = {}
  BY DEF Init
<1>2. ASSUME NEW id \in BorrowId, NEW c \in Currency PROVE Debt(state, c, id) = Zero
  <2>1. state.currencies[c] = EmptyBucket
    BY DEF Init
  <2>2. EmptyBucket.borrow_lots = <<>>
    BY DEF EmptyBucket
  <2>3. DebtOf(<<>>, id) = Zero
    <3>1. AllPositive(<<>>) /\ <<>> \in Seq(BorrowLot) /\ DOMAIN <<>> = {}
      BY DEF AllPositive
    <3> QED
      BY <3>1, DebtSign
  <2> QED
    BY <2>1, <2>2, <2>3 DEF Debt
<1> QED
  BY <1>1, <1>2 DEF LoansInOrder

LEMMA NextLoans == Books /\ LoansInOrder /\ [Next]_vars => LoansInOrder'
<1> SUFFICES ASSUME Books, LoansInOrder, [Next]_vars PROVE LoansInOrder'
  OBVIOUS
<1>1. ASSUME NEW ev \in Event, accumulate(ev) PROVE LoansInOrder'
  <2> DEFINE N == Len(log)
             s == EventTo(state, ev)
  <2>1. /\ log' \in Seq(Event) /\ Len(log') = N + 1 /\ N \in Nat /\ sid = N + 1
        /\ log'[N + 1] = ev /\ \A n \in 1..N : log'[n] = log[n]
    BY <1>1, Accumulated DEF Books
  <2>2. sid \in Nat /\ sid > N
    BY <2>1
  <2>3. state' = s
    BY <1>1, <2>2, EventIs DEF Books
  <2>4. DOMAIN state.pending_borrows \subseteq BorrowId
    BY PartialType, StateFields DEF Books, Sound, WalletOK, CashSound
  <2>5. Fresh(state, sid)
    <3> SUFFICES ASSUME NEW id \in BorrowId, id[1] = sid
                 PROVE  /\ id \notin DOMAIN state.pending_borrows
                        /\ \A c \in Currency : Debt(state, c, id) = Zero
      BY DEF Fresh
    <3>1. id[1] \notin 1..N /\ id[1] > N
      BY <2>1, <2>2
    <3> QED
      BY <3>1 DEF LoansInOrder
  <2>6. EventOK(ev)
    BY EventAssumption
  <2>7. LoansAfter(state, s, ev)
    BY <2>2, <2>5, <2>6, EventLoans DEF Books
  <2> HIDE DEF s
  <2>8. LoansStep(state, s, sid)
    BY <2>7 DEF LoansAfter
  <2>9. ASSUME NEW id \in DOMAIN s.pending_borrows
        PROVE  id[1] \in 1..N + 1 /\ (Exempt(log'[id[1]]) \/ LoanOK(s, id))
    <3>1. CASE id \in DOMAIN state.pending_borrows
      <4>1. id[1] \in 1..N /\ (Exempt(log[id[1]]) \/ LoanOK(state, id))
        BY <3>1 DEF LoansInOrder
      <4>2. id[1] # sid /\ id[1] \in 1..N + 1 /\ log'[id[1]] = log[id[1]]
        BY <2>1, <4>1
      <4>3. LoanOK(state, id) => LoanOK(s, id)
        BY <2>8, <3>1, <4>2 DEF LoansStep
      <4> QED
        BY <4>1, <4>2, <4>3
    <3>2. CASE id \notin DOMAIN state.pending_borrows
      <4>1. id[1] = sid
        BY <2>8, <3>2 DEF LoansStep
      <4>2. id[1] \in 1..N + 1 /\ log'[id[1]] = ev
        BY <2>1, <4>1
      <4>3. Exempt(ev) \/ LoanOK(s, id)
        BY <2>7, <3>2 DEF LoansAfter
      <4> QED
        BY <4>2, <4>3
    <3> QED
      BY <3>1, <3>2
  <2>10. ASSUME NEW id \in BorrowId, NEW c \in Currency, id[1] > N + 1
         PROVE  Debt(s, c, id) = Zero
    <3>1. id[1] \in Nat
      BY DEF BorrowId
    <3>2. id[1] > N /\ id[1] # sid
      BY <2>1, <2>10, <3>1
    <3>3. Debt(state, c, id) = Zero
      BY <3>2 DEF LoansInOrder
    <3> QED
      BY <2>8, <3>2, <3>3 DEF LoansStep
  <2>11. /\ \A id \in DOMAIN state'.pending_borrows :
              id[1] \in 1..Len(log') /\ (Exempt(log'[id[1]]) \/ LoanOK(state', id))
         /\ \A id \in BorrowId : \A c \in Currency :
              id[1] > Len(log') => Debt(state', c, id) = Zero
    BY <2>1, <2>3, <2>9, <2>10
  <2> QED
    BY <2>11 DEF LoansInOrder, LoanOK, Debt, Exempt, FeeElsewhere, ConvertsNothing
<1>2. CASE UNCHANGED vars
  BY <1>2 DEF vars, LoansInOrder, LoanOK, Debt, Exempt, FeeElsewhere, ConvertsNothing
<1> QED
  BY <1>1, <1>2 DEF Next

\* An entry that is right is open for what its lots owe, and settled without them.
LEMMA LoanCovered ==
  ASSUME Sound(state), NEW id \in DOMAIN state.pending_borrows, LoanOK(state, id)
  PROVE  BorrowCovered(id)
<1> DEFINE pb == state.pending_borrows[id]
           borrows == state.currencies[pb.from_ccy].borrow_lots
           owed == pb.borrowed_qty
           paid == pb.covered_qty
           debt == DebtOf(borrows, id)
<1>1. pb \in PendingSet
  BY PartialType, StateFields DEF Sound, WalletOK, CashSound
<1>2. pb.from_ccy \in Currency /\ owed \in Rat /\ paid \in Rat /\ pb.finalized \in BOOLEAN
  <2> HIDE DEF pb
  <2> QED
    BY <1>1, PendingFields
<1>3. borrows \in Seq(BorrowLot) /\ AllPositive(borrows)
  <2>1. BucketOK(state.currencies[pb.from_ccy])
    BY <1>2 DEF Sound, WalletOK, CashSound
  <2> QED
    BY <2>1, BucketFields DEF BucketOK
<1>4. owed -- paid = debt
  BY DEF LoanOK, Debt
<1>5. pb.finalized <=> owed \preceq paid
  BY DEF LoanOK, fully_covered
<1>6. state.pending_borrows[id] = pb /\ Bucket(pb.from_ccy).borrow_lots = borrows
  BY DEF Bucket
<1> HIDE DEF pb, borrows
<1>7. OpenQty(borrows, id) = debt /\ debt \in Rat
  BY <1>3, DebtIs
<1>8. /\ \A n \in DOMAIN borrows : borrows[n].borrow_id = id => Positive(debt)
      /\ (\A n \in DOMAIN borrows : borrows[n].borrow_id # id) => debt = Zero
  BY <1>3, DebtSign
<1> HIDE DEF owed, paid, debt
<1>9. owed \preceq paid <=> ~Positive(debt)
  BY <1>2, <1>4, OrderFacts
<1>10. ~Positive(Zero)
  BY ZeroType, AddZero, OrderFacts DEF Positive
<1>11. pb.finalized <=> \A n \in DOMAIN borrows : borrows[n].borrow_id # id
  BY <1>5, <1>8, <1>9, <1>10
<1>12. pb.borrowed_qty -- pb.covered_qty = OpenQty(borrows, id)
  BY <1>4, <1>7 DEF owed, paid
<1> QED
  BY <1>6, <1>11, <1>12 DEF BorrowCovered

\* A registered borrow is open for exactly what the deposits have not covered
\* yet, and is settled when it is covered in full, neither earlier nor twice,
\* except for the two kinds of conversion whose loan another one can disturb
\* (_on_cover, _finalize_borrow).
THEOREM FoldLoans == Spec => []BorrowsCovered
<1>1. Init => Books /\ LoansInOrder
  BY InitSound, InitLoans
<1>2. Books /\ LoansInOrder /\ [Next]_vars => (Books /\ LoansInOrder)'
  BY NextSound, NextLoans
<1>3. Books /\ LoansInOrder => BorrowsCovered
  <2> SUFFICES ASSUME Books, LoansInOrder, NEW id \in DOMAIN state.pending_borrows
               PROVE  \/ FeeElsewhere(log[id[1]]) \/ ConvertsNothing(log[id[1]])
                      \/ BorrowCovered(id)
    BY DEF BorrowsCovered
  <2>1. Exempt(log[id[1]]) \/ LoanOK(state, id)
    BY DEF LoansInOrder
  <2> QED
    BY <2>1, LoanCovered DEF Exempt, Books
<1> QED
  BY <1>1, <1>2, <1>3, PTL DEF Spec

(***************************************************************************)
(* What an event does to the fees                                          *)
(***************************************************************************)

\* The fees of ccy grow by x.
FeesMove(st, s, M, ccy, x) ==
  /\ s \in StateSet /\ Keyed(s, M)
  /\ \A c \in Currency :
       FeeBal(s, M, c) = FeeBal(st, M, c) ++ (IF c = ccy THEN x ELSE Zero)

LEMMA FeeBalType ==
  ASSUME NEW st \in StateSet, NEW M \in Nat, NEW c \in Currency
  PROVE  FeeBal(st, M, c) \in Rat /\ st.currencies[c].fees_native \in Rat
<1>1. st.currencies[c].fees_native \in Rat
  BY StateFields, BucketFields
<1>2. FeeW(c) \in Weights
  BY FeeWeight
<1>3. SumOf(Ledger(st, M, FeeW(c))) \in Rat
  BY <1>2, LedgerType
<1> QED
  BY <1>1, <1>3, AddType DEF FeeBal

LEMMA KeptMove ==
  ASSUME NEW st, NEW s, NEW u, NEW M, NEW ccy, NEW x, FeesKept(st, s, M),
         FeesMove(s, u, M, ccy, x)
  PROVE  FeesMove(st, u, M, ccy, x)
BY DEF FeesKept, FeesMove

LEMMA MoveKept ==
  ASSUME NEW st, NEW s, NEW u, NEW M, NEW ccy, NEW x, FeesMove(st, s, M, ccy, x),
         FeesKept(s, u, M)
  PROVE  FeesMove(st, u, M, ccy, x)
BY DEF FeesKept, FeesMove

LEMMA KeptIsMove ==
  ASSUME NEW st \in StateSet, NEW s, NEW M \in Nat, NEW ccy, FeesKept(st, s, M)
  PROVE  FeesMove(st, s, M, ccy, Zero)
<1>1. \A c \in Currency : FeeBal(st, M, c) ++ Zero = FeeBal(st, M, c)
  BY FeeBalType, AddZero
<1> QED
  BY <1>1 DEF FeesKept, FeesMove

\* States with the same books have the same fees.
SameBooks(st, s) == s.currencies = st.currencies /\ s.pending_borrows = st.pending_borrows

LEMMA SameFees ==
  ASSUME NEW st, NEW s \in StateSet, NEW M, Keyed(st, M), SameBooks(st, s)
  PROVE  FeesKept(st, s, M)
<1>1. /\ Keyed(s, M) <=> Keyed(st, M)
      /\ \A n : Slot(s, n) = Slot(st, n)
      /\ \A c : Ledger(s, M, FeeW(c)) = Ledger(st, M, FeeW(c))
  BY LedgerSame DEF SameBooks
<1> QED
  BY <1>1 DEF FeesKept, FeeBal, SameBooks

LEMMA AddFeesIs ==
  ASSUME NEW st, CashSound(st), NEW ccy \in Currency, NEW native \in Rat, NEW fx \in Rat
  PROVE  /\ add_fees(st, ccy, native, fx) \in StateSet
         /\ add_fees(st, ccy, native, fx).pending_borrows = st.pending_borrows
         /\ \A c \in Currency :
              add_fees(st, ccy, native, fx).currencies[c].fees_native
                = IF c = ccy THEN st.currencies[c].fees_native ++ native
                  ELSE st.currencies[c].fees_native
<1> DEFINE b == st.currencies[ccy]
           f == fees_added(b, native, fx)
           s == add_fees(st, ccy, native, fx)
<1>1. b \in BucketSet /\ st \in StateSet
  BY StateFields DEF CashSound
<1>2. s = WithBucket(st, ccy, f)
  BY DEF add_fees, WithBucket
<1> HIDE DEF s, b
<1>3. f \in BucketSet /\ f.fees_native = b.fees_native ++ native
  BY <1>1, FeesAdded
<1> HIDE DEF f
<1>4. /\ s \in StateSet /\ s.pending_borrows = st.pending_borrows
      /\ s.currencies[ccy] = f
      /\ \A c \in Currency : c # ccy => s.currencies[c] = st.currencies[c]
  BY <1>1, <1>2, <1>3, WithBucketType
<1> QED
  BY <1>3, <1>4 DEF s, b

\* A fee that is booked at once.
LEMMA FeesBooked ==
  ASSUME NEW st, CashSound(st), NEW ccy \in Currency, NEW native \in Rat, NEW fx \in Rat,
         NEW M \in Nat, Keyed(st, M), NEW s, s = add_fees(st, ccy, native, fx)
  PROVE  FeesMove(st, s, M, ccy, native)
<1>1. /\ s \in StateSet /\ s.pending_borrows = st.pending_borrows
      /\ \A c \in Currency :
           s.currencies[c].fees_native
             = IF c = ccy THEN st.currencies[c].fees_native ++ native
               ELSE st.currencies[c].fees_native
  BY AddFeesIs
<1>2. Keyed(s, M) /\ \A c : Ledger(s, M, FeeW(c)) = Ledger(st, M, FeeW(c))
  BY <1>1, LedgerSame
<1>3. ASSUME NEW c \in Currency
      PROVE  FeeBal(s, M, c) = FeeBal(st, M, c) ++ (IF c = ccy THEN native ELSE Zero)
  <2> DEFINE a == st.currencies[c].fees_native
             b == SumOf(Ledger(st, M, FeeW(c)))
             x == IF c = ccy THEN native ELSE Zero
  <2>1. st \in StateSet /\ x \in Rat
    BY ZeroType DEF CashSound
  <2>2. FeeW(c) \in Weights
    BY FeeWeight
  <2>3. a \in Rat /\ b \in Rat
    BY <2>1, <2>2, FeeBalType, LedgerType
  <2>4. s.currencies[c].fees_native = a ++ x
    BY <1>1, <2>3, AddZero
  <2>5. SumOf(Ledger(s, M, FeeW(c))) = b
    BY <1>2
  <2> HIDE DEF a, b, x
  <2>6. (a ++ x) ++ b = (a ++ b) ++ x
    <3>1. x ++ b = b ++ x
      BY <2>1, <2>3, AddComm
    <3> QED
      BY <2>1, <2>3, <3>1, AddAssoc
  <2> QED
    BY <2>4, <2>5, <2>6 DEF FeeBal, a, b, x
<1> QED
  BY <1>1, <1>2, <1>3 DEF FeesMove

LEMMA DrainFees ==
  ASSUME NEW st, CashSound(st), NEW ccy \in Currency, NEW amount \in Rat,
         NEW broker_fx \in Rat \cup {None}, NEW M \in Nat, Keyed(st, M), NEW m \in Nat,
         NEW res, res = bucket_drain(st, ccy, amount, broker_fx, m)
  PROVE  FeesKept(st, res.st, M)
<1> DEFINE id == NextId(st, ccy, m)
           s == res.st
<1>1. id = <<m, st.currencies[ccy].borrow_seq + 1>>
  BY DEF NextId
<1> HIDE DEF id
<1>2. DrainFacts(st, ccy, amount, broker_fx, res, id)
  BY <1>1, DrainDoes
<1>3. /\ s.pending_borrows = st.pending_borrows
      /\ \A c \in Currency : c # ccy => s.currencies[c] = st.currencies[c]
      /\ s.currencies[ccy].fees_native = st.currencies[ccy].fees_native
  BY <1>2 DEF DrainFacts
<1>4. s \in StateSet
  <2>1. DrainWell(st, ccy, amount, broker_fx, res)
    BY Drained
  <2> QED
    BY <2>1 DEF DrainWell, CashKeeps, CashSound
<1>5. /\ Keyed(s, M)
      /\ \A n : Slot(s, n) = Slot(st, n)
      /\ \A c : Ledger(s, M, FeeW(c)) = Ledger(st, M, FeeW(c))
  BY <1>3, LedgerSame
<1>6. \A c \in Currency : s.currencies[c].fees_native = st.currencies[c].fees_native
  BY <1>3
<1> QED
  BY <1>4, <1>5, <1>6 DEF FeesKept, FeeBal

\* The fee of a purchase on margin is entered with its loan.
LEMMA RegisterFees ==
  ASSUME NEW st, CashSound(st), NEW res, ResultOK(res), NEW kind \in {"buy", "convert"},
         NEW ccy \in Currency, NEW M \in Nat, NEW m \in 1..M, NEW fee \in Rat,
         NEW broker_fx \in Rat, Keyed(st, M), Slot(st, m) = {},
         Positive(res.borrowed_qty), res.borrow_id \notin DOMAIN st.pending_borrows,
         NEW s, s = register_borrow(st, res, kind, ccy, m, fee, broker_fx)
  PROVE  FeesMove(st, s, M, ccy, IF kind = "buy" THEN fee ELSE Zero)
<1> DEFINE id == res.borrow_id
           pb == NewPending(res, kind, ccy, m, fee, broker_fx)
<1>1. m \in Nat /\ st \in StateSet /\ id \in BorrowId /\ st.pending_borrows \in Partial(BorrowId, PendingSet)
  BY StateFields DEF CashSound, ResultOK
<1>2. s \in StateSet /\ s.currencies = st.currencies
  <2>1. CashKeeps(st, s) /\ s.currencies = st.currencies
    BY <1>1, Registered
  <2> QED
    BY <2>1 DEF CashKeeps, CashSound
<1>3. s.pending_borrows = Put(st.pending_borrows, id, pb)
  BY <1>1 DEF register_borrow, NewPending, StateSet
<1>4. pb \in PendingSet
  <2>1. pb \in PendingRecord
    BY <1>1, ZeroType DEF NewPending, PendingRecord, ResultOK
  <2>2. pb.borrowed_qty = res.borrowed_qty /\ pb.lot_backed_qty = res.lot_backed_qty
    BY DEF NewPending
  <2> QED
    BY <2>1, <2>2 DEF PendingSet, ResultOK
<1>5. /\ pb.consumer = m /\ pb.consumer_kind = kind /\ pb.from_ccy = ccy
      /\ pb.fee_native = fee
  BY DEF NewPending
<1>6. pb.finalized = FALSE
  BY Zenon DEF NewPending
<1> HIDE DEF pb, id
<1>7. /\ DOMAIN s.pending_borrows = DOMAIN st.pending_borrows \cup {id}
      /\ s.pending_borrows[id] = pb
      /\ \A j \in DOMAIN st.pending_borrows : j # id =>
           s.pending_borrows[j] = st.pending_borrows[j]
  <2> DEFINE d == st.pending_borrows
             e == s.pending_borrows
  <2>1. d \in Partial(BorrowId, PendingSet) /\ e = Put(d, id, pb) /\ id \in BorrowId
    BY <1>1, <1>3
  <2> HIDE DEF d, e
  <2>2. /\ DOMAIN e = DOMAIN d \cup {id} /\ e[id] = pb
        /\ \A j \in DOMAIN d : j # id => e[j] = d[j]
    BY <2>1 DEF Put
  <2> QED
    BY <2>2 DEF d, e
<1>8. id \notin DOMAIN st.pending_borrows
  BY DEF id
<1>9. \A j \in DOMAIN st.pending_borrows : s.pending_borrows[j] = st.pending_borrows[j]
  BY <1>7, <1>8
<1>10. ASSUME NEW w \in Weights
       PROVE  /\ Keyed(s, M)
              /\ SumOf(Ledger(s, M, w)) = SumOf(Ledger(st, M, w)) ++ w[pb]
  <2>1. s.pending_borrows[id].consumer = m
    BY <1>5, <1>7
  <2>2. /\ Keyed(s, M)
        /\ SumOf(Ledger(s, M, w)) = SumOf(Ledger(st, M, w)) ++ w[s.pending_borrows[id]]
    BY <1>1, <1>2, <1>7, <1>8, <1>9, <2>1, LedgerEntry
  <2> QED
    BY <1>7, <2>2
<1>11. Keyed(s, M)
  BY <1>10, FeeWeight
<1>12. ASSUME NEW c \in Currency
       PROVE  FeeBal(s, M, c)
                = FeeBal(st, M, c)
                    ++ (IF c = ccy THEN (IF kind = "buy" THEN fee ELSE Zero) ELSE Zero)
  <2> DEFINE w == FeeW(c)
             a == st.currencies[c].fees_native
             b == SumOf(Ledger(st, M, w))
  <2>1. w \in Weights
    BY FeeWeight
  <2>2. a \in Rat /\ b \in Rat
    BY <1>1, <2>1, FeeBalType, LedgerType
  <2>3. w[pb] = IF kind = "buy" /\ ccy = c THEN fee ELSE Zero
    BY <1>4, <1>5, <1>6, FeeWeight
  <2>4. SumOf(Ledger(s, M, w)) = b ++ w[pb]
    BY <1>10, <2>1
  <2>5. s.currencies[c].fees_native = a
    BY <1>2
  <2>6. w[pb] \in Rat
    BY <2>3, ZeroType
  <2> HIDE DEF w, a, b
  <2>7. a ++ (b ++ w[pb]) = (a ++ b) ++ w[pb]
    BY <2>2, <2>6, AddAssoc
  <2> QED
    BY <2>3, <2>4, <2>5, <2>7 DEF FeeBal, w, a, b
<1> QED
  BY <1>2, <1>11, <1>12 DEF FeesMove

FeesAfter(st, s, ev) ==
  /\ s \in StateSet /\ Keyed(s, sid)
  /\ \A c \in Currency : FeeBal(s, sid, c) = FeeBal(st, sid, c) ++ Fee(ev, c)

\* The event being folded has no entry in the registry, and no loan has its number.
Ready(st) == Keyed(st, sid) /\ Slot(st, sid) = {} /\ Fresh(st, sid)

LEMMA MoveAfter ==
  ASSUME NEW st, NEW s, NEW ev, NEW ccy, NEW x, FeesMove(st, s, sid, ccy, x),
         \A c \in Currency : Fee(ev, c) = IF c = ccy THEN x ELSE Zero
  PROVE  FeesAfter(st, s, ev)
BY DEF FeesMove, FeesAfter

LEMMA KeptAfter ==
  ASSUME NEW st \in StateSet, sid \in Nat, NEW s, NEW ev, FeesKept(st, s, sid),
         \A c \in Currency : Fee(ev, c) = Zero
  PROVE  FeesAfter(st, s, ev)
<1>1. FeesMove(st, s, sid, Base, Zero)
  BY KeptIsMove
<1> QED
  BY <1>1, MoveAfter

\* Money moves, then the fee of it is booked.
LEMMA ThenBooked ==
  ASSUME NEW st, NEW s, CashSound(s), sid \in Nat, FeesKept(st, s, sid),
         NEW ccy \in Currency, NEW native \in Rat, NEW fx \in Rat,
         NEW u, u = add_fees(s, ccy, native, fx)
  PROVE  FeesMove(st, u, sid, ccy, native)
<1>1. Keyed(s, sid)
  BY DEF FeesKept
<1>2. FeesMove(s, u, sid, ccy, native)
  BY <1>1, FeesBooked
<1> QED
  BY <1>2, KeptMove

LEMMA CashflowFees ==
  ASSUME NEW st, CashSound(st), NEW ev, ev.type = "CASHFLOW", EventOK(ev), sid \in Nat,
         Keyed(st, sid)
  PROVE  FeesAfter(st, CashflowTo(st, ev), ev)
<1> DEFINE res == bucket_drain(st, ev.ccy, ev.amount, None, sid)
           s == res.st
           d == bucket_deposit(st, ev.ccy, ev.amount, ev.fx)
           u == add_fees(s, ev.ccy, ev.amount, ev.fx)
<1>1. /\ ev.ccy \in Currency /\ ev.amount \in Rat /\ ev.fx \in Rat /\ st \in StateSet
      /\ None \in Rat \cup {None} /\ ~Traded(ev)
  BY DEF EventOK, CashSound, Traded
<1>2. FeesKept(st, s, sid) /\ CashSound(s)
  <2>1. DrainWell(st, ev.ccy, ev.amount, None, res)
    BY <1>1, Drained
  <2>2. CashSound(s)
    BY <2>1 DEF DrainWell, CashKeeps
  <2> HIDE DEF s
  <2>3. FeesKept(st, res.st, sid)
    BY <1>1, DrainFees
  <2> QED
    BY <2>2, <2>3 DEF s
<1>3. FeesKept(st, d, sid)
  BY <1>1, DepositFees
<1>4. \A c \in Currency :
        Fee(ev, c) = IF ev.kind = "FEE" THEN (IF c = ev.ccy THEN ev.amount ELSE Zero)
                     ELSE Zero
  BY <1>1 DEF Fee
<1>5. CashflowTo(st, ev) = IF ev.kind = "WITHDRAWAL" THEN s ELSE IF ev.kind = "FEE" THEN u ELSE d
  BY DEF CashflowTo, drain
<1> HIDE DEF s, d, res
<1>6. FeesMove(st, u, sid, ev.ccy, ev.amount)
  BY <1>1, <1>2, ThenBooked
<1> HIDE DEF u
<1>7. CASE ev.kind = "FEE"
  <2>1. CashflowTo(st, ev) = u
    BY <1>5, <1>7
  <2>2. \A c \in Currency : Fee(ev, c) = IF c = ev.ccy THEN ev.amount ELSE Zero
    BY <1>4, <1>7
  <2> QED
    BY <1>6, <2>1, <2>2, MoveAfter
<1>8. CASE ev.kind # "FEE"
  <2>1. \A c \in Currency : Fee(ev, c) = Zero
    BY <1>4, <1>8
  <2>2. FeesKept(st, CashflowTo(st, ev), sid)
    BY <1>2, <1>3, <1>5, <1>8
  <2> QED
    BY <1>1, <2>1, <2>2, KeptAfter
<1> QED
  BY <1>7, <1>8

LEMMA StaysSame ==
  ASSUME NEW st \in StateSet, sid \in Nat, Keyed(st, sid), NEW ev,
         \A c \in Currency : Fee(ev, c) = Zero
  PROVE  FeesAfter(st, st, ev)
<1>1. FeesKept(st, st, sid)
  BY DEF FeesKept
<1> QED
  BY <1>1, KeptAfter

LEMMA DividendFees ==
  ASSUME NEW st, CashSound(st), NEW ev, ev.type = "DIVIDEND", EventOK(ev), sid \in Nat,
         Keyed(st, sid)
  PROVE  FeesAfter(st, DividendTo(st, ev), ev)
<1>1. /\ ev.ccy \in Currency /\ ev.gross \in Rat /\ ev.withholding \in Rat /\ ev.fx \in Rat
      /\ (ev.rate = None \/ ev.rate \in Rat) /\ st \in StateSet /\ ~Traded(ev)
  BY DEF EventOK, CashSound, Traded
<1>2. Net(ev) \in Rat /\ Withheld(ev) \in Rat
  BY <1>1, AddType, MinMax, ZeroType DEF Net, Withheld
<1>3. CASE PaysNothing(ev)
  <2>1. \A c \in Currency : Fee(ev, c) = Zero
    BY <1>1, <1>3 DEF Fee
  <2>2. DividendTo(st, ev) = st
    BY <1>3 DEF DividendTo
  <2> QED
    BY <1>1, <2>1, <2>2, StaysSame
<1>4. CASE ~PaysNothing(ev) /\ settled_in_base(ev)
  <2> DEFINE q == Net(ev) ** ev.rate
             f == Withheld(ev) ** ev.rate
             d == bucket_deposit(st, Base, q, One)
  <2>1. q \in Rat /\ f \in Rat /\ Base \in Currency /\ One \in Rat
    BY <1>1, <1>2, <1>4, MulType, OneRatio, BaseAssumption DEF settled_in_base
  <2>2. \A c \in Currency : Fee(ev, c) = IF c = Base THEN f ELSE Zero
    BY <1>1, <1>4 DEF Fee
  <2>3. DividendTo(st, ev) = add_fees(d, Base, f, One)
    BY <1>4 DEF DividendTo
  <2> HIDE DEF q, f
  <2>4. FeesKept(st, d, sid) /\ CashSound(d)
    BY <2>1, DepositFees, Deposited DEF CashKeeps
  <2> HIDE DEF d
  <2>5. FeesMove(st, DividendTo(st, ev), sid, Base, f)
    BY <2>1, <2>3, <2>4, ThenBooked
  <2> QED
    BY <2>2, <2>5, MoveAfter
<1>5. CASE ~PaysNothing(ev) /\ ~settled_in_base(ev)
  <2> DEFINE q == Net(ev)
             f == Withheld(ev)
             d == bucket_deposit(st, ev.ccy, q, ev.fx)
  <2>1. q \in Rat /\ f \in Rat
    BY <1>2
  <2>2. \A c \in Currency : Fee(ev, c) = IF c = ev.ccy THEN f ELSE Zero
    BY <1>1, <1>5 DEF Fee
  <2>3. DividendTo(st, ev) = add_fees(d, ev.ccy, f, ev.fx)
    BY <1>5 DEF DividendTo
  <2> HIDE DEF q, f
  <2>4. FeesKept(st, d, sid) /\ CashSound(d)
    BY <1>1, <2>1, DepositFees, Deposited DEF CashKeeps
  <2> HIDE DEF d
  <2>5. FeesMove(st, DividendTo(st, ev), sid, ev.ccy, f)
    BY <1>1, <2>1, <2>3, <2>4, ThenBooked
  <2> QED
    BY <2>2, <2>5, MoveAfter
<1> QED
  BY <1>3, <1>4, <1>5

\* A loan is entered when the event has none, under a number that is new.
LEMMA EnteredFees ==
  ASSUME NEW st, Ready(st), NEW s, CashSound(s), FeesKept(st, s, sid),
         DOMAIN s.pending_borrows = DOMAIN st.pending_borrows, sid \in Nat \ {0},
         NEW res, ResultOK(res), Positive(res.borrowed_qty) => res.borrow_id[1] = sid,
         NEW kind \in {"buy", "convert"}, NEW ccy \in Currency, NEW fee \in Rat,
         NEW broker_fx \in Rat,
         NEW u, u = register_borrow(s, res, kind, ccy, sid, fee, broker_fx)
  PROVE  /\ Positive(res.borrowed_qty) =>
              FeesMove(st, u, sid, ccy, IF kind = "buy" THEN fee ELSE Zero)
         /\ ~Positive(res.borrowed_qty) => u = s
<1>1. CASE ~Positive(res.borrowed_qty)
  BY <1>1 DEF register_borrow
<1>2. CASE Positive(res.borrowed_qty)
  <2>1. /\ Keyed(s, sid) /\ Slot(s, sid) = {} /\ sid \in 1..sid /\ sid \in Nat
    BY DEF FeesKept, Ready
  <2>2. res.borrow_id \in BorrowId /\ res.borrow_id[1] = sid
    BY <1>2 DEF ResultOK
  <2>3. res.borrow_id \notin DOMAIN s.pending_borrows
    BY <2>2 DEF Ready, Fresh
  <2>4. FeesMove(s, u, sid, ccy, IF kind = "buy" THEN fee ELSE Zero)
    BY <1>2, <2>1, <2>3, RegisterFees
  <2> QED
    BY <1>2, <2>4, KeptMove
<1> QED
  BY <1>1, <1>2

\* Fees that did not move, and then one that is booked.
LEMMA StillBooked ==
  ASSUME NEW st \in StateSet, NEW s, CashSound(s), sid \in Nat, NEW other,
         FeesMove(st, s, sid, other, Zero),
         NEW ccy \in Currency, NEW native \in Rat, NEW fx \in Rat,
         NEW u, u = add_fees(s, ccy, native, fx)
  PROVE  FeesMove(st, u, sid, ccy, native)
<1>1. Keyed(s, sid)
  BY DEF FeesMove
<1>2. FeesMove(s, u, sid, ccy, native)
  BY <1>1, FeesBooked
<1>3. ASSUME NEW c \in Currency PROVE FeeBal(s, sid, c) = FeeBal(st, sid, c)
  <2>1. FeeBal(st, sid, c) \in Rat
    BY FeeBalType
  <2>2. FeeBal(s, sid, c) = FeeBal(st, sid, c) ++ Zero
    BY DEF FeesMove
  <2> QED
    BY <2>1, <2>2, AddZero
<1> QED
  BY <1>2, <1>3 DEF FeesMove

\* A conversion books its fee, whatever its loans do.
LEMMA ConversionFees ==
  ASSUME NEW st, CashSound(st), NEW ev, ev.type = "FX_CONVERSION", EventOK(ev),
         sid \in Nat \ {0}, Ready(st)
  PROVE  FeesAfter(st, ConversionTo(st, ev), ev)
<1> DEFINE res == bucket_drain(st, ev.from, ev.from_amt, ev.broker_fx, sid)
           id == NextId(st, ev.from, sid)
           s1 == res.st
           fx == (ev.from_amt ** ev.broker_fx) // ev.to_amt
           s2 == bucket_deposit(s1, ev.to, ev.to_amt, fx)
           s3 == register_borrow(s2, res, "convert", ev.from, sid, Zero, ev.broker_fx)
           s4 == drain(s3, ev.fee_ccy, ev.fee)
           s5 == add_fees(s4, ev.fee_ccy, ev.fee, ev.broker_fx)
<1>1. /\ ev.from \in Currency /\ ev.to \in Currency /\ ev.fee_ccy \in Currency
      /\ ev.from_amt \in Rat /\ ev.to_amt \in Rat /\ ev.fee \in Rat
      /\ ev.broker_fx \in Rat /\ ev.from_amt ** ev.broker_fx \in Rat
      /\ ~Traded(ev) /\ sid \in Nat
  BY MulType DEF EventOK, Traded
<1>2. ConversionTo(st, ev) = s5
  BY DEF ConversionTo, converted
<1>3. \A c \in Currency : Fee(ev, c) = IF c = ev.fee_ccy THEN ev.fee ELSE Zero
  BY <1>1 DEF Fee
<1>4a. id[1] = sid
  BY DEF NextId
<1>4. /\ DrainDebts(st, s1, ev.from, res.borrowed_qty, id) /\ CashSound(s1)
      /\ ResultOK(res) /\ (Positive(res.borrowed_qty) => res.borrow_id = id)
  <2>1. DrainOK(st, ev.from, res, id)
    BY <1>1, Drains
  <2> HIDE DEF res, id
  <2> QED
    BY <2>1 DEF DrainOK
<1>5. FeesKept(st, s1, sid)
  BY <1>1, DrainFees DEF Ready
<1>6. Positive(res.borrowed_qty) => res.borrow_id[1] = sid
  BY <1>4, <1>4a
<1> HIDE DEF res, id
<1>7. FeesKept(s1, s2, sid) /\ CashSound(s2) /\ LoansKept(s1, s2)
  <2>1. CASE ~Positive(ev.to_amt)
    <3>1. s2 = s1
      BY <2>1 DEF bucket_deposit
    <3>2. FeesKept(s1, s1, sid)
      BY <1>5 DEF FeesKept
    <3> QED
      BY <1>4, <3>1, <3>2 DEF LoansKept
  <2>2. CASE Positive(ev.to_amt)
    <3>1. fx \in Rat
      BY <1>1, <2>2, DivType
    <3>2. Keyed(s1, sid)
      BY <1>5 DEF FeesKept
    <3> HIDE DEF fx, s1
    <3>3. FeesKept(s1, s2, sid)
      BY <1>1, <1>4, <3>1, <3>2, DepositFees
    <3>4. CashSound(s2)
      BY <1>1, <1>4, <3>1, Deposited DEF CashKeeps
    <3>5. LoansKept(s1, s2)
      BY <1>1, <1>4, <3>1, DepositLoans
    <3> QED
      BY <3>3, <3>4, <3>5
  <2> QED
    BY <2>1, <2>2
<1> HIDE DEF s2
<1>8. FeesKept(st, s2, sid) /\ DOMAIN s2.pending_borrows = DOMAIN st.pending_borrows
  <2>1. FeesKept(st, s2, sid)
    BY <1>5, <1>7, FeesTrans
  <2>2. DOMAIN s2.pending_borrows = DOMAIN st.pending_borrows
    BY <1>4, <1>7 DEF DrainDebts, LoansKept
  <2> QED
    BY <2>1, <2>2
<1>9. st \in StateSet
  BY DEF CashSound
<1>10. FeesMove(st, s3, sid, ev.from, Zero)
  <2>1. "convert" \in {"buy", "convert"} /\ "convert" # "buy" /\ Zero \in Rat
    BY ZeroType
  <2>2. /\ Positive(res.borrowed_qty) =>
             FeesMove(st, s3, sid, ev.from, IF "convert" = "buy" THEN Zero ELSE Zero)
        /\ ~Positive(res.borrowed_qty) => s3 = s2
    BY <1>1, <1>4, <1>6, <1>7, <1>8, <2>1, EnteredFees
  <2>3. FeesMove(st, s2, sid, ev.from, Zero)
    BY <1>1, <1>8, <1>9, KeptIsMove
  <2> QED
    BY <2>2, <2>3
<1>11. CashSound(s3)
  <2>1. "convert" \in {"buy", "convert"}
    OBVIOUS
  <2>2. RegisteredAs(s2, s3, ev.from, res)
    BY <1>1, <1>4, <1>7, <2>1, ZeroType, Registers
  <2> QED
    BY <2>2 DEF RegisteredAs
<1> HIDE DEF s3
<1>12. FeesKept(s3, s4, sid) /\ CashSound(s4)
  <2> DEFINE fres == bucket_drain(s3, ev.fee_ccy, ev.fee, None, sid)
  <2>1. None \in Rat \cup {None}
    OBVIOUS
  <2>2. Keyed(s3, sid)
    BY <1>10 DEF FeesMove
  <2>3. FeesKept(s3, fres.st, sid)
    BY <1>1, <1>11, <2>1, <2>2, DrainFees
  <2>4. s4 = fres.st
    BY DEF drain
  <2>5. CashSound(s4)
    BY <1>1, <1>11, Paid DEF CashKeeps
  <2> QED
    BY <2>3, <2>4, <2>5
<1> HIDE DEF s4
<1>13. FeesMove(st, s4, sid, ev.from, Zero)
  BY <1>10, <1>12, MoveKept
<1>14. FeesMove(st, s5, sid, ev.fee_ccy, ev.fee)
  BY <1>1, <1>9, <1>12, <1>13, StillBooked
<1> QED
  BY <1>2, <1>3, <1>14, MoveAfter

(***************************************************************************)
(* The fee of a trade                                                      *)
(***************************************************************************)

LEMMA TrackedFees ==
  ASSUME NEW s, WalletOK(s), NEW ev, TradeOK(ev), sid \in Nat, NEW fx \in Rat, Keyed(s, sid)
  PROVE  /\ FeesKept(s, track_buy(s, ev, fx), sid) /\ WalletOK(track_buy(s, ev, fx))
         /\ FeesKept(s, track_sell(s, ev, fx), sid) /\ WalletOK(track_sell(s, ev, fx))
<1> DEFINE b == track_buy(s, ev, fx)
           u == track_sell(s, ev, fx)
<1>1. WalletOK(b) /\ WalletOK(u)
  <2>1. LegKeeps(s, b)
    BY TrackBuy
  <2>2. LegKeeps(s, u)
    BY TrackSell
  <2> QED
    BY <2>1, <2>2 DEF LegKeeps
<1>2. SameBooks(s, b) /\ SameBooks(s, u)
  <2>1. s \in StateSet
    BY DEF WalletOK, CashSound
  <2>2. SameBooks(s, b)
    BY <2>1 DEF track_buy, StateSet, SameBooks
  <2>3. SameBooks(s, u)
    BY <2>1 DEF track_sell, StateSet, SameBooks
  <2> QED
    BY <2>2, <2>3
<1>3. b \in StateSet /\ u \in StateSet
  BY <1>1 DEF WalletOK, CashSound
<1> HIDE DEF b, u
<1>4. FeesKept(s, b, sid) /\ FeesKept(s, u, sid)
  BY <1>1, <1>2, <1>3, SameFees
<1> QED
  BY <1>1, <1>2, <1>4 DEF b, u

\* A purchase books its fee at once, or enters it with its loan.
LEMMA BuyFees ==
  ASSUME NEW st, WalletOK(st), NEW ev, TradeOK(ev), sid \in Nat \ {0}, Ready(st)
  PROVE  FeesMove(st, buy_in_currency(st, ev), sid, ev.ccy, ev.fees)
<1> DEFINE amount == Gross(ev) ++ ev.fees
           res == bucket_drain(st, ev.ccy, amount, None, sid)
           id == NextId(st, ev.ccy, sid)
           s == res.st
           q == res.borrowed_qty
           prov == IF res.lot_backed_basis = None THEN One ELSE res.lot_backed_basis
           reg == register_borrow(s, res, "buy", ev.ccy, sid, ev.fees, One)
           tracked == track_buy(reg, ev, prov)
           u == buy_in_currency(st, ev)
<1>1. /\ ev.ccy \in Currency /\ ev.fees \in Rat /\ amount \in Rat /\ CashSound(st)
      /\ None \in Rat \cup {None} /\ One \in Rat /\ sid \in Nat /\ Keyed(st, sid)
      /\ "buy" \in {"buy", "convert"} /\ st \in StateSet
  BY TradeAmounts, OneRatio DEF TradeOK, WalletOK, CashSound, Ready
<1> HIDE DEF amount
<1>2. u = IF ev.ccy = Base THEN add_fees(s, Base, ev.fees, One)
          ELSE IF Positive(q) THEN tracked
          ELSE add_fees(tracked, ev.ccy, ev.fees, prov)
  BY DEF buy_in_currency, bought_with, amount
<1>3a. id[1] = sid
  BY DEF NextId
<1>3. /\ CashSound(s) /\ ResultOK(res) /\ (Positive(q) => res.borrow_id = id)
      /\ DOMAIN s.pending_borrows = DOMAIN st.pending_borrows
  <2>1. DrainOK(st, ev.ccy, res, id)
    BY <1>1, Drains
  <2> HIDE DEF res, id
  <2> QED
    BY <2>1 DEF DrainOK, DrainDebts
<1>4. FeesKept(st, s, sid)
  BY <1>1, DrainFees
<1>5. prov \in Rat
  BY <1>1, <1>3 DEF ResultOK
<1>6. Positive(q) => res.borrow_id[1] = sid
  BY <1>3, <1>3a
<1>7. CashKeeps(st, s)
  BY <1>1, Drained DEF DrainWell
<1> HIDE DEF res, id, u, prov
<1>8. /\ Positive(q) => FeesMove(st, reg, sid, ev.ccy, ev.fees)
      /\ ~Positive(q) => reg = s
  <2>1. /\ Positive(q) => FeesMove(st, reg, sid, ev.ccy, IF "buy" = "buy" THEN ev.fees ELSE Zero)
        /\ ~Positive(q) => reg = s
    BY <1>1, <1>3, <1>4, <1>6, EnteredFees
  <2> QED
    BY <2>1
<1>9. WalletOK(reg) /\ Keyed(reg, sid)
  <2>1. CashKeeps(s, reg)
    BY <1>1, <1>3, Registered
  <2>2. CashKeeps(st, reg)
    BY <1>7, <2>1, CashKeepsTrans
  <2> HIDE DEF reg
  <2>3. WalletOK(reg)
    BY <2>2, CashLeg DEF LegKeeps
  <2>4. Keyed(reg, sid)
    BY <1>4, <1>8 DEF FeesMove, FeesKept
  <2> QED
    BY <2>3, <2>4
<1> HIDE DEF reg
<1>10. FeesKept(reg, tracked, sid) /\ CashSound(tracked)
  BY <1>1, <1>5, <1>9, TrackedFees DEF WalletOK
<1> HIDE DEF tracked
<1>11. CASE ev.ccy = Base
  <2>1. u = add_fees(s, ev.ccy, ev.fees, One)
    BY <1>2, <1>11
  <2>2. FeesMove(st, u, sid, ev.ccy, ev.fees)
    BY <1>1, <1>3, <1>4, <2>1, ThenBooked
  <2> QED
    BY <2>2 DEF u
<1>12. CASE ev.ccy # Base /\ Positive(q)
  <2>1. FeesMove(st, tracked, sid, ev.ccy, ev.fees)
    BY <1>8, <1>10, <1>12, MoveKept
  <2> QED
    BY <1>2, <1>12, <2>1 DEF u
<1>13. CASE ev.ccy # Base /\ ~Positive(q)
  <2>1. FeesKept(st, tracked, sid)
    BY <1>4, <1>8, <1>10, <1>13, FeesTrans
  <2>2. u = add_fees(tracked, ev.ccy, ev.fees, prov)
    BY <1>2, <1>13
  <2>3. FeesMove(st, u, sid, ev.ccy, ev.fees)
    BY <1>1, <1>5, <1>10, <2>1, <2>2, ThenBooked
  <2> QED
    BY <2>3 DEF u
<1> QED
  BY <1>11, <1>12, <1>13

LEMMA SoldFees ==
  ASSUME NEW st, NEW s, WalletOK(s), NEW ev, TradeOK(ev), NEW fx \in Rat, sid \in Nat,
         FeesKept(st, s, sid)
  PROVE  FeesMove(st, sold_at(s, ev, fx), sid, ev.ccy, ev.fees)
<1> DEFINE d == bucket_deposit(s, ev.ccy, Gross(ev) -- ev.fees, fx)
<1>1. ev.ccy \in Currency /\ ev.fees \in Rat /\ Gross(ev) -- ev.fees \in Rat
  BY TradeAmounts DEF TradeOK
<1>2. CashSound(s) /\ Keyed(s, sid)
  BY DEF WalletOK, FeesKept
<1>3. FeesKept(s, d, sid) /\ CashSound(d)
  BY <1>1, <1>2, DepositFees, Deposited DEF CashKeeps
<1>4. sold_at(s, ev, fx) = add_fees(d, ev.ccy, ev.fees, fx)
  BY DEF sold_at
<1> HIDE DEF d
<1>5. FeesKept(st, d, sid)
  BY <1>3, FeesTrans
<1> QED
  BY <1>1, <1>3, <1>4, <1>5, ThenBooked

LEMMA SellFees ==
  ASSUME NEW st, WalletOK(st), NEW ev, TradeOK(ev), sid \in Nat, Keyed(st, sid)
  PROVE  FeesMove(st, sell_in_currency(st, ev), sid, ev.ccy, ev.fees)
<1> DEFINE t == track_sell(st, ev, One)
<1>1. st \in StateSet /\ One \in Rat
  BY OneRatio DEF WalletOK, CashSound
<1>2. CASE ev.ccy = Base
  <2>1. FeesKept(st, st, sid)
    BY <1>1 DEF FeesKept
  <2>2. FeesMove(st, sold_at(st, ev, One), sid, ev.ccy, ev.fees)
    BY <1>1, <2>1, SoldFees
  <2> QED
    BY <1>2, <2>2 DEF sell_in_currency
<1>3. CASE ev.ccy # Base
  <2>1. t.foreign_sell_fx_basis[sid] \in Rat
    BY <1>1, TrackSell
  <2>2. FeesKept(st, t, sid) /\ WalletOK(t)
    BY <1>1, TrackedFees
  <2>3. sell_in_currency(st, ev) = sold_at(t, ev, t.foreign_sell_fx_basis[sid])
    BY <1>3 DEF sell_in_currency, sold_tracked
  <2> HIDE DEF t
  <2> QED
    BY <2>1, <2>2, <2>3, SoldFees
<1> QED
  BY <1>2, <1>3

LEMMA SettleFees ==
  ASSUME NEW st, WalletOK(st), NEW ev, TradeOK(ev), sid \in Nat, settled_in_base(ev),
         Keyed(st, sid)
  PROVE  FeesMove(st, settle_in_base(st, ev), sid, Base, ev.fees ** ev.rate)
<1> DEFINE paid == (Gross(ev) ++ ev.fees) ** ev.rate
           brought == (Gross(ev) -- ev.fees) ** ev.rate
           f == ev.fees ** ev.rate
           s == drain(st, Base, paid)
           d == bucket_deposit(st, Base, brought, One)
           a == track_buy(s, ev, ev.rate)
           b == track_sell(d, ev, ev.rate)
<1>1. /\ ev.rate \in Rat /\ Base \in Currency /\ f \in Rat /\ One \in Rat
      /\ paid \in Rat /\ brought \in Rat /\ CashSound(st) /\ None \in Rat \cup {None}
  BY BaseAssumption, TradeAmounts, MulType, OneRatio DEF TradeOK, WalletOK
<1>2. settle_in_base(st, ev) = add_fees(IF ev.side = "buy" THEN a ELSE b, Base, f, One)
  BY DEF settle_in_base
<1> HIDE DEF paid, brought, f
<1>3. FeesKept(st, s, sid) /\ WalletOK(s)
  <2> DEFINE res == bucket_drain(st, Base, paid, None, sid)
  <2>1. FeesKept(st, res.st, sid)
    BY <1>1, DrainFees
  <2>2. s = res.st
    BY DEF drain
  <2>3. CashKeeps(st, s)
    BY <1>1, Paid
  <2> HIDE DEF s, res
  <2>4. WalletOK(s)
    BY <2>3, CashLeg DEF LegKeeps
  <2> QED
    BY <2>1, <2>2, <2>4
<1>4. FeesKept(st, d, sid) /\ WalletOK(d)
  <2>1. FeesKept(st, d, sid)
    BY <1>1, DepositFees
  <2>2. CashKeeps(st, d)
    BY <1>1, Deposited
  <2> HIDE DEF d
  <2>3. WalletOK(d)
    BY <2>2, CashLeg DEF LegKeeps
  <2> QED
    BY <2>1, <2>3
<1> HIDE DEF s, d
<1>5. FeesKept(st, a, sid) /\ CashSound(a)
  <2>1. FeesKept(s, a, sid) /\ WalletOK(a)
    BY <1>1, <1>3, TrackedFees DEF FeesKept
  <2> QED
    BY <1>3, <2>1, FeesTrans DEF WalletOK
<1>6. FeesKept(st, b, sid) /\ CashSound(b)
  <2>1. FeesKept(d, b, sid) /\ WalletOK(b)
    BY <1>1, <1>4, TrackedFees DEF FeesKept
  <2> QED
    BY <1>4, <2>1, FeesTrans DEF WalletOK
<1> HIDE DEF a, b
<1>7. FeesMove(st, add_fees(a, Base, f, One), sid, Base, f)
  BY <1>1, <1>5, ThenBooked
<1>8. FeesMove(st, add_fees(b, Base, f, One), sid, Base, f)
  BY <1>1, <1>6, ThenBooked
<1>9. FeesMove(st, settle_in_base(st, ev), sid, Base, f)
  BY <1>2, <1>7, <1>8
<1> QED
  BY <1>9 DEF f

LEMMA TradeFees ==
  ASSUME NEW st, Sound(st), NEW ev, Traded(ev), EventOK(ev), sid \in Nat \ {0}, Ready(st)
  PROVE  FeesAfter(st, TradeTo(st, ev), ev)
<1> DEFINE p == cash_leg(st, ev)
           f == IF settled_in_base(ev) THEN ev.fees ** ev.rate ELSE ev.fees
<1>1. TradeOK(ev) /\ WalletOK(st) /\ Keyed(st, sid) /\ sid \in Nat
  BY DEF Traded, TradeOK, EventOK, Sound, Ready
<1>2. FeesMove(st, p, sid, LegCcy(ev), f)
  <2>1. CASE settled_in_base(ev)
    BY <1>1, <2>1, SettleFees DEF cash_leg, LegCcy
  <2>2. CASE ~settled_in_base(ev)
    BY <1>1, <2>2, BuyFees, SellFees DEF cash_leg, LegCcy
  <2> QED
    BY <2>1, <2>2
<1>3. \A c \in Currency : Fee(ev, c) = IF c = LegCcy(ev) THEN f ELSE Zero
  <2>1. ev.type = "TRADE"
    BY DEF Traded
  <2> QED
    BY <2>1 DEF Fee, LegCcy
<1>4. p \in StateSet
  BY <1>1, TradeLeg DEF WalletOK, CashSound
<1> HIDE DEF p, f
<1>5. SameBooks(p, TradeTo(st, ev)) /\ TradeTo(st, ev) \in StateSet
  <2>1. SameBooks(p, TradeTo(st, ev))
    BY <1>4 DEF TradeTo, WithInst, StateSet, SameBooks, p
  <2>2. EventStep(st, TradeTo(st, ev), ev)
    BY <1>1, TradeStep
  <2>3. TradeTo(st, ev) \in StateSet
    BY <2>2 DEF EventStep, Sound, WalletOK, CashSound
  <2> QED
    BY <2>1, <2>3
<1>6. FeesKept(p, TradeTo(st, ev), sid)
  BY <1>2, <1>5, SameFees DEF FeesMove
<1>7. FeesMove(st, TradeTo(st, ev), sid, LegCcy(ev), f)
  BY <1>2, <1>6, MoveKept
<1> QED
  BY <1>3, <1>7, MoveAfter

\* An event books its fee or enters it with its loan, and settles no fee twice.
LEMMA EventFees ==
  ASSUME NEW st, Sound(st), NEW ev, EventOK(ev), sid \in Nat \ {0}, Ready(st)
  PROVE  FeesAfter(st, EventTo(st, ev), ev)
<1>1. CashSound(st) /\ st \in StateSet /\ Keyed(st, sid) /\ sid \in Nat
  BY DEF Sound, WalletOK, CashSound, Ready
<1>2. CASE Traded(ev)
  BY <1>2, TradeFees DEF EventTo
<1>3. CASE ~Traded(ev) /\ Transfers(ev)
  <2>1. SameBooks(st, TransferTo(st, ev))
    BY <1>1 DEF TransferTo, WithInst, StateSet, SameBooks
  <2>2. EventStep(st, TransferTo(st, ev), ev)
    BY <1>1, <1>3, TransferStep
  <2>3. TransferTo(st, ev) \in StateSet
    BY <2>2 DEF EventStep, Sound, WalletOK, CashSound
  <2>4. FeesKept(st, TransferTo(st, ev), sid)
    BY <1>1, <2>1, <2>3, SameFees
  <2>5. \A c \in Currency : Fee(ev, c) = Zero
    BY <1>3 DEF Fee, Transfers
  <2>6. FeesAfter(st, TransferTo(st, ev), ev)
    BY <1>1, <2>4, <2>5, KeptAfter
  <2> QED
    BY <1>3, <2>6 DEF EventTo
<1>4. CASE ~Traded(ev) /\ ~Transfers(ev) /\ ev.type \in {"CASHFLOW", "DIVIDEND", "FX_CONVERSION"}
  BY <1>1, <1>4, CashflowFees, DividendFees, ConversionFees DEF EventTo
<1>5. CASE /\ ~Traded(ev) /\ ~Transfers(ev)
           /\ ev.type \notin {"CASHFLOW", "DIVIDEND", "FX_CONVERSION"}
  <2>1. \A c \in Currency : Fee(ev, c) = Zero
    BY <1>5 DEF Fee
  <2>2. EventTo(st, ev) = st
    BY <1>5 DEF EventTo
  <2> QED
    BY <1>1, <2>1, <2>2, StaysSame
<1> QED
  BY <1>2, <1>3, <1>4, <1>5

LEMMA FeeType ==
  ASSUME NEW ev, EventOK(ev), NEW c \in Currency
  PROVE  Fee(ev, c) \in Rat
<1>1. CASE Traded(ev)
  <2>1. TradeOK(ev)
    BY <1>1 DEF Traded, TradeOK, EventOK
  <2>2. ev.fees \in Rat /\ (settled_in_base(ev) => ev.fees ** ev.rate \in Rat)
    BY <2>1, TradeAmounts, MulType DEF TradeOK
  <2>3. ev.type = "TRADE" /\ ev.ccy \in Currency
    BY <1>1 DEF Traded, EventOK
  <2> QED
    BY <1>1, <2>2, <2>3, ZeroType DEF Fee
<1>2. CASE ~Traded(ev) /\ ev.type = "CASHFLOW"
  BY <1>2, ZeroType DEF Fee, EventOK
<1>3. CASE ~Traded(ev) /\ ev.type = "DIVIDEND"
  <2>1. /\ ev.withholding \in Rat /\ (ev.rate = None \/ ev.rate \in Rat)
    BY <1>3 DEF EventOK
  <2>2. Withheld(ev) \in Rat
    BY <2>1, MinMax, ZeroType DEF Withheld
  <2>3. settled_in_base(ev) => Withheld(ev) ** ev.rate \in Rat
    BY <2>1, <2>2, MulType DEF settled_in_base
  <2> QED
    BY <1>3, <2>2, <2>3, ZeroType DEF Fee
<1>4. CASE ~Traded(ev) /\ ev.type = "FX_CONVERSION"
  BY <1>4, ZeroType DEF Fee, EventOK
<1>5. CASE ~Traded(ev) /\ ev.type \notin {"CASHFLOW", "DIVIDEND", "FX_CONVERSION"}
  BY <1>5, ZeroType DEF Fee
<1> QED
  BY <1>1, <1>2, <1>3, <1>4, <1>5

(***************************************************************************)
(* Every fee is booked once                                                *)
(***************************************************************************)

FeesOf(events, c) == [n \in DOMAIN events |-> Fee(events[n], c)]

\* Every entry of the registry belongs to an event of the log, which has no
\* other; the fees booked and to be booked are those of the events.
FeesInOrder ==
  /\ Keyed(state, Len(log))
  /\ \A c \in Currency : FeeBal(state, Len(log), c) = SumOf(FeesOf(log, c))

LEMMA FeesOfType ==
  ASSUME NEW events \in Seq(Event), NEW c \in Currency
  PROVE  /\ FeesOf(events, c) \in [1..Len(events) -> Rat]
         /\ \A n \in 1..Len(events) : FeesOf(events, c)[n] = Fee(events[n], c)
<1>1. DOMAIN events = 1..Len(events)
  OBVIOUS
<1>2. \A n \in 1..Len(events) : EventOK(events[n])
  BY EventAssumption
<1>3. \A n \in 1..Len(events) : Fee(events[n], c) \in Rat
  BY <1>2, FeeType
<1> QED
  BY <1>1, <1>3 DEF FeesOf

LEMMA InitFees == Init => FeesInOrder
<1> SUFFICES ASSUME Init PROVE FeesInOrder
  OBVIOUS
<1>1. DOMAIN state.pending_borrows = {} /\ log = <<>> /\ Len(log) = 0
  BY DEF Init
<1>2. Keyed(state, Len(log))
  BY <1>1 DEF Keyed
<1>3. ASSUME NEW c \in Currency PROVE FeeBal(state, Len(log), c) = SumOf(FeesOf(log, c))
  <2>1. state.currencies[c].fees_native = Zero
    BY DEF Init, EmptyBucket
  <2>2. FeesOf(<<>>, c) = <<>>
    BY DEF FeesOf
  <2>3. Ledger(state, 0, FeeW(c)) = <<>>
    BY DEF Ledger
  <2>4. SumOf(<<>>) = Zero /\ Zero ++ Zero = Zero
    BY SumEmpty, AddZero, ZeroType
  <2> QED
    BY <1>1, <2>1, <2>2, <2>3, <2>4 DEF FeeBal
<1> QED
  BY <1>2, <1>3 DEF FeesInOrder

\* The event to come has no loan and no entry yet.
LEMMA NextReady ==
  ASSUME Books, LoansInOrder, FeesInOrder, sid = Len(log) + 1, Len(log) \in Nat
  PROVE  /\ Ready(state)
         /\ \A c \in Currency : FeeBal(state, sid, c) = FeeBal(state, Len(log), c)
<1> DEFINE N == Len(log)
<1>1. sid \in Nat /\ sid > N
  OBVIOUS
<1>2. Fresh(state, sid)
  <2> SUFFICES ASSUME NEW id \in BorrowId, id[1] = sid
               PROVE  /\ id \notin DOMAIN state.pending_borrows
                      /\ \A c \in Currency : Debt(state, c, id) = Zero
    BY DEF Fresh
  <2>1. id[1] \notin 1..N /\ id[1] > N
    BY <1>1
  <2> QED
    BY <2>1 DEF LoansInOrder
<1>3. state \in StateSet /\ Keyed(state, N)
  BY DEF Books, Sound, WalletOK, CashSound, FeesInOrder
<1> HIDE DEF N
<1>4. \A w \in Weights :
        /\ Keyed(state, N + 1) /\ Slot(state, N + 1) = {}
        /\ SumOf(Ledger(state, N + 1, w)) = SumOf(Ledger(state, N, w))
  BY <1>3, LedgerLonger DEF N
<1>5. \A c \in Currency : FeeW(c) \in Weights
  BY FeeWeight
<1>6. \A c \in Currency : FeeBal(state, sid, c) = FeeBal(state, N, c)
  BY <1>4, <1>5 DEF FeeBal, N
<1>7. Keyed(state, sid) /\ Slot(state, sid) = {}
  BY <1>4, <1>5, BaseAssumption DEF N
<1> QED
  BY <1>2, <1>6, <1>7 DEF Ready, N

LEMMA NextFees == Books /\ LoansInOrder /\ FeesInOrder /\ [Next]_vars => FeesInOrder'
<1> SUFFICES ASSUME Books, LoansInOrder, FeesInOrder, [Next]_vars PROVE FeesInOrder'
  OBVIOUS
<1>1. ASSUME NEW ev \in Event, accumulate(ev) PROVE FeesInOrder'
  <2> DEFINE N == Len(log)
             s == EventTo(state, ev)
  <2>1. /\ log \in Seq(Event) /\ log' \in Seq(Event) /\ Len(log') = N + 1 /\ N \in Nat
        /\ sid = N + 1 /\ log'[N + 1] = ev /\ \A n \in 1..N : log'[n] = log[n]
    BY <1>1, Accumulated DEF Books
  <2>2. sid \in Nat \ {0} /\ sid \in Nat
    BY <2>1
  <2>3. state' = s
    BY <1>1, <2>2, EventIs DEF Books
  <2>4. /\ Ready(state)
        /\ \A c \in Currency : FeeBal(state, sid, c) = FeeBal(state, N, c)
    BY <2>1, NextReady
  <2>5. EventOK(ev)
    BY EventAssumption
  <2>6. FeesAfter(state, s, ev)
    BY <2>2, <2>4, <2>5, EventFees DEF Books
  <2> HIDE DEF s
  <2>7. Keyed(s, N + 1)
    BY <2>1, <2>6 DEF FeesAfter
  <2>8. ASSUME NEW c \in Currency PROVE FeeBal(s, N + 1, c) = SumOf(FeesOf(log', c))
    <3> DEFINE p == FeesOf(log, c)
               r == FeesOf(log', c)
    <3>1. p \in [1..N -> Rat] /\ \A n \in 1..N : p[n] = Fee(log[n], c)
      BY <2>1, FeesOfType
    <3>2. r \in [1..N + 1 -> Rat] /\ \A n \in 1..N + 1 : r[n] = Fee(log'[n], c)
      BY <2>1, FeesOfType
    <3>3. \A n \in 1..N : r[n] = p[n]
      BY <2>1, <3>1, <3>2
    <3>4. r[N + 1] = Fee(ev, c)
      BY <2>1, <3>2
    <3> HIDE DEF p, r
    <3>5. SumOf(r) = SumOf(p) ++ Fee(ev, c)
      BY <2>1, <3>1, <3>2, <3>3, <3>4, SumExtended
    <3>6. FeeBal(state, sid, c) = SumOf(p)
      BY <2>4 DEF FeesInOrder, p
    <3>7. FeeBal(s, sid, c) = FeeBal(state, sid, c) ++ Fee(ev, c)
      BY <2>6 DEF FeesAfter
    <3> QED
      BY <2>1, <3>5, <3>6, <3>7 DEF r
  <2>9. /\ Keyed(state', Len(log'))
        /\ \A c \in Currency : FeeBal(state', Len(log'), c) = SumOf(FeesOf(log', c))
    BY <2>1, <2>3, <2>7, <2>8
  <2> QED
    BY <2>9 DEF FeesInOrder, Keyed, FeeBal, FeeW, Ledger, At, Slot, FeesOf, Fee
<1>2. CASE UNCHANGED vars
  <2>1. state' = state /\ log' = log
    BY <1>2 DEF vars
  <2>2. /\ Keyed(state', Len(log'))
        /\ \A c \in Currency : FeeBal(state', Len(log'), c) = SumOf(FeesOf(log', c))
    BY <2>1 DEF FeesInOrder
  <2> QED
    BY <2>2 DEF FeesInOrder, Keyed, FeeBal, FeeW, Ledger, At, Slot, FeesOf, Fee
<1> QED
  BY <1>1, <1>2 DEF Next

\* What is still to be booked of n is the fee of its open loan.
LEMMA OpenFee ==
  ASSUME state \in StateSet, NEW M \in Nat, Keyed(state, M), NEW n, NEW c \in Currency
  PROVE  At(state, n, FeeW(c))
           = IF Loans("buy", n) = {} THEN Zero
             ELSE IF Loan("buy", n).from_ccy = c THEN Loan("buy", n).fee_native ELSE Zero
<1>1. Loans("buy", n) \subseteq Slot(state, n)
  BY DEF Loans, Slot
<1>2. CASE Slot(state, n) = {}
  BY <1>1, <1>2 DEF At
<1>3. CASE Slot(state, n) # {}
  <2>1. PICK id \in DOMAIN state.pending_borrows : state.pending_borrows[id].consumer = n
    BY <1>3 DEF Slot
  <2> DEFINE pb == state.pending_borrows[id]
  <2>2. Slot(state, n) = {id} /\ At(state, n, FeeW(c)) = FeeW(c)[pb]
    <3> HIDE DEF pb
    <3> QED
      BY <2>1, AtIs DEF pb
  <2>3. pb \in PendingSet
    BY PartialType, StateFields
  <2>4. FeeW(c)[pb] = IF pb.consumer_kind = "buy" /\ ~pb.finalized /\ pb.from_ccy = c
                      THEN pb.fee_native ELSE Zero
    <3> HIDE DEF pb
    <3> QED
      BY <2>3, FeeWeight
  <2>5. CASE pb.consumer_kind = "buy" /\ ~pb.finalized
    <3>1. Loans("buy", n) = {id}
      BY <1>1, <2>1, <2>2, <2>5 DEF Loans
    <3>2. (CHOOSE x \in Loans("buy", n) : TRUE) = id
      BY <3>1
    <3>3. Loan("buy", n) = pb
      BY <3>2 DEF Loan
    <3> HIDE DEF pb
    <3> QED
      BY <2>2, <2>4, <2>5, <3>1, <3>3
  <2>6. CASE ~(pb.consumer_kind = "buy" /\ ~pb.finalized)
    <3>1. Loans("buy", n) = {}
      BY <1>1, <2>2, <2>6 DEF Loans
    <3> QED
      BY <2>2, <2>4, <2>6, <3>1
  <2> QED
    BY <2>5, <2>6
<1> QED
  BY <1>2, <1>3

\* Every fee is booked once: at once, or, for a purchase on margin, when its
\* loan is covered in full, through partial covers, conversions and whatever
\* else comes between (_apply_buy, _on_cover, _finalize_borrow).
THEOREM FoldFees == Spec => []FeesBookedOnce
<1>1. Init => Books /\ LoansInOrder /\ FeesInOrder
  BY InitSound, InitLoans, InitFees
<1>2. Books /\ LoansInOrder /\ FeesInOrder /\ [Next]_vars
        => (Books /\ LoansInOrder /\ FeesInOrder)'
  BY NextSound, NextLoans, NextFees
<1>3. Books /\ FeesInOrder => FeesBookedOnce
  <2> SUFFICES ASSUME Books, FeesInOrder, NEW c \in Currency
               PROVE  Bucket(c).fees_native
                        = LogTotal(LAMBDA n : Fee(log[n], c))
                            -- LoanTotal("buy", LAMBDA pb :
                                 IF pb.from_ccy = c THEN pb.fee_native ELSE Zero)
    BY DEF FeesBookedOnce
  <2> DEFINE N == Len(log)
             fees == SumOf(FeesOf(log, c))
             open == SumOf(Ledger(state, N, FeeW(c)))
             booked == state.currencies[c].fees_native
  <2>1. state \in StateSet /\ N \in Nat /\ DOMAIN log = 1..N /\ Keyed(state, N)
    BY DEF Books, Sound, WalletOK, CashSound, FeesInOrder
  <2>2. LogTotal(LAMBDA n : Fee(log[n], c)) = fees
    BY DEF LogTotal, FeesOf
  <2>3. LoanTotal("buy", LAMBDA pb : IF pb.from_ccy = c THEN pb.fee_native ELSE Zero) = open
    <3>1. \A n \in 1..N :
            At(state, n, FeeW(c))
              = IF Loans("buy", n) = {} THEN Zero
                ELSE IF Loan("buy", n).from_ccy = c THEN Loan("buy", n).fee_native ELSE Zero
      BY <2>1, OpenFee
    <3>2. Ledger(state, N, FeeW(c))
            = [n \in DOMAIN log |->
                 IF Loans("buy", n) = {} THEN Zero
                 ELSE IF Loan("buy", n).from_ccy = c THEN Loan("buy", n).fee_native ELSE Zero]
      BY <2>1, <3>1 DEF Ledger
    <3> QED
      BY <3>2 DEF LoanTotal, LogTotal
  <2>4. booked ++ open = fees
    BY DEF FeesInOrder, FeeBal
  <2>5. booked \in Rat
    BY <2>1, FeeBalType
  <2>6. open \in Rat
    BY <2>1, FeeWeight, LedgerType
  <2>7. Bucket(c).fees_native = booked
    BY DEF Bucket
  <2> HIDE DEF booked, open, fees
  <2>8. booked = fees -- open
    BY <2>4, <2>5, <2>6, AddSub
  <2> QED
    BY <2>2, <2>3, <2>7, <2>8
<1> QED
  BY <1>1, <1>2, <1>3, PTL DEF Spec

(***************************************************************************)
(* What an event does to the value                                         *)
(***************************************************************************)

\* A part of an event that takes no loan and enters none.
Still(st, s, x) ==
  /\ WorthStep(st, s, sid, x)
  /\ Slot(s, sid) = Slot(st, sid)
  /\ DOMAIN s.pending_borrows = DOMAIN st.pending_borrows
  /\ \A id \in BorrowId : \A c \in Currency :
       Debt(st, c, id) = Zero => Debt(s, c, id) = Zero

LEMMA StillTrans ==
  ASSUME NEW st \in StateSet, NEW s, NEW u, sid \in Nat, NEW x \in Rat, NEW y \in Rat,
         Still(st, s, x), Still(s, u, y)
  PROVE  Still(st, u, x ++ y)
<1>1. WorthStep(st, u, sid, x ++ y)
  BY WorthTrans DEF Still
<1> QED
  BY <1>1 DEF Still

LEMMA StillSame ==
  ASSUME NEW st \in StateSet, NEW s \in StateSet, sid \in Nat, Keyed(st, sid),
         LoansSame(st, s), s.buy_fx_basis = st.buy_fx_basis,
         \A c \in Currency : Purse(s.currencies[c]) = Purse(st.currencies[c]),
         SalesKept(st, s, sid)
  PROVE  Still(st, s, Zero)
<1>1. s.pending_borrows = st.pending_borrows
  BY DEF LoansSame
<1>2. WorthStep(st, s, sid, Zero)
  BY <1>1, WorthSame
<1>3. Slot(s, sid) = Slot(st, sid)
  BY <1>1 DEF Slot
<1>4. \A id : \A c \in Currency : Debt(s, c, id) = Debt(st, c, id)
  BY DEF Debt, LoansSame
<1> QED
  BY <1>1, <1>2, <1>3, <1>4 DEF Still

LEMMA DepositStill ==
  ASSUME NEW st, CashSound(st), Lent(st), NEW ccy \in Currency, Entered(st, ccy),
         NEW qty \in Rat, NEW fx \in Rat, sid \in Nat, Keyed(st, sid),
         NEW d, d = bucket_deposit(st, ccy, qty, fx)
  PROVE  /\ Still(st, d, Zero -- (Moved(qty) ** fx))
         /\ CashSound(d) /\ d.foreign_sell_fx_basis = st.foreign_sell_fx_basis
<1>1. WorthStep(st, d, sid, Zero -- (Moved(qty) ** fx))
  BY DepositWorth
<1>2. LoansKept(st, d)
  BY DepositLoans
<1>3. Slot(d, sid) = Slot(st, sid)
  BY DepositFees DEF FeesKept
<1>4. CashKeeps(st, d)
  BY Deposited
<1>5. Still(st, d, Zero -- (Moved(qty) ** fx))
  BY <1>1, <1>2, <1>3 DEF Still, LoansKept
<1> QED
  BY <1>4, <1>5 DEF CashKeeps, SameEquity

LEMMA FeesStill ==
  ASSUME NEW st, CashSound(st), NEW ccy \in Currency, NEW native \in Rat, NEW fx \in Rat,
         sid \in Nat, Keyed(st, sid), NEW s, s = add_fees(st, ccy, native, fx)
  PROVE  /\ Still(st, s, Zero) /\ s.buy_fx_basis = st.buy_fx_basis
         /\ s.foreign_sell_fx_basis = st.foreign_sell_fx_basis
         /\ s.pending_borrows = st.pending_borrows
<1> DEFINE b == st.currencies[ccy]
           f == fees_added(b, native, fx)
<1>1. b \in BucketSet /\ st \in StateSet
  BY StateFields DEF CashSound
<1>2. s = WithBucket(st, ccy, f)
  BY DEF add_fees, WithBucket
<1> HIDE DEF b
<1>3. f \in BucketSet /\ SameCash(b, f) /\ SameGains(b, f)
  BY <1>1, FeesAdded
<1> HIDE DEF f
<1>4. /\ s \in StateSet /\ s.pending_borrows = st.pending_borrows
      /\ s.buy_fx_basis = st.buy_fx_basis /\ SameEquity(st, s)
      /\ s.currencies[ccy] = f
      /\ \A c \in Currency : c # ccy => s.currencies[c] = st.currencies[c]
  BY <1>1, <1>2, <1>3, WithBucketType
<1>5. \A c \in Currency : Purse(s.currencies[c]) = Purse(st.currencies[c])
  BY <1>3, <1>4 DEF Purse, SameCash, SameGains, b
<1>6. LoansSame(st, s)
  BY LoansSameFees
<1>7. s.foreign_sell_fx_basis = st.foreign_sell_fx_basis
  BY <1>4 DEF SameEquity
<1>8. SalesKept(st, s, sid)
  BY <1>7 DEF SalesKept, SaleBasis
<1>9. Still(st, s, Zero)
  BY <1>1, <1>4, <1>5, <1>6, <1>8, StillSame
<1> QED
  BY <1>4, <1>7, <1>9

\* The basis that a sale notes is its own,
LEMMA SellStill ==
  ASSUME NEW st, WalletOK(st), NEW ev, TradeOK(ev), sid \in Nat, NEW fx \in Rat,
         Keyed(st, sid), NEW s, s = track_sell(st, ev, fx)
  PROVE  /\ Still(st, s, Zero) /\ WalletOK(s)
         /\ s.currencies = st.currencies /\ s.pending_borrows = st.pending_borrows
         /\ sid \in DOMAIN s.foreign_sell_fx_basis /\ s.foreign_sell_fx_basis[sid] \in Rat
<1>1. st \in StateSet /\ st.foreign_sell_fx_basis \in Partial(Nat, Rat)
  BY StateFields DEF WalletOK, CashSound
<1>2. /\ s.currencies = st.currencies /\ s.pending_borrows = st.pending_borrows
      /\ sid \in DOMAIN s.foreign_sell_fx_basis /\ s.foreign_sell_fx_basis[sid] \in Rat
      /\ LegKeeps(st, s)
  <2> DEFINE t == track_sell(st, ev, fx)
  <2>1. t.currencies = st.currencies
    BY <1>1 DEF track_sell, StateSet
  <2>1a. t.pending_borrows = st.pending_borrows
    BY <1>1 DEF track_sell, StateSet
  <2>2. sid \in DOMAIN t.foreign_sell_fx_basis /\ t.foreign_sell_fx_basis[sid] \in Rat
    BY TrackSell
  <2>3. LegKeeps(st, t)
    BY TrackSell
  <2>4. s = t
    OBVIOUS
  <2> HIDE DEF t
  <2> QED
    BY <2>1, <2>1a, <2>2, <2>3, <2>4
<1>3. s \in StateSet /\ WalletOK(s)
  BY <1>2 DEF LegKeeps, WalletOK, CashSound
<1> DEFINE v == tracker_fx(st.open_lots_fx_tracker[ev.iid], st.buy_fx_basis, fx)
           f == st.foreign_sell_fx_basis
           g == s.foreign_sell_fx_basis
<1>4. s.buy_fx_basis = st.buy_fx_basis
  BY <1>1 DEF track_sell, StateSet
<1>5. g = Put(f, sid, v)
  BY <1>1 DEF track_sell, StateSet
<1>6. LoansSame(st, s)
  BY <1>2 DEF LoansSame
<1> HIDE DEF v, f, g
<1>7. DOMAIN g = DOMAIN f \cup {sid} /\ \A n \in DOMAIN f : n # sid => g[n] = f[n]
  BY <1>5 DEF Put
<1>8. SalesKept(st, s, sid)
  BY <1>7 DEF SalesKept, SaleBasis, Get, f, g
<1>9. Still(st, s, Zero)
  BY <1>1, <1>2, <1>3, <1>4, <1>6, <1>8, StillSame
<1> QED
  BY <1>2, <1>3, <1>9

\* and so is the basis of a purchase, while its loan is open.
LEMMA BuyStill ==
  ASSUME NEW st, WalletOK(st), NEW ev, TradeOK(ev), sid \in Nat, NEW fx \in Rat,
         Keyed(st, sid), \A id \in Slot(st, sid) : ~st.pending_borrows[id].finalized,
         NEW s, s = track_buy(st, ev, fx)
  PROVE  /\ Still(st, s, Zero) /\ WalletOK(s)
         /\ s.pending_borrows = st.pending_borrows
         /\ s.foreign_sell_fx_basis = st.foreign_sell_fx_basis
         /\ sid \in DOMAIN s.buy_fx_basis /\ s.buy_fx_basis[sid] = fx
<1>1. st \in StateSet
  BY DEF WalletOK, CashSound
<1>2. /\ s.currencies = st.currencies /\ s.pending_borrows = st.pending_borrows
      /\ LegKeeps(st, s)
  <2> DEFINE t == track_buy(st, ev, fx)
  <2>1. t.currencies = st.currencies
    BY <1>1 DEF track_buy, StateSet
  <2>1a. t.pending_borrows = st.pending_borrows
    BY <1>1 DEF track_buy, StateSet
  <2>2. LegKeeps(st, t)
    BY TrackBuy
  <2>3. s = t
    OBVIOUS
  <2> HIDE DEF t
  <2> QED
    BY <2>1, <2>1a, <2>2, <2>3
<1>3. s \in StateSet /\ WalletOK(s)
  BY <1>2 DEF LegKeeps, WalletOK, CashSound
<1> DEFINE f == st.buy_fx_basis
           g == s.buy_fx_basis
           h == st.foreign_sell_fx_basis
<1>4. s.foreign_sell_fx_basis = h
  BY <1>1 DEF track_buy, StateSet
<1>5. g = Put(f, sid, fx)
  BY <1>1 DEF track_buy, StateSet
<1> HIDE DEF f, g, h
<1>6. /\ DOMAIN g = DOMAIN f \cup {sid} /\ g[sid] = fx
      /\ \A n \in DOMAIN f : n # sid => g[n] = f[n]
  BY <1>5 DEF Put
<1>7. Worth(s, sid) = Worth(st, sid) ++ Zero
  <2>1. Purses(s) = Purses(st)
    BY <1>2, PursesSame
  <2>2. Ledger(s, sid, LoanW) = Ledger(st, sid, LoanW)
    BY <1>2, LedgerSame
  <2>3. Worth(st, sid) \in Rat
    BY <1>1, WorthType
  <2> QED
    BY <2>1, <2>2, <2>3, AddZero DEF Worth
<1>8. Keyed(s, sid) /\ \A n : Slot(s, n) = Slot(st, n)
  BY <1>2, LedgerSame
<1>9. EntriesFrom(st, s, sid)
  BY <1>2 DEF EntriesFrom, SameLoan
<1>10. BasisKept(st, s, sid)
  BY <1>6 DEF BasisKept, f, g
<1>11. SalesKept(st, s, sid)
  BY <1>4 DEF SalesKept, SaleBasis, h
<1>12. Priced(st) => Priced(s)
  <2> SUFFICES ASSUME Priced(st), NEW id \in DOMAIN st.pending_borrows,
                      st.pending_borrows[id].consumer_kind = "buy",
                      st.pending_borrows[id].finalized
               PROVE  PaidFor(s, st.pending_borrows[id])
    BY <1>2 DEF Priced
  <2> DEFINE pb == st.pending_borrows[id]
  <2>1. pb.consumer # sid
    BY DEF Slot
  <2>2. PaidFor(st, pb)
    BY DEF Priced
  <2>3. pb.consumer \in DOMAIN g /\ g[pb.consumer] = f[pb.consumer]
    BY <1>6, <2>1, <2>2 DEF PaidFor, f
  <2> HIDE DEF pb
  <2>4. PaidFor(s, pb)
    BY <2>2, <2>3 DEF PaidFor, f, g
  <2> QED
    BY <2>4 DEF pb
<1>13. WorthStep(st, s, sid, Zero)
  BY <1>3, <1>7, <1>8, <1>9, <1>10, <1>11, <1>12 DEF WorthStep, SlotsKept
<1>14. \A id : \A c \in Currency : Debt(s, c, id) = Debt(st, c, id)
  BY <1>2 DEF Debt
<1>15. Still(st, s, Zero)
  BY <1>2, <1>8, <1>13, <1>14 DEF Still
<1> QED
  BY <1>2, <1>3, <1>4, <1>6, <1>15 DEF g, h

Buys(ev) == Traded(ev) /\ ev.side = "buy"

\* The value that the event ev at n brings in.
InAt(st, ev, n) ==
  CASE ev.type = "CASHFLOW" -> Moved(ev.amount) ** ev.fx
    [] ev.type = "DIVIDEND" /\ ~PaysNothing(ev) ->
         IF settled_in_base(ev) THEN Moved(Net(ev) ** ev.rate) ELSE Net(ev) ** ev.fx
    [] Traded(ev) /\ ev.side = "sell" ->
         IF settled_in_base(ev) THEN Moved((Gross(ev) -- ev.fees) ** ev.rate)
         ELSE Moved(Gross(ev) -- ev.fees) ** SaleBasis(st, n)
    [] OTHER -> Zero

\* What it takes out, if it is a purchase that borrowed nothing.
OutAt(st, ev, n) ==
  IF Buys(ev) /\ Slot(st, n) = {}
  THEN Moved(Gross(ev) ++ ev.fees) ** st.buy_fx_basis[n] ELSE Zero

\* An entry of the event ev.
Fits(pb, ev) ==
  IF pb.consumer_kind = "buy"
  THEN Buys(ev) /\ pb.lot_backed_qty ++ pb.borrowed_qty = Moved(Gross(ev) ++ ev.fees)
  ELSE ~Buys(ev)

AllEntered(st) == \A c \in Currency : Entered(st, c)

\* A state in which the next event is folded.
Starts(st) ==
  /\ sid \in Nat \ {0} /\ Ready(st) /\ Lent(st) /\ AllEntered(st)
  /\ sid \notin DOMAIN st.foreign_sell_fx_basis

\* What it leaves: the value that is held has grown by x, which is what came in
\* less what went out.
Holds(st, s, ev, x) ==
  /\ WorthStep(st, s, sid, x)
  /\ x ++ InAt(s, ev, sid) = OutAt(s, ev, sid)
  /\ AllEntered(s)
  /\ \A id \in Slot(s, sid) : Fits(s.pending_borrows[id], ev)
  /\ Buys(ev) => sid \in DOMAIN s.buy_fx_basis

ValueAfter(st, s, ev) == \E x \in Rat : Holds(st, s, ev, x)

LEMMA StillEntered ==
  ASSUME NEW st, NEW s, NEW x, Still(st, s, x), AllEntered(st)
  PROVE  AllEntered(s)
BY DEF Still, AllEntered, Entered

\* An event that brings v in.
LEMMA BroughtIn ==
  ASSUME NEW st, Starts(st), NEW s, NEW ev, ~Buys(ev), NEW v \in Rat,
         Still(st, s, Zero -- v), InAt(s, ev, sid) = v
  PROVE  ValueAfter(st, s, ev)
<1>1. Zero -- v \in Rat /\ (Zero -- v) ++ v = Zero
  BY ZeroType, AddType, AddSub
<1>2. OutAt(s, ev, sid) = Zero
  BY DEF OutAt
<1>3. AllEntered(s)
  BY StillEntered DEF Starts
<1>4. Slot(s, sid) = {}
  BY DEF Still, Starts, Ready
<1>5. Holds(st, s, ev, Zero -- v)
  BY <1>1, <1>2, <1>3, <1>4 DEF Holds, Still
<1> QED
  BY <1>1, <1>5 DEF ValueAfter

\* A deposit and the fee that goes with it.
LEMMA PaidInStill ==
  ASSUME NEW st, CashSound(st), Lent(st), AllEntered(st), sid \in Nat, Keyed(st, sid),
         NEW ccy \in Currency, NEW qty \in Rat, NEW fx \in Rat, NEW fee \in Rat,
         NEW s, s = add_fees(bucket_deposit(st, ccy, qty, fx), ccy, fee, fx)
  PROVE  /\ Still(st, s, Zero -- (Moved(qty) ** fx))
         /\ s.foreign_sell_fx_basis = st.foreign_sell_fx_basis
<1> DEFINE d == bucket_deposit(st, ccy, qty, fx)
           y == Zero -- (Moved(qty) ** fx)
<1>1. Entered(st, ccy) /\ st \in StateSet
  BY DEF AllEntered, CashSound
<1>2. y \in Rat /\ y ++ Zero = y
  BY MovedType, MulType, ZeroType, AddType, AddZero
<1>3. /\ Still(st, d, y)
      /\ CashSound(d) /\ d.foreign_sell_fx_basis = st.foreign_sell_fx_basis
  BY <1>1, DepositStill
<1>4. s = add_fees(d, ccy, fee, fx)
  OBVIOUS
<1> HIDE DEF d, y
<1>5. Keyed(d, sid)
  BY <1>3 DEF Still, WorthStep
<1>6. Still(d, s, Zero) /\ s.foreign_sell_fx_basis = d.foreign_sell_fx_basis
  BY <1>3, <1>4, <1>5, FeesStill
<1>7. Still(st, s, y ++ Zero)
  BY <1>1, <1>2, <1>3, <1>6, ZeroType, StillTrans
<1> QED
  BY <1>2, <1>3, <1>6, <1>7 DEF y

LEMMA CashflowValue ==
  ASSUME NEW st, CashSound(st), Starts(st), NEW ev, ev.type = "CASHFLOW", EventOK(ev),
         ~SpendsBasis(ev)
  PROVE  ValueAfter(st, CashflowTo(st, ev), ev)
<1> DEFINE v == Moved(ev.amount) ** ev.fx
           d == bucket_deposit(st, ev.ccy, ev.amount, ev.fx)
<1>1. /\ ev.ccy \in Currency /\ ev.amount \in Rat /\ ev.fx \in Rat /\ ~Buys(ev)
      /\ ev.type = "CASHFLOW" /\ ~Traded(ev)
  BY DEF EventOK, Buys, Traded
<1>2. ev.kind \notin {"WITHDRAWAL", "FEE"}
  BY <1>1 DEF SpendsBasis
<1>3. CashflowTo(st, ev) = d
  BY <1>2 DEF CashflowTo
<1>4. /\ sid \in Nat /\ Keyed(st, sid) /\ Lent(st) /\ Entered(st, ev.ccy)
  BY <1>1 DEF Starts, Ready, AllEntered
<1>5. Still(st, d, Zero -- v)
  BY <1>1, <1>4, DepositStill
<1>6. v \in Rat
  BY <1>1, MovedType, MulType
<1>7. InAt(d, ev, sid) = v
  BY <1>1 DEF InAt
<1> HIDE DEF v, d
<1> QED
  BY <1>1, <1>3, <1>5, <1>6, <1>7, BroughtIn

\* An event that leaves the cash alone.
LEMMA NothingIn ==
  ASSUME NEW st \in StateSet, Starts(st), NEW s \in StateSet, SameBooks(st, s),
         s.buy_fx_basis = st.buy_fx_basis,
         s.foreign_sell_fx_basis = st.foreign_sell_fx_basis,
         NEW ev, ~Buys(ev), InAt(s, ev, sid) = Zero
  PROVE  ValueAfter(st, s, ev)
<1>1. sid \in Nat /\ Keyed(st, sid)
  BY DEF Starts, Ready
<1>2. LoansSame(st, s) /\ \A c \in Currency : Purse(s.currencies[c]) = Purse(st.currencies[c])
  BY DEF SameBooks, LoansSame
<1>3. SalesKept(st, s, sid)
  BY DEF SalesKept, SaleBasis
<1>4. Still(st, s, Zero)
  BY <1>1, <1>2, <1>3, StillSame
<1>5. Zero \in Rat /\ Zero -- Zero = Zero
  BY ZeroType, AddZero
<1> QED
  BY <1>4, <1>5, BroughtIn

LEMMA DividendValue ==
  ASSUME NEW st, CashSound(st), Starts(st), NEW ev, ev.type = "DIVIDEND", EventOK(ev)
  PROVE  ValueAfter(st, DividendTo(st, ev), ev)
<1>1. /\ ev.ccy \in Currency /\ ev.gross \in Rat /\ ev.withholding \in Rat /\ ev.fx \in Rat
      /\ (ev.rate = None \/ ev.rate \in Rat) /\ st \in StateSet /\ ~Traded(ev) /\ ~Buys(ev)
  BY DEF EventOK, CashSound, Traded, Buys
<1>2. Net(ev) \in Rat /\ Withheld(ev) \in Rat
  BY <1>1, AddType, MinMax, ZeroType DEF Net, Withheld
<1>3. /\ sid \in Nat /\ Keyed(st, sid) /\ Lent(st) /\ AllEntered(st)
  BY DEF Starts, Ready
<1>4. CASE PaysNothing(ev)
  <2>1. InAt(st, ev, sid) = Zero
    BY <1>1, <1>4 DEF InAt
  <2>2. DividendTo(st, ev) = st
    BY <1>4 DEF DividendTo
  <2>3. SameBooks(st, st)
    BY DEF SameBooks
  <2> QED
    BY <1>1, <2>1, <2>2, <2>3, NothingIn
<1>5. CASE ~PaysNothing(ev) /\ settled_in_base(ev)
  <2> DEFINE q == Net(ev) ** ev.rate
             f == Withheld(ev) ** ev.rate
             s == DividendTo(st, ev)
  <2>1. q \in Rat /\ f \in Rat /\ Base \in Currency /\ One \in Rat
    BY <1>1, <1>2, <1>5, MulType, OneRatio, BaseAssumption DEF settled_in_base
  <2>2. InAt(s, ev, sid) = Moved(q)
    BY <1>1, <1>5 DEF InAt
  <2>3. s = add_fees(bucket_deposit(st, Base, q, One), Base, f, One)
    BY <1>5 DEF DividendTo
  <2> HIDE DEF q, f, s
  <2>4. Still(st, s, Zero -- (Moved(q) ** One))
    BY <1>3, <2>1, <2>3, PaidInStill
  <2>5. Moved(q) \in Rat /\ Moved(q) ** One = Moved(q)
    BY <2>1, MovedType, MulUnit
  <2>6. ValueAfter(st, s, ev)
    BY <1>1, <2>2, <2>4, <2>5, BroughtIn
  <2> QED
    BY <2>6 DEF s
<1>6. CASE ~PaysNothing(ev) /\ ~settled_in_base(ev)
  <2> DEFINE q == Net(ev)
             f == Withheld(ev)
             s == DividendTo(st, ev)
  <2>1. q \in Rat /\ f \in Rat
    BY <1>2
  <2>2. InAt(s, ev, sid) = q ** ev.fx
    BY <1>1, <1>6 DEF InAt
  <2>3. s = add_fees(bucket_deposit(st, ev.ccy, q, ev.fx), ev.ccy, f, ev.fx)
    BY <1>6 DEF DividendTo
  <2>4. Moved(q) = q
    BY <1>6 DEF PaysNothing, Moved, Greater, Positive
  <2> HIDE DEF q, f, s
  <2>5. Still(st, s, Zero -- (Moved(q) ** ev.fx))
    BY <1>1, <1>3, <2>1, <2>3, PaidInStill
  <2>6. q ** ev.fx \in Rat
    BY <1>1, <2>1, MulType
  <2>7. ValueAfter(st, s, ev)
    BY <1>1, <2>2, <2>4, <2>5, <2>6, BroughtIn
  <2> QED
    BY <2>7 DEF s
<1> QED
  BY <1>4, <1>5, <1>6

LEMMA SaleEvent ==
  ASSUME NEW ev, Traded(ev), ev.side = "sell"
  PROVE  /\ ~Buys(ev) /\ ev.type = "TRADE"
         /\ \A s, n : InAt(s, ev, n)
              = IF settled_in_base(ev) THEN Moved((Gross(ev) -- ev.fees) ** ev.rate)
                ELSE Moved(Gross(ev) -- ev.fees) ** SaleBasis(s, n)
<1>1. ev.type = "TRADE" /\ ~Buys(ev)
  BY DEF Traded, Buys
<1> QED
  BY <1>1 DEF InAt

\* A sale brings in its proceeds at the basis it notes.
LEMMA SellValue ==
  ASSUME NEW st, WalletOK(st), Starts(st), NEW ev, Traded(ev), TradeOK(ev),
         ev.side = "sell", ~settled_in_base(ev)
  PROVE  ValueAfter(st, sell_in_currency(st, ev), ev)
<1> DEFINE q == Gross(ev) -- ev.fees
           s == sell_in_currency(st, ev)
<1>1. /\ ev.ccy \in Currency /\ ev.fees \in Rat /\ q \in Rat /\ One \in Rat
      /\ Zero \in Rat /\ CashSound(st) /\ st \in StateSet
  BY TradeAmounts, OneRatio, ZeroType DEF TradeOK, WalletOK, CashSound
<1>2. /\ sid \in Nat /\ Keyed(st, sid) /\ Lent(st) /\ AllEntered(st)
      /\ sid \notin DOMAIN st.foreign_sell_fx_basis
  BY DEF Starts, Ready
<1>3. ~Buys(ev) /\ InAt(s, ev, sid) = Moved(q) ** SaleBasis(s, sid)
  <2> HIDE DEF s
  <2> QED
    BY SaleEvent
<1>4. CASE ev.ccy = Base
  <2>1. s = add_fees(bucket_deposit(st, ev.ccy, q, One), ev.ccy, ev.fees, One)
    BY <1>4 DEF sell_in_currency, sold_at
  <2> HIDE DEF s, q
  <2>2. /\ Still(st, s, Zero -- (Moved(q) ** One))
        /\ s.foreign_sell_fx_basis = st.foreign_sell_fx_basis
    BY <1>1, <1>2, <2>1, PaidInStill
  <2>3. SaleBasis(s, sid) = One
    BY <1>2, <2>2 DEF SaleBasis, Get
  <2>4. Moved(q) ** One \in Rat
    BY <1>1, MovedType, MulType
  <2>5. ValueAfter(st, s, ev)
    BY <1>3, <2>2, <2>3, <2>4, BroughtIn
  <2> QED
    BY <2>5 DEF s
<1>5. CASE ev.ccy # Base
  <2> DEFINE t == track_sell(st, ev, One)
             fx == t.foreign_sell_fx_basis[sid]
             y == Zero -- (Moved(q) ** fx)
  <2>1. s = add_fees(bucket_deposit(t, ev.ccy, q, fx), ev.ccy, ev.fees, fx)
    BY <1>5 DEF sell_in_currency, sold_tracked, sold_at
  <2> HIDE DEF s, q
  <2>2. t = track_sell(st, ev, One)
    OBVIOUS
  <2> HIDE DEF t
  <2>3. /\ Still(st, t, Zero) /\ WalletOK(t)
        /\ t.currencies = st.currencies /\ t.pending_borrows = st.pending_borrows
        /\ sid \in DOMAIN t.foreign_sell_fx_basis /\ fx \in Rat
    BY <1>1, <1>2, <2>2, SellStill
  <2>4. CashSound(t) /\ AllEntered(t) /\ Keyed(t, sid)
    BY <1>2, <2>3, StillEntered DEF WalletOK, Still, WorthStep
  <2>5. Lent(t)
    <3>1. LoansSame(st, t)
      BY <2>3 DEF LoansSame
    <3> QED
      BY <1>1, <1>2, <2>3, <3>1, SameLoanOK DEF Lent
  <2>6. fx = t.foreign_sell_fx_basis[sid]
    OBVIOUS
  <2> HIDE DEF fx
  <2>7. Still(t, s, y) /\ s.foreign_sell_fx_basis = t.foreign_sell_fx_basis
    BY <1>1, <1>2, <2>1, <2>3, <2>4, <2>5, PaidInStill
  <2>8. y \in Rat /\ Zero ++ y = y /\ Moved(q) ** fx \in Rat
    BY <1>1, <2>3, MovedType, MulType, AddType, AddZero
  <2>9. SaleBasis(s, sid) = fx
    BY <2>3, <2>6, <2>7 DEF SaleBasis, Get
  <2>10. Still(st, s, y)
    <3> HIDE DEF y
    <3>1. Still(st, s, Zero ++ y)
      BY <1>1, <1>2, <2>3, <2>7, <2>8, StillTrans
    <3> QED
      BY <2>8, <3>1
  <2>11. ValueAfter(st, s, ev)
    BY <1>3, <2>8, <2>9, <2>10, BroughtIn
  <2> QED
    BY <2>11 DEF s
<1> QED
  BY <1>4, <1>5

LEMMA SettleValue ==
  ASSUME NEW st, WalletOK(st), Starts(st), NEW ev, Traded(ev), TradeOK(ev),
         ev.side = "sell", settled_in_base(ev)
  PROVE  ValueAfter(st, settle_in_base(st, ev), ev)
<1> DEFINE q == (Gross(ev) -- ev.fees) ** ev.rate
           f == ev.fees ** ev.rate
           d == bucket_deposit(st, Base, q, One)
           b == track_sell(d, ev, ev.rate)
           s == settle_in_base(st, ev)
           v == Moved(q)
           y == Zero -- v
<1>1. /\ ev.rate \in Rat /\ Base \in Currency /\ f \in Rat /\ One \in Rat
      /\ q \in Rat /\ CashSound(st) /\ st \in StateSet
  BY BaseAssumption, TradeAmounts, MulType, OneRatio DEF TradeOK, WalletOK, CashSound
<1>2. s = add_fees(b, Base, f, One)
  BY DEF settle_in_base
<1>3. ~Buys(ev) /\ InAt(s, ev, sid) = v
  <2> HIDE DEF s
  <2> QED
    BY SaleEvent
<1> HIDE DEF q, f, s
<1>4. /\ sid \in Nat /\ Keyed(st, sid) /\ Lent(st) /\ Entered(st, Base)
  BY <1>1 DEF Starts, Ready, AllEntered
<1>5. v \in Rat /\ y \in Rat /\ y ++ Zero = y /\ v ** One = v /\ Zero \in Rat
  BY <1>1, MovedType, MulUnit, ZeroType, AddType, AddZero
<1>6. Still(st, d, y) /\ WalletOK(d)
  <2>1. Still(st, d, Zero -- (v ** One))
    BY <1>1, <1>4, DepositStill
  <2>2. CashKeeps(st, d)
    BY <1>1, Deposited
  <2> HIDE DEF d
  <2>3. WalletOK(d)
    BY <2>2, CashLeg DEF LegKeeps
  <2> QED
    BY <1>5, <2>1, <2>3
<1> HIDE DEF d, v, y
<1>7. Keyed(d, sid) /\ b = track_sell(d, ev, ev.rate)
  BY <1>6 DEF Still, WorthStep
<1> HIDE DEF b
<1>8. Still(d, b, Zero) /\ WalletOK(b)
  BY <1>1, <1>4, <1>6, <1>7, SellStill
<1>9. Keyed(b, sid) /\ CashSound(b)
  BY <1>8 DEF Still, WorthStep, WalletOK
<1>10. Still(b, s, Zero)
  BY <1>1, <1>2, <1>4, <1>9, FeesStill
<1>11. Still(st, b, y)
  <2>1. Still(st, b, y ++ Zero)
    BY <1>1, <1>4, <1>5, <1>6, <1>8, StillTrans
  <2> QED
    BY <1>5, <2>1
<1>12. Still(st, s, y)
  <2>1. Still(st, s, y ++ Zero)
    BY <1>1, <1>4, <1>5, <1>10, <1>11, StillTrans
  <2> QED
    BY <1>5, <2>1
<1>13. ValueAfter(st, s, ev)
  BY <1>3, <1>5, <1>12, BroughtIn DEF y
<1> QED
  BY <1>13 DEF s

(***************************************************************************)
(* Loans and the value                                                     *)
(***************************************************************************)

\* The purses grow, and nothing else changes.
LEMMA WorthMoved ==
  ASSUME NEW st \in StateSet, NEW s \in StateSet, NEW M \in Nat, Keyed(st, M),
         s.pending_borrows = st.pending_borrows, s.buy_fx_basis = st.buy_fx_basis,
         SalesKept(st, s, M), NEW x \in Rat, Purses(s) = Purses(st) ++ x
  PROVE  WorthStep(st, s, M, x)
<1> DEFINE p == Purses(st)
           l == SumOf(Ledger(st, M, LoanW))
<1>1. p \in Rat /\ l \in Rat
  BY WorthType
<1>2. Ledger(s, M, LoanW) = Ledger(st, M, LoanW)
  BY LedgerSame
<1>3. Worth(s, M) = (p ++ x) ++ l /\ Worth(st, M) = p ++ l
  BY <1>2 DEF Worth
<1> HIDE DEF p, l
<1>4. (p ++ x) ++ l = (p ++ l) ++ x
  <2>1. x ++ l = l ++ x
    BY <1>1, AddComm
  <2> QED
    BY <1>1, <2>1, AddAssoc
<1>5. Keyed(s, M) /\ \A n : Slot(s, n) = Slot(st, n)
  BY LedgerSame
<1>6. EntriesFrom(st, s, M)
  BY DEF EntriesFrom, SameLoan
<1>7. BasisKept(st, s, M)
  BY DEF BasisKept
<1>8. Priced(st) => Priced(s)
  BY DEF Priced, PaidFor
<1> QED
  BY <1>3, <1>4, <1>5, <1>6, <1>7, <1>8 DEF WorthStep, SlotsKept

\* A drain: the value grows by what was gained and by what its lots had cost.
LEMMA DrainWorth ==
  ASSUME NEW st, CashSound(st), sid \in Nat, Keyed(st, sid), NEW ccy \in Currency,
         NEW amount \in Rat, NEW broker_fx \in Rat \cup {None},
         NEW res, res = bucket_drain(st, ccy, amount, broker_fx, sid),
         NEW g, g = TakenGain(broker_fx, res.lot_backed_qty, Backed(res))
  PROVE  /\ WorthStep(st, res.st, sid, g ++ Backed(res))
         /\ g \in Rat /\ Backed(res) \in Rat
<1> DEFINE id == NextId(st, ccy, sid)
           s == res.st
           k == Backed(res)
           a == st.currencies[ccy].gain_fifo
           v == Value(st.currencies[ccy].fifo_lots)
<1>1. id = <<sid, st.currencies[ccy].borrow_seq + 1>> /\ st \in StateSet
  BY DEF NextId, CashSound
<1> HIDE DEF id
<1>2. DrainFacts(st, ccy, amount, broker_fx, res, id)
  BY <1>1, DrainDoes
<1>3. CashKeeps(st, s)
  BY Drained DEF DrainWell
<1>4. s \in StateSet /\ s.foreign_sell_fx_basis = st.foreign_sell_fx_basis
  BY <1>3 DEF CashKeeps, CashSound, SameEquity
<1>5. k \in Rat /\ g \in Rat
  <2>1. /\ res.lot_backed_qty \in Rat /\ res.lot_backed_basis \in Rat \cup {None}
    BY <1>2 DEF DrainFacts, ResultOK
  <2>2. k \in Rat
    BY <2>1, MulType, ZeroType DEF Backed
  <2> HIDE DEF k
  <2>3. g = IF broker_fx = None THEN Zero ELSE (res.lot_backed_qty ** broker_fx) -- k
    BY DEF TakenGain, k
  <2>4. broker_fx # None => (res.lot_backed_qty ** broker_fx) -- k \in Rat
    BY <2>1, <2>2, MulType, AddType
  <2> QED
    BY <2>2, <2>3, <2>4, ZeroType
<1>6. a \in Rat /\ v \in Rat
  BY <1>1, PurseType
<1>7. /\ s.pending_borrows = st.pending_borrows /\ s.buy_fx_basis = st.buy_fx_basis
      /\ \A c \in Currency : c # ccy => s.currencies[c] = st.currencies[c]
      /\ Value(s.currencies[ccy].fifo_lots) = v -- k
      /\ s.currencies[ccy].gain_fifo = a ++ g
  BY <1>2 DEF DrainFacts
<1> HIDE DEF k, a, v, s
<1>8. (a ++ g) -- (v -- k) = (a -- v) ++ (g ++ k)
  <2> PICK e \in Pos, x \in Int, y \in Int, z \in Int, w \in Int :
        /\ a = Reduced(x, e) /\ g = Reduced(y, e)
        /\ v = Reduced(z, e) /\ k = Reduced(w, e)
    <3>1. HaveCommon(a, g, v, k)
      BY <1>5, <1>6, Common4
    <3> QED
      BY <3>1 DEF HaveCommon
  <2>1. (a ++ g) -- (v -- k) = Reduced((x + y) - (z - w), e)
    BY RatioAdd
  <2>2. (a -- v) ++ (g ++ k) = Reduced((x - z) + (y + w), e)
    BY RatioAdd
  <2>3. (x + y) - (z - w) = (x - z) + (y + w)
    OBVIOUS
  <2> QED
    BY <2>1, <2>2, <2>3
<1>9. Purses(s) = Purses(st) ++ (g ++ k)
  <2>1. g ++ k \in Rat
    BY <1>5, AddType
  <2>2. Purse(s.currencies[ccy]) = Purse(st.currencies[ccy]) ++ (g ++ k)
    BY <1>7, <1>8 DEF Purse, a, v
  <2>3. \A c \in Currency : c # ccy => Purse(s.currencies[c]) = Purse(st.currencies[c])
    BY <1>7
  <2> QED
    BY <1>1, <1>4, <2>1, <2>2, <2>3, PursesChanged DEF s
<1>10. SalesKept(st, s, sid)
  BY <1>4 DEF SalesKept, SaleBasis, s
<1>11. WorthStep(st, s, sid, g ++ k)
  <2>1. g ++ k \in Rat
    BY <1>5, AddType
  <2> QED
    BY <1>1, <1>4, <1>7, <1>9, <1>10, <2>1, WorthMoved DEF s
<1> QED
  BY <1>5, <1>11 DEF k, s

\* A loan that is entered in the registry, with the entry it gets.
EnteredAs(st, s, id, pb) ==
  /\ s \in StateSet /\ s.currencies = st.currencies
  /\ s.buy_fx_basis = st.buy_fx_basis
  /\ s.foreign_sell_fx_basis = st.foreign_sell_fx_basis
  /\ pb \in PendingSet /\ s.pending_borrows[id] = pb
  /\ DOMAIN s.pending_borrows = DOMAIN st.pending_borrows \cup {id}
  /\ \A j \in DOMAIN st.pending_borrows : s.pending_borrows[j] = st.pending_borrows[j]

LEMMA RegisterIs ==
  ASSUME NEW st, CashSound(st), NEW res, ResultOK(res), NEW kind \in {"buy", "convert"},
         NEW ccy \in Currency, NEW m \in Nat, NEW fee \in Rat, NEW broker_fx \in Rat,
         Positive(res.borrowed_qty), res.borrow_id \notin DOMAIN st.pending_borrows,
         NEW s, s = register_borrow(st, res, kind, ccy, m, fee, broker_fx)
  PROVE  EnteredAs(st, s, res.borrow_id, NewPending(res, kind, ccy, m, fee, broker_fx))
<1> DEFINE id == res.borrow_id
           pb == NewPending(res, kind, ccy, m, fee, broker_fx)
<1>1. st \in StateSet /\ id \in BorrowId /\ st.pending_borrows \in Partial(BorrowId, PendingSet)
  BY StateFields DEF CashSound, ResultOK
<1>2. /\ s \in StateSet /\ s.currencies = st.currencies /\ s.buy_fx_basis = st.buy_fx_basis
      /\ s.foreign_sell_fx_basis = st.foreign_sell_fx_basis
  <2>1. CashKeeps(st, s) /\ s.currencies = st.currencies
    BY Registered
  <2>2. s.buy_fx_basis = st.buy_fx_basis
    BY Registered
  <2> QED
    BY <2>1, <2>2 DEF CashKeeps, CashSound, SameEquity
<1>3. s.pending_borrows = Put(st.pending_borrows, id, pb)
  BY <1>1 DEF register_borrow, NewPending, StateSet
<1>4. pb \in PendingSet
  <2>1. pb \in PendingRecord
    BY <1>1, ZeroType DEF NewPending, PendingRecord, ResultOK
  <2>2. pb.borrowed_qty = res.borrowed_qty /\ pb.lot_backed_qty = res.lot_backed_qty
    BY DEF NewPending
  <2> QED
    BY <2>1, <2>2 DEF PendingSet, ResultOK
<1> HIDE DEF pb, id
<1>5. /\ DOMAIN s.pending_borrows = DOMAIN st.pending_borrows \cup {id}
      /\ s.pending_borrows[id] = pb
      /\ \A j \in DOMAIN st.pending_borrows : j # id =>
           s.pending_borrows[j] = st.pending_borrows[j]
  <2> DEFINE d == st.pending_borrows
             e == s.pending_borrows
  <2>1. d \in Partial(BorrowId, PendingSet) /\ e = Put(d, id, pb) /\ id \in BorrowId
    BY <1>1, <1>3
  <2> HIDE DEF d, e
  <2>2. /\ DOMAIN e = DOMAIN d \cup {id} /\ e[id] = pb
        /\ \A j \in DOMAIN d : j # id => e[j] = d[j]
    BY <2>1 DEF Put
  <2> QED
    BY <2>2 DEF d, e
<1>6. id \notin DOMAIN st.pending_borrows
  BY DEF id
<1>7. EnteredAs(st, s, id, pb)
  BY <1>2, <1>4, <1>5, <1>6 DEF EnteredAs
<1> QED
  BY <1>7 DEF id, pb

\* Its value is that of the entry.
LEMMA RegisterWorth ==
  ASSUME NEW st \in StateSet, sid \in Nat \ {0}, Keyed(st, sid), Slot(st, sid) = {},
         NEW id, id \notin DOMAIN st.pending_borrows, NEW pb, pb.consumer = sid,
         pb.finalized = FALSE, NEW s, EnteredAs(st, s, id, pb)
  PROVE  WorthStep(st, s, sid, LoanW[pb]) /\ Slot(s, sid) = {id} /\ LoanW[pb] \in Rat
<1>1. /\ s \in StateSet /\ s.currencies = st.currencies
      /\ s.buy_fx_basis = st.buy_fx_basis
      /\ s.foreign_sell_fx_basis = st.foreign_sell_fx_basis
      /\ pb \in PendingSet /\ s.pending_borrows[id] = pb
      /\ DOMAIN s.pending_borrows = DOMAIN st.pending_borrows \cup {id}
      /\ \A j \in DOMAIN st.pending_borrows : s.pending_borrows[j] = st.pending_borrows[j]
  BY DEF EnteredAs
<1>2. sid \in Nat /\ sid \in 1..sid /\ s.pending_borrows[id].consumer = sid
  BY <1>1
<1>3. LoanW \in Weights /\ LoanW[pb] \in Rat
  BY <1>1, LoanWeight DEF Weights
<1>4. /\ Keyed(s, sid)
      /\ SumOf(Ledger(s, sid, LoanW))
           = SumOf(Ledger(st, sid, LoanW)) ++ LoanW[s.pending_borrows[id]]
  BY <1>1, <1>2, <1>3, LedgerEntry
<1>5. Worth(s, sid) = Worth(st, sid) ++ LoanW[pb]
  <2> DEFINE p == Purses(st)
             l == SumOf(Ledger(st, sid, LoanW))
             w == LoanW[pb]
  <2>1. p \in Rat /\ l \in Rat /\ w \in Rat
    BY <1>2, <1>3, WorthType
  <2>2. Purses(s) = p
    BY <1>1, PursesSame
  <2>3. SumOf(Ledger(s, sid, LoanW)) = l ++ w
    BY <1>1, <1>4
  <2>4. Worth(s, sid) = p ++ (l ++ w) /\ Worth(st, sid) = p ++ l
    BY <2>2, <2>3 DEF Worth
  <2> HIDE DEF p, l, w
  <2>5. (p ++ l) ++ w = p ++ (l ++ w)
    BY <2>1, AddAssoc
  <2> QED
    BY <2>4, <2>5 DEF w
<1>6. SlotsKept(st, s, sid) /\ Slot(s, sid) = {id}
  <2>1. ASSUME NEW n, n # sid PROVE Slot(s, n) = Slot(st, n)
    BY <1>1, <1>2, <2>1 DEF Slot
  <2>2. Slot(s, sid) = {id}
    BY <1>1, <1>2 DEF Slot
  <2> QED
    BY <2>1, <2>2 DEF SlotsKept
<1>7. EntriesFrom(st, s, sid)
  BY <1>1, <1>2 DEF EntriesFrom, SameLoan
<1>8. BasisKept(st, s, sid)
  BY <1>1 DEF BasisKept
<1>9. SalesKept(st, s, sid)
  BY <1>1 DEF SalesKept, SaleBasis
<1>10. Priced(st) => Priced(s)
  <2> SUFFICES ASSUME Priced(st), NEW j \in DOMAIN s.pending_borrows,
                      s.pending_borrows[j].consumer_kind = "buy",
                      s.pending_borrows[j].finalized
               PROVE  PaidFor(s, s.pending_borrows[j])
    BY DEF Priced
  <2>1. j # id /\ j \in DOMAIN st.pending_borrows
    BY <1>1
  <2>2. PaidFor(st, st.pending_borrows[j])
    BY <1>1, <2>1 DEF Priced
  <2> QED
    BY <1>1, <2>1, <2>2 DEF PaidFor
<1>11. WorthStep(st, s, sid, LoanW[pb])
  BY <1>1, <1>4, <1>5, <1>6, <1>7, <1>8, <1>9, <1>10 DEF WorthStep
<1> QED
  BY <1>3, <1>6, <1>11

\* The rate that a purchase is noted at, to begin with.
Prov(res) == IF res.lot_backed_basis = None THEN One ELSE res.lot_backed_basis

ProvOK(res) == Prov(res) \in Rat /\ Backed(res) = res.lot_backed_qty ** Prov(res)

\* What the lots gave has the rate that a purchase is noted at.
LEMMA DrainProv ==
  ASSUME NEW st, CashSound(st), NEW ccy \in Currency, NEW amount \in Rat,
         NEW broker_fx \in Rat \cup {None}, NEW m \in Nat,
         NEW res, res = bucket_drain(st, ccy, amount, broker_fx, m)
  PROVE  ProvOK(res)
<1>1. /\ res.lot_backed_qty \in Rat /\ Zero \preceq res.lot_backed_qty
      /\ res.lot_backed_basis \in Rat \cup {None}
  BY Drained DEF DrainWell
<1>2. Positive(res.lot_backed_qty) => res.lot_backed_basis # None
  <2> SUFFICES ASSUME Positive(res.lot_backed_qty) PROVE res.lot_backed_basis # None
    OBVIOUS
  <2> DEFINE lots == st.currencies[ccy].fifo_lots
             drained == Lesser(amount, TotalQty(lots))
             basis == BasisTaken(lots, amount)
  <2>1. Positive(amount)
    <3>1. ~Positive(amount) => res.lot_backed_qty = Zero
      BY DEF bucket_drain
    <3> QED
      BY <3>1, ZeroType, NotNegative
  <2>2. /\ res.lot_backed_qty = drained
        /\ res.lot_backed_basis = (IF Positive(drained) THEN basis // drained ELSE None)
    BY <2>1 DEF bucket_drain, BasisTaken, drain_of
  <2>3. lots \in Seq(CashLot) /\ AllPositive(lots) /\ Zero \preceq amount
    BY <2>1, BucketFields, NotNegative DEF CashSound, BucketOK
  <2> HIDE DEF lots, drained
  <2>4. basis \in Rat
    BY <2>3, BasisTakenIs
  <2> HIDE DEF basis
  <2>5. basis // drained \in Rat
    BY <1>1, <2>2, <2>4, DivType
  <2> QED
    BY <2>2, <2>5, NoneNotRat
<1>3. CASE res.lot_backed_basis = None
  <2>1. res.lot_backed_qty = Zero
    BY <1>1, <1>2, <1>3, NotNegative
  <2>2. Zero ** One = Zero /\ One \in Rat
    BY OneRatio, MulUnit
  <2> QED
    BY <1>3, <2>1, <2>2 DEF ProvOK, Backed, Prov
<1>4. CASE res.lot_backed_basis # None
  BY <1>1, <1>4 DEF ProvOK, Backed, Prov
<1> QED
  BY <1>3, <1>4

\* What a drain borrowed is entered in the end.
LEMMA DrainEntered ==
  ASSUME NEW st, AllEntered(st), NEW s, NEW ccy \in Currency, NEW borrowed,
         NEW id \in BorrowId, DrainDebts(st, s, ccy, borrowed, id), NEW u,
         \A j \in BorrowId : \A c \in Currency : Debt(s, c, j) = Zero => Debt(u, c, j) = Zero,
         DOMAIN st.pending_borrows \subseteq DOMAIN u.pending_borrows,
         Positive(borrowed) => id \in DOMAIN u.pending_borrows
  PROVE  AllEntered(u)
<1> SUFFICES ASSUME NEW c \in Currency, NEW j \in BorrowId, j \notin DOMAIN u.pending_borrows
             PROVE  Debt(u, c, j) = Zero
  BY DEF AllEntered, Entered
<1>1. Debt(st, c, j) = Zero
  BY DEF AllEntered, Entered
<1>2. Debt(s, c, j) = Zero
  BY <1>1 DEF DrainDebts
<1> QED
  BY <1>2

LEMMA BuyEvent ==
  ASSUME NEW ev, Traded(ev), ev.side = "buy"
  PROVE  Buys(ev) /\ \A s, n : InAt(s, ev, n) = Zero
<1>1. ev.type = "TRADE" /\ Buys(ev)
  BY DEF Traded, Buys
<1> QED
  BY <1>1 DEF InAt

\* The drain of a purchase.
BuyDrain(st, ev, res) ==
  /\ WorthStep(st, res.st, sid, Backed(res)) /\ Backed(res) \in Rat
  /\ DrainOK(st, ev.ccy, res, NextId(st, ev.ccy, sid))
  /\ NextId(st, ev.ccy, sid) \notin DOMAIN st.pending_borrows
  /\ res.lot_backed_qty ++ res.borrowed_qty = Moved(Gross(ev) ++ ev.fees)
  /\ ProvOK(res)
  /\ WalletOK(res.st) /\ Slot(res.st, sid) = {}

LEMMA BuyDrains ==
  ASSUME NEW st, WalletOK(st), Starts(st), NEW ev, TradeOK(ev),
         NEW res, res = bucket_drain(st, ev.ccy, Gross(ev) ++ ev.fees, None, sid)
  PROVE  BuyDrain(st, ev, res)
<1> DEFINE amount == Gross(ev) ++ ev.fees
           id == NextId(st, ev.ccy, sid)
<1>1. /\ ev.ccy \in Currency /\ amount \in Rat /\ CashSound(st) /\ st \in StateSet
      /\ None \in Rat \cup {None}
  BY TradeAmounts DEF TradeOK, WalletOK, CashSound
<1>2. sid \in Nat /\ Keyed(st, sid) /\ Slot(st, sid) = {} /\ Fresh(st, sid)
  BY DEF Starts, Ready
<1>3. id = <<sid, st.currencies[ev.ccy].borrow_seq + 1>> /\ id[1] = sid
  BY DEF NextId
<1>4. res = bucket_drain(st, ev.ccy, amount, None, sid)
  OBVIOUS
<1> HIDE DEF amount
<1>5. DrainOK(st, ev.ccy, res, id)
  BY <1>1, <1>2, <1>4, Drains
<1> HIDE DEF id
<1>6. DrainFacts(st, ev.ccy, amount, None, res, id) /\ id \in BorrowId
  BY <1>1, <1>2, <1>3, <1>4, DrainDoes
<1>7. res.lot_backed_qty ++ res.borrowed_qty = Moved(amount)
      /\ res.st.pending_borrows = st.pending_borrows
  BY <1>6 DEF DrainFacts
<1>8. ProvOK(res)
  BY <1>1, <1>2, <1>4, DrainProv
<1>9. WorthStep(st, res.st, sid, Backed(res)) /\ Backed(res) \in Rat
  <2> DEFINE g == TakenGain(None, res.lot_backed_qty, Backed(res))
  <2>1. g = Zero
    BY DEF TakenGain
  <2>2. WorthStep(st, res.st, sid, g ++ Backed(res)) /\ Backed(res) \in Rat
    <3> HIDE DEF g
    <3>1. g = TakenGain(None, res.lot_backed_qty, Backed(res))
      BY DEF g
    <3> QED
      BY <1>1, <1>2, <1>4, <3>1, DrainWorth
  <2>3. Zero ++ Backed(res) = Backed(res)
    BY <2>2, AddZero
  <2> QED
    BY <2>1, <2>2, <2>3
<1>10. WalletOK(res.st)
  <2>1. CashKeeps(st, res.st)
    BY <1>1, <1>2, <1>4, Drained DEF DrainWell
  <2> QED
    BY <2>1, CashLeg DEF LegKeeps
<1>11. id \notin DOMAIN st.pending_borrows
  BY <1>2, <1>3, <1>6 DEF Fresh
<1>12. Slot(res.st, sid) = {}
  BY <1>2, <1>7 DEF Slot
<1> QED
  BY <1>5, <1>7, <1>8, <1>9, <1>10, <1>11, <1>12 DEF BuyDrain, id, amount

LEMMA LentNothing ==
  ASSUME NEW k \in Rat
  PROVE  /\ (k ++ (Zero -- (Zero ++ k))) ++ Zero = Zero
         /\ Zero -- (Zero ++ k) \in Rat
         /\ k ++ (Zero -- (Zero ++ k)) \in Rat
<1>1. Zero ++ k = k /\ Zero \in Rat
  BY AddZero, ZeroType
<1>2. Zero -- k \in Rat
  BY <1>1, AddType
<1>3. k ++ (Zero -- k) = Zero
  BY <1>1, AddSub
<1>4. Zero ++ Zero = Zero
  BY <1>1, AddZero
<1> QED
  BY <1>1, <1>2, <1>3, <1>4

\* A purchase on margin: what its lots had cost is in its entry.
LEMMA LentValue ==
  ASSUME NEW st, WalletOK(st), Starts(st), NEW ev, Traded(ev), TradeOK(ev),
         ev.side = "buy", NEW res, BuyDrain(st, ev, res), Positive(res.borrowed_qty),
         NEW reg, reg = register_borrow(res.st, res, "buy", ev.ccy, sid, ev.fees, One),
         NEW u, u = track_buy(reg, ev, Prov(res))
  PROVE  ValueAfter(st, u, ev)
<1> DEFINE id == NextId(st, ev.ccy, sid)
           s == res.st
           k == Backed(res)
           pb == NewPending(res, "buy", ev.ccy, sid, ev.fees, One)
           w == Zero -- (Zero ++ k)
<1>1. /\ ev.ccy \in Currency /\ ev.fees \in Rat /\ st \in StateSet /\ CashSound(st)
      /\ "buy" \in {"buy", "convert"} /\ One \in Rat
      /\ sid \in Nat \ {0} /\ sid \in Nat /\ Keyed(st, sid) /\ AllEntered(st)
  BY OneRatio DEF TradeOK, WalletOK, CashSound, Starts, Ready
<1>2. /\ WorthStep(st, s, sid, k) /\ k \in Rat /\ WalletOK(s) /\ Slot(s, sid) = {}
      /\ Prov(res) \in Rat
      /\ res.lot_backed_qty ++ res.borrowed_qty = Moved(Gross(ev) ++ ev.fees)
  BY DEF BuyDrain, ProvOK
<1>3. /\ DrainDebts(st, s, ev.ccy, res.borrowed_qty, id) /\ ResultOK(res)
      /\ id \in BorrowId /\ res.borrow_id = id /\ id \notin DOMAIN st.pending_borrows
  BY DEF BuyDrain, DrainOK
<1> HIDE DEF id
<1>4. CashSound(s) /\ s \in StateSet /\ Keyed(s, sid)
      /\ s.pending_borrows = st.pending_borrows
  BY <1>2, <1>3 DEF WalletOK, CashSound, WorthStep, DrainDebts
<1>5. /\ pb.consumer = sid /\ pb.finalized = FALSE /\ pb.consumer_kind = "buy"
      /\ pb.weighted = Zero /\ Backed(pb) = k
      /\ pb.lot_backed_qty = res.lot_backed_qty /\ pb.borrowed_qty = res.borrowed_qty
  BY DEF NewPending, Backed
<1>6. EnteredAs(s, reg, id, pb)
  <2>1. EnteredAs(s, reg, res.borrow_id, pb)
    BY <1>1, <1>3, <1>4, RegisterIs
  <2> QED
    BY <1>3, <2>1
<1>7. CashKeeps(s, reg)
  BY <1>1, <1>3, <1>4, Registered
<1> HIDE DEF s, pb, k
<1>8. LoanW[pb] = w /\ w \in Rat
  <2>1. pb \in PendingSet
    BY <1>6 DEF EnteredAs
  <2>2. LoanW[pb] = Zero -- (pb.weighted ++ Backed(pb))
    BY <1>5, <2>1, LoanWeight
  <2> QED
    BY <1>2, <1>5, <2>2, LentNothing
<1> HIDE DEF w
<1>9. WorthStep(s, reg, sid, w) /\ Slot(reg, sid) = {id}
  <2>1. id \notin DOMAIN s.pending_borrows
    BY <1>3, <1>4
  <2>2. sid \in Nat \ {0} /\ Keyed(s, sid) /\ Slot(s, sid) = {} /\ s \in StateSet
    BY <1>1, <1>2, <1>4
  <2>3. pb.consumer = sid
    BY <1>5
  <2>4. pb.finalized = FALSE
    BY <1>5
  <2>5. WorthStep(s, reg, sid, LoanW[pb])
    BY <1>6, <2>1, <2>2, <2>3, <2>4, RegisterWorth
  <2>6. Slot(reg, sid) = {id}
    BY <1>6, <2>1, <2>2, <2>3 DEF EnteredAs, Slot
  <2> QED
    BY <1>8, <2>5, <2>6
<1>10. WalletOK(reg) /\ Keyed(reg, sid)
  <2>1. WalletOK(reg)
    BY <1>2, <1>7, CashLeg DEF LegKeeps
  <2> QED
    BY <1>9, <2>1 DEF WorthStep
<1>11. /\ reg.pending_borrows[id] = pb /\ reg.currencies = s.currencies
       /\ DOMAIN reg.pending_borrows = DOMAIN s.pending_borrows \cup {id}
  BY <1>6 DEF EnteredAs
<1>12. /\ Still(reg, u, Zero) /\ u.pending_borrows = reg.pending_borrows
       /\ sid \in DOMAIN u.buy_fx_basis
  <2>1. \A j \in Slot(reg, sid) : ~reg.pending_borrows[j].finalized
    BY <1>5, <1>9, <1>11
  <2> QED
    BY <1>1, <1>2, <1>10, <2>1, BuyStill
<1>13. WorthStep(st, u, sid, Zero)
  <2>1. WorthStep(st, reg, sid, k ++ w)
    BY <1>1, <1>2, <1>8, <1>9, WorthTrans
  <2>2. (k ++ w) ++ Zero = Zero /\ k ++ w \in Rat /\ Zero \in Rat
    BY <1>2, LentNothing, ZeroType DEF w
  <2>3. WorthStep(reg, u, sid, Zero)
    BY <1>12 DEF Still
  <2>4. WorthStep(st, u, sid, (k ++ w) ++ Zero)
    BY <1>1, <2>1, <2>2, <2>3, WorthTrans
  <2> QED
    BY <2>2, <2>4
<1>14. AllEntered(u)
  <2>1. \A j \in BorrowId : \A c \in Currency : Debt(s, c, j) = Zero => Debt(reg, c, j) = Zero
    BY <1>11 DEF Debt
  <2>2. DOMAIN st.pending_borrows \subseteq DOMAIN reg.pending_borrows
        /\ id \in DOMAIN reg.pending_borrows
    BY <1>4, <1>11
  <2>3. DrainDebts(st, s, ev.ccy, res.borrowed_qty, id)
    BY <1>3 DEF s
  <2>4. AllEntered(reg)
    BY <1>1, <1>3, <2>1, <2>2, <2>3, DrainEntered
  <2> QED
    BY <1>12, <2>4, StillEntered
<1>15. Buys(ev) /\ InAt(u, ev, sid) = Zero
  BY BuyEvent
<1>16. Slot(u, sid) = {id} /\ Fits(u.pending_borrows[id], ev)
  BY <1>2, <1>5, <1>9, <1>11, <1>12, <1>15 DEF Still, Fits
<1>17. Zero ++ InAt(u, ev, sid) = OutAt(u, ev, sid)
  BY <1>15, <1>16, AddZero, ZeroType DEF OutAt
<1>18. Holds(st, u, ev, Zero)
  BY <1>12, <1>13, <1>14, <1>16, <1>17 DEF Holds
<1> QED
  BY <1>18, ZeroType DEF ValueAfter

\* A purchase that the lots pay for: what they had cost goes out.
LEMMA PaidValue ==
  ASSUME NEW st, WalletOK(st), Starts(st), NEW ev, Traded(ev), TradeOK(ev),
         ev.side = "buy", NEW res, BuyDrain(st, ev, res), ~Positive(res.borrowed_qty),
         NEW t, t = track_buy(res.st, ev, Prov(res)),
         NEW u, u = add_fees(t, ev.ccy, ev.fees, Prov(res))
  PROVE  ValueAfter(st, u, ev)
<1> DEFINE id == NextId(st, ev.ccy, sid)
           s == res.st
           k == Backed(res)
           m == Moved(Gross(ev) ++ ev.fees)
<1>1. /\ ev.ccy \in Currency /\ ev.fees \in Rat /\ st \in StateSet
      /\ sid \in Nat /\ AllEntered(st)
  BY DEF TradeOK, WalletOK, CashSound, Starts
<1>2. /\ WorthStep(st, s, sid, k) /\ k \in Rat /\ WalletOK(s) /\ Slot(s, sid) = {}
      /\ Prov(res) \in Rat /\ k = res.lot_backed_qty ** Prov(res)
      /\ res.lot_backed_qty ++ res.borrowed_qty = m
  BY DEF BuyDrain, ProvOK
<1>3. /\ DrainDebts(st, s, ev.ccy, res.borrowed_qty, id) /\ ResultOK(res)
      /\ id \in BorrowId
  BY DEF BuyDrain, DrainOK
<1> HIDE DEF id, k, m, s
<1>4. k = m ** Prov(res)
  <2>1. res.borrowed_qty = Zero
    BY <1>3, NotNegative DEF ResultOK
  <2>2. res.lot_backed_qty ++ Zero = res.lot_backed_qty
    BY <1>3, AddZero DEF ResultOK
  <2> QED
    BY <1>2, <2>1, <2>2
<1>5. Keyed(s, sid) /\ t = track_buy(s, ev, Prov(res))
      /\ \A j \in Slot(s, sid) : ~s.pending_borrows[j].finalized
  BY <1>2 DEF WorthStep, s
<1>6. /\ Still(s, t, Zero) /\ WalletOK(t)
      /\ sid \in DOMAIN t.buy_fx_basis /\ t.buy_fx_basis[sid] = Prov(res)
  BY <1>1, <1>2, <1>5, BuyStill
<1>7. CashSound(t) /\ Keyed(t, sid)
  BY <1>6 DEF WalletOK, Still, WorthStep
<1>8. Still(t, u, Zero) /\ u.buy_fx_basis = t.buy_fx_basis
  BY <1>1, <1>2, <1>7, FeesStill
<1>9. WorthStep(st, u, sid, k)
  <2>1. k ++ Zero = k /\ Zero \in Rat
    BY <1>2, AddZero, ZeroType
  <2>2. WorthStep(st, t, sid, k ++ Zero)
    BY <1>1, <1>2, <1>6, <2>1, WorthTrans DEF Still
  <2>3. WorthStep(st, u, sid, k ++ Zero)
    BY <1>1, <1>2, <1>8, <2>1, <2>2, WorthTrans DEF Still
  <2> QED
    BY <2>1, <2>3
<1>10. AllEntered(u)
  <2>1. \A j \in BorrowId : \A c \in Currency : Debt(s, c, j) = Zero => Debt(s, c, j) = Zero
    OBVIOUS
  <2>2. DOMAIN st.pending_borrows \subseteq DOMAIN s.pending_borrows
    BY <1>3 DEF DrainDebts, s
  <2>3. AllEntered(s)
    BY <1>1, <1>3, <2>1, <2>2, DrainEntered
  <2> QED
    BY <1>6, <1>8, <2>3, StillEntered
<1>11. Buys(ev) /\ InAt(u, ev, sid) = Zero
  BY BuyEvent
<1>12. Slot(u, sid) = {}
  BY <1>2, <1>6, <1>8 DEF Still
<1>13. k ++ InAt(u, ev, sid) = OutAt(u, ev, sid)
  <2>1. OutAt(u, ev, sid) = m ** u.buy_fx_basis[sid]
    BY <1>11, <1>12 DEF OutAt, m
  <2> QED
    BY <1>2, <1>4, <1>6, <1>8, <1>11, <2>1, AddZero
<1>14. Holds(st, u, ev, k)
  BY <1>6, <1>8, <1>9, <1>10, <1>12, <1>13 DEF Holds
<1> QED
  BY <1>2, <1>14 DEF ValueAfter

LEMMA BuyValue ==
  ASSUME NEW st, WalletOK(st), Starts(st), NEW ev, Traded(ev), TradeOK(ev),
         ev.side = "buy", ev.ccy # Base
  PROVE  ValueAfter(st, buy_in_currency(st, ev), ev)
<1> DEFINE res == bucket_drain(st, ev.ccy, Gross(ev) ++ ev.fees, None, sid)
           reg == register_borrow(res.st, res, "buy", ev.ccy, sid, ev.fees, One)
           t == track_buy(reg, ev, Prov(res))
           u == buy_in_currency(st, ev)
<1>1. u = IF Positive(res.borrowed_qty) THEN t ELSE add_fees(t, ev.ccy, ev.fees, Prov(res))
  BY DEF buy_in_currency, bought_with, Prov
<1>2. ~Positive(res.borrowed_qty) => reg = res.st
  BY DEF register_borrow
<1>3. BuyDrain(st, ev, res)
  BY BuyDrains
<1> HIDE DEF res, u
<1>4. CASE Positive(res.borrowed_qty)
  <2>1. u = track_buy(reg, ev, Prov(res)) /\ reg = register_borrow(res.st, res, "buy", ev.ccy, sid, ev.fees, One)
    BY <1>1, <1>4
  <2> HIDE DEF reg, t
  <2>2. ValueAfter(st, u, ev)
    BY <1>3, <1>4, <2>1, LentValue
  <2> QED
    BY <2>2 DEF u
<1>5. CASE ~Positive(res.borrowed_qty)
  <2>1. t = track_buy(res.st, ev, Prov(res)) /\ u = add_fees(t, ev.ccy, ev.fees, Prov(res))
    BY <1>1, <1>2, <1>5
  <2> HIDE DEF reg, t
  <2>2. ValueAfter(st, u, ev)
    BY <1>3, <1>5, <2>1, PaidValue
  <2> QED
    BY <2>2 DEF u
<1> QED
  BY <1>4, <1>5

\* The money of a conversion has been taken and has arrived.
Exchanged(st, ev, res, s) ==
  /\ WorthStep(st, s, sid, (res.lot_backed_qty ** ev.broker_fx)
                             ++ (Zero -- (ev.from_amt ** ev.broker_fx)))
  /\ CashSound(s) /\ Slot(s, sid) = {}
  /\ DOMAIN s.pending_borrows = DOMAIN st.pending_borrows
  /\ \A j \in BorrowId : \A c \in Currency :
       Debt(res.st, c, j) = Zero => Debt(s, c, j) = Zero
  /\ DrainOK(st, ev.from, res, NextId(st, ev.from, sid))
  /\ NextId(st, ev.from, sid) \notin DOMAIN st.pending_borrows
  /\ res.lot_backed_qty ++ res.borrowed_qty = ev.from_amt

LEMMA ConversionRate ==
  ASSUME NEW v \in Rat, NEW qty \in Rat, Positive(qty)
  PROVE  v // qty \in Rat /\ Moved(qty) = qty /\ Moved(qty) ** (v // qty) = v
<1>1. v // qty \in Rat
  BY DivType
<1>2. Moved(qty) = qty
  BY DEF Moved, Greater, Positive
<1>3. (v // qty) ** qty = v
  BY DivMul
<1> QED
  BY <1>1, <1>2, <1>3, MulComm

LEMMA Exchange ==
  ASSUME NEW st, CashSound(st), Starts(st), NEW ev, Exchanges(ev), EventOK(ev),
         NEW res, res = bucket_drain(st, ev.from, ev.from_amt, ev.broker_fx, sid),
         NEW s, s = bucket_deposit(res.st, ev.to, ev.to_amt,
                                   (ev.from_amt ** ev.broker_fx) // ev.to_amt)
  PROVE  Exchanged(st, ev, res, s)
<1> DEFINE id == NextId(st, ev.from, sid)
           b == ev.broker_fx
           v == ev.from_amt ** b
           fx == v // ev.to_amt
           x == res.lot_backed_qty ** b
           k == Backed(res)
           r == res.st
<1>1. /\ ev.from \in Currency /\ ev.to \in Currency /\ ev.from # ev.to
      /\ ev.from_amt \in Rat /\ ev.to_amt \in Rat /\ b \in Rat /\ b \in Rat \cup {None}
      /\ Positive(ev.from_amt) /\ Positive(ev.to_amt) /\ st \in StateSet
  BY DEF Exchanges, EventOK, CashSound
<1>2. /\ sid \in Nat /\ Keyed(st, sid) /\ Slot(st, sid) = {} /\ Fresh(st, sid)
      /\ Lent(st) /\ AllEntered(st)
  BY DEF Starts, Ready
<1>3. id = <<sid, st.currencies[ev.from].borrow_seq + 1>> /\ id[1] = sid
  BY DEF NextId
<1>4. res = bucket_drain(st, ev.from, ev.from_amt, b, sid)
  OBVIOUS
<1>5. s = bucket_deposit(r, ev.to, ev.to_amt, fx)
  OBVIOUS
<1>6. v \in Rat /\ fx \in Rat /\ Moved(ev.to_amt) ** fx = v
  <2>1. v \in Rat
    BY <1>1, MulType
  <2> HIDE DEF v
  <2> QED
    BY <1>1, <2>1, ConversionRate
<1> HIDE DEF b, v, fx
<1>7. DrainOK(st, ev.from, res, id)
  BY <1>1, <1>2, <1>4, Drains
<1> HIDE DEF id
<1>8. DrainFacts(st, ev.from, ev.from_amt, b, res, id) /\ id \in BorrowId
  BY <1>1, <1>2, <1>3, <1>4, DrainDoes
<1>9. res.lot_backed_qty ++ res.borrowed_qty = ev.from_amt
      /\ res.lot_backed_qty \in Rat
  <2>1. res.lot_backed_qty ++ res.borrowed_qty = Moved(ev.from_amt)
    BY <1>8 DEF DrainFacts
  <2>2. Moved(ev.from_amt) = ev.from_amt
    BY <1>1 DEF Moved, Greater, Positive
  <2>3. res.lot_backed_qty \in Rat
    BY <1>8 DEF DrainFacts, ResultOK
  <2> QED
    BY <2>1, <2>2, <2>3
<1>10. id \notin DOMAIN st.pending_borrows
  BY <1>2, <1>3, <1>8 DEF Fresh
<1>11. DrainDebts(st, r, ev.from, res.borrowed_qty, id) /\ CashSound(r)
       /\ r.pending_borrows = st.pending_borrows
  BY <1>7 DEF DrainOK, DrainDebts
<1>12. WorthStep(st, r, sid, x)
  <2> DEFINE g == TakenGain(b, res.lot_backed_qty, k)
  <2>1. WorthStep(st, r, sid, g ++ k) /\ k \in Rat
    <3> HIDE DEF g
    <3>1. g = TakenGain(b, res.lot_backed_qty, Backed(res))
      BY DEF g
    <3> QED
      BY <1>1, <1>2, <1>4, <3>1, DrainWorth
  <2>2. g = x -- k
    BY <1>1, NoneNotRat DEF TakenGain
  <2>3. x \in Rat
    BY <1>1, <1>9, MulType
  <2> HIDE DEF g, x, k, r
  <2>4. (x -- k) ++ k = x
    BY <2>1, <2>3, AddSub
  <2> QED
    BY <2>1, <2>2, <2>4
<1> HIDE DEF r, k
<1>13. Lent(r)
  <2> SUFFICES ASSUME NEW j \in DOMAIN st.pending_borrows PROVE LoanOK(r, j)
    BY <1>11 DEF Lent
  <2>1. LoanOK(st, j) /\ j # id
    BY <1>2, <1>10 DEF Lent
  <2> QED
    BY <1>1, <1>11, <2>1, DrainOther
<1>14. Entered(r, ev.to)
  <2> SUFFICES ASSUME NEW j \in BorrowId, j \notin DOMAIN st.pending_borrows
               PROVE  Debt(r, ev.to, j) = Zero
    BY <1>11 DEF Entered
  <2>1. Debt(st, ev.to, j) = Zero
    BY <1>1, <1>2 DEF AllEntered, Entered
  <2> QED
    BY <1>1, <1>11, <2>1 DEF DrainDebts
<1>15. Keyed(r, sid) /\ Slot(r, sid) = {}
  BY <1>2, <1>11, <1>12 DEF WorthStep, Slot
<1>16. Still(r, s, Zero -- v) /\ CashSound(s)
  <2>1. Still(r, s, Zero -- (Moved(ev.to_amt) ** fx)) /\ CashSound(s)
    BY <1>1, <1>2, <1>5, <1>6, <1>11, <1>13, <1>14, <1>15, DepositStill
  <2> QED
    BY <1>6, <2>1
<1>17. WorthStep(st, s, sid, x ++ (Zero -- v))
  <2>1. x \in Rat /\ Zero -- v \in Rat
    BY <1>1, <1>6, <1>9, MulType, AddType, ZeroType
  <2> HIDE DEF x
  <2> QED
    BY <1>1, <1>2, <1>12, <1>16, <2>1, WorthTrans DEF Still
<1>18. /\ Slot(s, sid) = {} /\ DOMAIN s.pending_borrows = DOMAIN st.pending_borrows
       /\ \A j \in BorrowId : \A c \in Currency : Debt(r, c, j) = Zero => Debt(s, c, j) = Zero
  BY <1>11, <1>15, <1>16 DEF Still
<1> QED
  BY <1>7, <1>9, <1>10, <1>16, <1>17, <1>18 DEF Exchanged, id, v, b, r

LEMMA LentBack ==
  ASSUME NEW a \in Rat, NEW c \in Rat
  PROVE  (a ++ (Zero -- (a ++ c))) ++ c = Zero /\ a ++ (Zero -- (a ++ c)) \in Rat
<1>1. a ++ c \in Rat /\ Zero \in Rat
  BY AddType, ZeroType
<1>2. Zero -- (a ++ c) \in Rat
  BY <1>1, AddType
<1>3. a ++ (Zero -- (a ++ c)) \in Rat
  BY <1>2, AddType
<1>4. PICK d \in Pos, p \in Int, q \in Int : a = Reduced(p, d) /\ c = Reduced(q, d)
  BY Common2
<1>5. Zero = Reduced(0, d) /\ 0 \in Int
  BY ZeroRatio
<1>6. a ++ c = Reduced(p + q, d)
  BY <1>4, RatioAdd
<1>7. Zero -- (a ++ c) = Reduced(0 - (p + q), d)
  BY <1>5, <1>6, RatioAdd
<1>8. a ++ (Zero -- (a ++ c)) = Reduced(p + (0 - (p + q)), d)
  BY <1>4, <1>7, RatioAdd
<1>9. (a ++ (Zero -- (a ++ c))) ++ c = Reduced((p + (0 - (p + q))) + q, d)
  BY <1>4, <1>8, RatioAdd
<1>10. (p + (0 - (p + q))) + q = 0
  OBVIOUS
<1> QED
  BY <1>3, <1>5, <1>9, <1>10

\* The loan of a conversion, entered or not, makes up what its lots lack.
ConvertEntered(st, s) ==
  /\ WorthStep(st, s, sid, Zero) /\ CashSound(s) /\ AllEntered(s)
  /\ \A j \in Slot(s, sid) : s.pending_borrows[j].consumer_kind = "convert"

LEMMA ConvertLent ==
  ASSUME NEW st, CashSound(st), Starts(st), NEW ev, Exchanges(ev), EventOK(ev),
         NEW res, NEW s, Exchanged(st, ev, res, s), Positive(res.borrowed_qty),
         NEW u, u = register_borrow(s, res, "convert", ev.from, sid, Zero, ev.broker_fx)
  PROVE  ConvertEntered(st, u)
<1> DEFINE id == NextId(st, ev.from, sid)
           b == ev.broker_fx
           p == res.lot_backed_qty ** b
           q == res.borrowed_qty ** b
           pb == NewPending(res, "convert", ev.from, sid, Zero, b)
<1>1. /\ ev.from \in Currency /\ b \in Rat /\ st \in StateSet /\ Zero \in Rat
      /\ "convert" \in {"buy", "convert"}
      /\ sid \in Nat \ {0} /\ sid \in Nat /\ AllEntered(st)
  BY ZeroType DEF Exchanges, EventOK, CashSound, Starts
<1>2. /\ WorthStep(st, s, sid, p ++ (Zero -- (ev.from_amt ** b)))
      /\ CashSound(s) /\ Slot(s, sid) = {}
      /\ DOMAIN s.pending_borrows = DOMAIN st.pending_borrows
      /\ \A j \in BorrowId : \A c \in Currency :
           Debt(res.st, c, j) = Zero => Debt(s, c, j) = Zero
      /\ id \notin DOMAIN st.pending_borrows
      /\ res.lot_backed_qty ++ res.borrowed_qty = ev.from_amt
  BY DEF Exchanged
<1>3. /\ DrainDebts(st, res.st, ev.from, res.borrowed_qty, id) /\ ResultOK(res)
      /\ id \in BorrowId /\ res.borrow_id = id
  BY DEF Exchanged, DrainOK
<1> HIDE DEF id
<1>4. /\ res.lot_backed_qty \in Rat /\ res.borrowed_qty \in Rat /\ p \in Rat /\ q \in Rat
      /\ ev.from_amt ** b = p ++ q
  <2>1. res.lot_backed_qty \in Rat /\ res.borrowed_qty \in Rat
    BY <1>3 DEF ResultOK
  <2>2. p \in Rat /\ q \in Rat
    BY <1>1, <2>1, MulType
  <2>3. (res.lot_backed_qty ++ res.borrowed_qty) ** b = p ++ q
    <3> HIDE DEF b
    <3> QED
      BY <1>1, <2>1, MulDist
  <2> QED
    BY <1>2, <2>1, <2>2, <2>3
<1>5. /\ pb.consumer = sid /\ pb.consumer_kind = "convert"
      /\ pb.weighted = Zero /\ pb.borrowed_qty = res.borrowed_qty /\ pb.from_broker_fx = b
  BY DEF NewPending
<1>5a. pb.finalized = FALSE
  BY DEF NewPending
<1>6. s \in StateSet /\ Keyed(s, sid)
  BY <1>2 DEF CashSound, WorthStep
<1>7. EnteredAs(s, u, id, pb)
  <2>1. EnteredAs(s, u, res.borrow_id, pb)
    BY <1>1, <1>2, <1>3, RegisterIs
  <2> QED
    BY <1>3, <2>1
<1>8. CashSound(u)
  <2>1. CashKeeps(s, u)
    BY <1>1, <1>2, <1>3, Registered
  <2> QED
    BY <2>1 DEF CashKeeps
<1> HIDE DEF pb
<1>9. LoanW[pb] = q
  <2>1. pb \in PendingSet
    BY <1>7 DEF EnteredAs
  <2>2. LoanW[pb] = (pb.borrowed_qty ** pb.from_broker_fx) -- pb.weighted
    BY <1>5, <1>5a, <2>1, LoanWeight
  <2>3. q -- Zero = q
    BY <1>4, AddZero
  <2> QED
    BY <1>5, <2>2, <2>3
<1> HIDE DEF p, q, b
<1>10. WorthStep(s, u, sid, q) /\ Slot(u, sid) = {id}
  <2>1. id \notin DOMAIN s.pending_borrows
    BY <1>2
  <2>2. sid \in Nat \ {0} /\ Keyed(s, sid) /\ Slot(s, sid) = {} /\ s \in StateSet
    BY <1>1, <1>2, <1>6
  <2>3. pb.consumer = sid
    BY <1>5
  <2>4. WorthStep(s, u, sid, LoanW[pb])
    BY <1>5a, <1>7, <2>1, <2>2, <2>3, RegisterWorth
  <2>5. Slot(u, sid) = {id}
    BY <1>7, <2>1, <2>2, <2>3 DEF EnteredAs, Slot
  <2> QED
    BY <1>9, <2>4, <2>5
<1>11. WorthStep(st, u, sid, Zero)
  <2> DEFINE x == p ++ (Zero -- (p ++ q))
  <2>1. x \in Rat /\ x ++ q = Zero
    BY <1>4, LentBack
  <2>2. WorthStep(st, s, sid, x)
    BY <1>2, <1>4
  <2> HIDE DEF x
  <2>3. WorthStep(st, u, sid, x ++ q)
    BY <1>1, <1>4, <1>10, <2>1, <2>2, WorthTrans
  <2> QED
    BY <2>1, <2>3
<1>12. /\ u.pending_borrows[id] = pb /\ u.currencies = s.currencies
       /\ DOMAIN u.pending_borrows = DOMAIN s.pending_borrows \cup {id}
  BY <1>7 DEF EnteredAs
<1>13. AllEntered(u)
  <2> DEFINE r == res.st
             d == res.borrowed_qty
  <2>1. \A j \in BorrowId : \A c \in Currency : Debt(r, c, j) = Zero => Debt(u, c, j) = Zero
    BY <1>2, <1>12 DEF Debt
  <2>2. DOMAIN st.pending_borrows \subseteq DOMAIN u.pending_borrows
        /\ id \in DOMAIN u.pending_borrows
    BY <1>2, <1>12
  <2>3. DrainDebts(st, r, ev.from, d, id)
    BY <1>3
  <2> HIDE DEF r, d
  <2> QED
    BY <1>1, <1>3, <2>1, <2>2, <2>3, DrainEntered
<1>14. \A j \in Slot(u, sid) : u.pending_borrows[j].consumer_kind = "convert"
  BY <1>5, <1>10, <1>12
<1> QED
  BY <1>8, <1>11, <1>13, <1>14 DEF ConvertEntered

LEMMA ConvertPaid ==
  ASSUME NEW st, CashSound(st), Starts(st), NEW ev, Exchanges(ev), EventOK(ev),
         NEW res, NEW s, Exchanged(st, ev, res, s), ~Positive(res.borrowed_qty)
  PROVE  ConvertEntered(st, s)
<1> DEFINE id == NextId(st, ev.from, sid)
           v == ev.from_amt ** ev.broker_fx
<1>1. ev.from \in Currency /\ v \in Rat /\ AllEntered(st)
  BY MulType DEF Exchanges, EventOK, Starts
<1>2. /\ WorthStep(st, s, sid, (res.lot_backed_qty ** ev.broker_fx) ++ (Zero -- v))
      /\ CashSound(s) /\ Slot(s, sid) = {}
      /\ DOMAIN s.pending_borrows = DOMAIN st.pending_borrows
      /\ \A j \in BorrowId : \A c \in Currency :
           Debt(res.st, c, j) = Zero => Debt(s, c, j) = Zero
      /\ res.lot_backed_qty ++ res.borrowed_qty = ev.from_amt
  BY DEF Exchanged
<1>3. /\ DrainDebts(st, res.st, ev.from, res.borrowed_qty, id) /\ ResultOK(res)
      /\ id \in BorrowId
  BY DEF Exchanged, DrainOK
<1>4. res.lot_backed_qty = ev.from_amt
  <2>1. res.borrowed_qty = Zero
    BY <1>3, NotNegative DEF ResultOK
  <2> QED
    BY <1>2, <1>3, <2>1, AddZero DEF ResultOK
<1>5. v ++ (Zero -- v) = Zero
  BY <1>1, ZeroType, AddSub
<1>6. WorthStep(st, s, sid, Zero)
  BY <1>2, <1>4, <1>5
<1> HIDE DEF id
<1>7. AllEntered(s)
  <2> DEFINE r == res.st
             d == res.borrowed_qty
  <2>1. \A j \in BorrowId : \A c \in Currency : Debt(r, c, j) = Zero => Debt(s, c, j) = Zero
    BY <1>2
  <2>2. DOMAIN st.pending_borrows \subseteq DOMAIN s.pending_borrows
    BY <1>2
  <2>3. DrainDebts(st, r, ev.from, d, id) /\ ~Positive(d)
    BY <1>3
  <2> HIDE DEF r, d
  <2> QED
    BY <1>1, <1>3, <2>1, <2>2, <2>3, DrainEntered
<1> QED
  BY <1>2, <1>6, <1>7 DEF ConvertEntered

\* A conversion keeps the value: what it gains, its lots had cost less.
LEMMA ConversionValue ==
  ASSUME NEW st, CashSound(st), Starts(st), NEW ev, Exchanges(ev), EventOK(ev),
         ~SpendsBasis(ev)
  PROVE  ValueAfter(st, ConversionTo(st, ev), ev)
<1> DEFINE res == bucket_drain(st, ev.from, ev.from_amt, ev.broker_fx, sid)
           s == bucket_deposit(res.st, ev.to, ev.to_amt,
                               (ev.from_amt ** ev.broker_fx) // ev.to_amt)
           r == register_borrow(s, res, "convert", ev.from, sid, Zero, ev.broker_fx)
           u == ConversionTo(st, ev)
<1>1. /\ ev.type = "FX_CONVERSION" /\ ~Traded(ev) /\ ~Buys(ev)
      /\ ev.fee_ccy \in Currency /\ ev.fee \in Rat /\ ev.broker_fx \in Rat
      /\ sid \in Nat /\ st \in StateSet
  BY DEF Exchanges, EventOK, Traded, Buys, Starts, CashSound
<1>2. ~Positive(ev.fee)
  BY <1>1 DEF SpendsBasis
<1>3. u = add_fees(r, ev.fee_ccy, ev.fee, ev.broker_fx)
  <2>1. r = converted(ev, res)
    BY DEF converted
  <2>2. u = add_fees(drain(converted(ev, res), ev.fee_ccy, ev.fee),
                     ev.fee_ccy, ev.fee, ev.broker_fx)
    BY DEF ConversionTo
  <2> HIDE DEF r, u, res
  <2>3. drain(r, ev.fee_ccy, ev.fee) = r
    BY <1>2, DrainNothing DEF drain
  <2> QED
    BY <2>1, <2>2, <2>3
<1>4. ~Positive(res.borrowed_qty) => r = s
  BY DEF register_borrow
<1> HIDE DEF u, res
<1>5. Exchanged(st, ev, res, s)
  <2>1. res = bucket_drain(st, ev.from, ev.from_amt, ev.broker_fx, sid)
    BY DEF res
  <2> QED
    BY <2>1, Exchange
<1> HIDE DEF s
<1>6. ConvertEntered(st, r)
  <2>1. CASE Positive(res.borrowed_qty)
    <3>1. r = register_borrow(s, res, "convert", ev.from, sid, Zero, ev.broker_fx)
      OBVIOUS
    <3> HIDE DEF r
    <3> QED
      BY <1>5, <2>1, <3>1, ConvertLent
  <2>2. CASE ~Positive(res.borrowed_qty)
    <3>1. ConvertEntered(st, s)
      BY <1>5, <2>2, ConvertPaid
    <3> QED
      BY <1>4, <2>2, <3>1
  <2> QED
    BY <2>1, <2>2
<1> HIDE DEF r
<1>7. /\ WorthStep(st, r, sid, Zero) /\ CashSound(r) /\ AllEntered(r) /\ Keyed(r, sid)
      /\ \A j \in Slot(r, sid) : r.pending_borrows[j].consumer_kind = "convert"
  BY <1>6 DEF ConvertEntered, WorthStep
<1>8. Still(r, u, Zero) /\ u.pending_borrows = r.pending_borrows
  BY <1>1, <1>3, <1>7, FeesStill
<1>9. WorthStep(st, u, sid, Zero)
  <2>1. Zero \in Rat /\ Zero ++ Zero = Zero
    BY ZeroType, AddZero
  <2>2. WorthStep(st, u, sid, Zero ++ Zero)
    BY <1>1, <1>7, <1>8, <2>1, WorthTrans DEF Still
  <2> QED
    BY <2>1, <2>2
<1>10. AllEntered(u)
  BY <1>7, <1>8, StillEntered
<1>11. InAt(u, ev, sid) = Zero /\ OutAt(u, ev, sid) = Zero
  BY <1>1 DEF InAt, OutAt
<1>12. \A j \in Slot(u, sid) : Fits(u.pending_borrows[j], ev)
  BY <1>1, <1>7, <1>8 DEF Still, Fits
<1>13. Zero ++ InAt(u, ev, sid) = OutAt(u, ev, sid)
  BY <1>11, ZeroType, AddZero
<1>14. Holds(st, u, ev, Zero)
  BY <1>1, <1>9, <1>10, <1>12, <1>13 DEF Holds
<1>15. ValueAfter(st, u, ev)
  BY <1>14, ZeroType DEF ValueAfter
<1> QED
  BY <1>15 DEF u

\* What the instruments hold is not cash.
CashAlike(p, s) ==
  /\ s.currencies = p.currencies /\ s.pending_borrows = p.pending_borrows
  /\ s.buy_fx_basis = p.buy_fx_basis /\ s.foreign_sell_fx_basis = p.foreign_sell_fx_basis

LEMMA CashAlikeValue ==
  ASSUME NEW st, NEW p, NEW s \in StateSet, CashAlike(p, s), NEW ev, ValueAfter(st, p, ev)
  PROVE  ValueAfter(st, s, ev)
<1>1. PICK x \in Rat : Holds(st, p, ev, x)
  BY DEF ValueAfter
<1>2. /\ s.currencies = p.currencies /\ s.pending_borrows = p.pending_borrows
      /\ s.buy_fx_basis = p.buy_fx_basis /\ s.foreign_sell_fx_basis = p.foreign_sell_fx_basis
  BY DEF CashAlike
<1>3. WorthStep(st, p, sid, x)
  BY <1>1 DEF Holds
<1>4. Purses(s) = Purses(p)
  BY <1>2, PursesSame
<1>5. \A n : Slot(s, n) = Slot(p, n)
  BY <1>2 DEF Slot
<1>6. Ledger(s, sid, LoanW) = Ledger(p, sid, LoanW)
  <2>1. \A n : At(s, n, LoanW) = At(p, n, LoanW)
    BY <1>2, <1>5 DEF At
  <2> QED
    BY <2>1 DEF Ledger
<1>7. Worth(s, sid) = Worth(p, sid)
  BY <1>4, <1>6 DEF Worth
<1>8. Keyed(s, sid) /\ (Priced(p) => Priced(s))
  BY <1>2, <1>3 DEF WorthStep, Keyed, Priced, PaidFor
<1>9. SlotsKept(st, s, sid) /\ EntriesFrom(st, s, sid)
  BY <1>2, <1>3, <1>5 DEF WorthStep, SlotsKept, EntriesFrom
<1>10. BasisKept(st, s, sid) /\ SalesKept(st, s, sid)
  BY <1>2, <1>3 DEF WorthStep, BasisKept, SalesKept, SaleBasis
<1>11. WorthStep(st, s, sid, x)
  BY <1>3, <1>7, <1>8, <1>9, <1>10 DEF WorthStep
<1>12. InAt(s, ev, sid) = InAt(p, ev, sid)
  BY <1>2 DEF InAt, SaleBasis
<1>13. OutAt(s, ev, sid) = OutAt(p, ev, sid)
  BY <1>2, <1>5 DEF OutAt
<1>14. AllEntered(s)
  BY <1>1, <1>2 DEF Holds, AllEntered, Entered, Debt
<1>15. \A id \in Slot(s, sid) : Fits(s.pending_borrows[id], ev)
  BY <1>1, <1>2, <1>5 DEF Holds
<1>16. Holds(st, s, ev, x)
  BY <1>1, <1>2, <1>11, <1>12, <1>13, <1>14, <1>15 DEF Holds
<1> QED
  BY <1>16 DEF ValueAfter

LEMMA TradeValue ==
  ASSUME NEW st, Sound(st), Starts(st), NEW ev, Traded(ev), EventOK(ev), ~SpendsBasis(ev)
  PROVE  ValueAfter(st, TradeTo(st, ev), ev)
<1> DEFINE p == cash_leg(st, ev)
<1>1. /\ TradeOK(ev) /\ WalletOK(st) /\ sid \in Nat /\ ev.type = "TRADE"
      /\ ev.side \in {"buy", "sell"}
  BY DEF Traded, TradeOK, EventOK, Sound, Starts
<1>2. ev.side = "buy" => ~settled_in_base(ev) /\ ev.ccy # Base
  BY <1>1 DEF SpendsBasis
<1>3. ValueAfter(st, p, ev)
  <2>1. CASE ev.side = "buy"
    BY <1>1, <1>2, <2>1, BuyValue DEF cash_leg
  <2>2. CASE ev.side = "sell" /\ settled_in_base(ev)
    BY <1>1, <2>2, SettleValue DEF cash_leg
  <2>3. CASE ev.side = "sell" /\ ~settled_in_base(ev)
    BY <1>1, <2>3, SellValue DEF cash_leg
  <2> QED
    BY <1>1, <2>1, <2>2, <2>3
<1>4. p \in StateSet
  BY <1>1, TradeLeg DEF WalletOK, CashSound
<1> HIDE DEF p
<1>5. CashAlike(p, TradeTo(st, ev))
  BY <1>4 DEF TradeTo, WithInst, StateSet, CashAlike, p
<1>6. TradeTo(st, ev) \in StateSet
  <2>1. EventStep(st, TradeTo(st, ev), ev)
    BY <1>1, TradeStep
  <2> QED
    BY <2>1 DEF EventStep, Sound, WalletOK, CashSound
<1> QED
  BY <1>3, <1>5, <1>6, CashAlikeValue

\* No event makes value appear or disappear.
LEMMA EventValue ==
  ASSUME NEW st, Sound(st), Starts(st), NEW ev, EventOK(ev), ~SpendsBasis(ev)
  PROVE  ValueAfter(st, EventTo(st, ev), ev)
<1>1. CashSound(st) /\ st \in StateSet /\ sid \in Nat
  BY DEF Sound, WalletOK, CashSound, Starts
<1>2. CASE Traded(ev)
  BY <1>2, TradeValue DEF EventTo
<1>3. CASE ~Traded(ev) /\ Transfers(ev)
  <2> DEFINE s == TransferTo(st, ev)
  <2>1. /\ SameBooks(st, s) /\ s.buy_fx_basis = st.buy_fx_basis
        /\ s.foreign_sell_fx_basis = st.foreign_sell_fx_basis
    BY <1>1 DEF TransferTo, WithInst, StateSet, SameBooks
  <2>2. EventStep(st, s, ev)
    BY <1>1, <1>3, TransferStep
  <2>3. s \in StateSet
    BY <2>2 DEF EventStep, Sound, WalletOK, CashSound
  <2>4. InAt(s, ev, sid) = Zero /\ ~Buys(ev)
    BY <1>3 DEF InAt, Transfers, Buys
  <2> HIDE DEF s
  <2>5. ValueAfter(st, s, ev)
    BY <1>1, <2>1, <2>3, <2>4, NothingIn
  <2> QED
    BY <1>3, <2>5 DEF EventTo, s
<1>4. CASE ~Traded(ev) /\ ~Transfers(ev) /\ ev.type = "CASHFLOW"
  BY <1>1, <1>4, CashflowValue DEF EventTo
<1>5. CASE ~Traded(ev) /\ ~Transfers(ev) /\ ev.type = "DIVIDEND"
  BY <1>1, <1>5, DividendValue DEF EventTo
<1>6. CASE ~Traded(ev) /\ ~Transfers(ev) /\ ev.type = "FX_CONVERSION"
  <2>1. Exchanges(ev)
    BY <1>6 DEF SpendsBasis
  <2>2. ValueAfter(st, ConversionTo(st, ev), ev)
    BY <1>1, <2>1, ConversionValue
  <2> QED
    BY <1>6, <2>2 DEF EventTo
<1>7. CASE /\ ~Traded(ev) /\ ~Transfers(ev)
           /\ ev.type \notin {"CASHFLOW", "DIVIDEND", "FX_CONVERSION"}
  <2>1. InAt(st, ev, sid) = Zero /\ ~Buys(ev)
    BY <1>7 DEF InAt, Buys
  <2>2. EventTo(st, ev) = st
    BY <1>7 DEF EventTo
  <2>3. ValueAfter(st, st, ev)
    BY <1>1, <2>1, NothingIn DEF SameBooks
  <2> QED
    BY <2>2, <2>3
<1> QED
  BY <1>2, <1>3, <1>4, <1>5, <1>6, <1>7

(***************************************************************************)
(* No base value appears or disappears                                     *)
(***************************************************************************)

LEMMA InType ==
  ASSUME NEW st \in StateSet, NEW ev, EventOK(ev), NEW n
  PROVE  InAt(st, ev, n) \in Rat
<1>1. CASE ev.type = "CASHFLOW"
  <2>1. Moved(ev.amount) \in Rat /\ ev.fx \in Rat
    BY <1>1, MovedType DEF EventOK
  <2>2. InAt(st, ev, n) = Moved(ev.amount) ** ev.fx
    BY <1>1 DEF InAt, Traded
  <2> QED
    BY <2>1, <2>2, MulType
<1>2. CASE ev.type = "DIVIDEND" /\ ~PaysNothing(ev)
  <2>1. /\ ev.gross \in Rat /\ ev.withholding \in Rat /\ ev.fx \in Rat
        /\ ev.rate = None \/ ev.rate \in Rat
    BY <1>2 DEF EventOK
  <2>2. Net(ev) \in Rat
    BY <2>1, AddType DEF Net
  <2>3. settled_in_base(ev) => Moved(Net(ev) ** ev.rate) \in Rat
    BY <2>1, <2>2, MulType, MovedType DEF settled_in_base
  <2>4. Net(ev) ** ev.fx \in Rat
    BY <2>1, <2>2, MulType
  <2>5. InAt(st, ev, n) = IF settled_in_base(ev) THEN Moved(Net(ev) ** ev.rate)
                          ELSE Net(ev) ** ev.fx
    BY <1>2 DEF InAt, Traded
  <2> QED
    BY <2>3, <2>4, <2>5
<1>3. CASE Traded(ev) /\ ev.side = "sell"
  <2>1. TradeOK(ev)
    BY <1>3 DEF Traded, TradeOK, EventOK
  <2>2. Gross(ev) -- ev.fees \in Rat /\ (settled_in_base(ev) => ev.rate \in Rat)
    BY <2>1, TradeAmounts
  <2>3. settled_in_base(ev) => Moved((Gross(ev) -- ev.fees) ** ev.rate) \in Rat
    BY <2>2, MulType, MovedType
  <2>4. SaleBasis(st, n) \in Rat
    <3>1. st.foreign_sell_fx_basis \in Partial(Nat, Rat)
      BY StateFields
    <3>2. \A j \in DOMAIN st.foreign_sell_fx_basis : st.foreign_sell_fx_basis[j] \in Rat
      BY <3>1, PartialType
    <3> QED
      BY <3>2, OneRatio DEF SaleBasis, Get
  <2>5. Moved(Gross(ev) -- ev.fees) ** SaleBasis(st, n) \in Rat
    BY <2>2, <2>4, MovedType, MulType
  <2>6. InAt(st, ev, n) = IF settled_in_base(ev) THEN Moved((Gross(ev) -- ev.fees) ** ev.rate)
                          ELSE Moved(Gross(ev) -- ev.fees) ** SaleBasis(st, n)
    BY <1>3, SaleEvent
  <2> QED
    BY <2>3, <2>5, <2>6
<1>4. CASE /\ ev.type # "CASHFLOW" /\ ~(ev.type = "DIVIDEND" /\ ~PaysNothing(ev))
           /\ ~(Traded(ev) /\ ev.side = "sell")
  <2>1. InAt(st, ev, n) = Zero
    BY <1>4 DEF InAt
  <2> QED
    BY <2>1, ZeroType
<1> QED
  BY <1>1, <1>2, <1>3, <1>4

LEMMA OutType ==
  ASSUME NEW st \in StateSet, NEW ev, EventOK(ev), NEW n,
         Buys(ev) => n \in DOMAIN st.buy_fx_basis
  PROVE  OutAt(st, ev, n) \in Rat
<1>1. CASE Buys(ev) /\ Slot(st, n) = {}
  <2>1. TradeOK(ev)
    BY <1>1 DEF Buys, Traded, TradeOK, EventOK
  <2>2. Moved(Gross(ev) ++ ev.fees) \in Rat
    BY <2>1, TradeAmounts, MovedType
  <2>3. st.buy_fx_basis \in Partial(Nat, Rat)
    BY StateFields
  <2>4. st.buy_fx_basis[n] \in Rat
    BY <1>1, <2>3, PartialType
  <2> QED
    BY <1>1, <2>2, <2>4, MulType DEF OutAt
<1>2. CASE ~(Buys(ev) /\ Slot(st, n) = {})
  BY <1>2, ZeroType DEF OutAt
<1> QED
  BY <1>1, <1>2

\* What an event brought in and took out stays as it was.
LEMMA FlowsKept ==
  ASSUME NEW st, NEW s, NEW M, NEW x, WorthStep(st, s, M, x), NEW n, n # M, NEW ev,
         Buys(ev) => n \in DOMAIN st.buy_fx_basis
  PROVE  InAt(s, ev, n) = InAt(st, ev, n) /\ OutAt(s, ev, n) = OutAt(st, ev, n)
<1>1. SaleBasis(s, n) = SaleBasis(st, n) /\ Slot(s, n) = Slot(st, n)
  BY DEF WorthStep, SalesKept, SlotsKept
<1>2. Buys(ev) /\ Slot(st, n) = {} => s.buy_fx_basis[n] = st.buy_fx_basis[n]
  BY DEF WorthStep, BasisKept
<1> QED
  BY <1>1, <1>2 DEF InAt, OutAt

SpendsNothing(events) == \A n \in DOMAIN events : ~SpendsBasis(events[n])

Ins(st, events)  == [n \in DOMAIN events |-> InAt(st, events[n], n)]
Outs(st, events) == [n \in DOMAIN events |-> OutAt(st, events[n], n)]

\* The registry and the notes of the events agree with the log.
Noted(st, events) ==
  /\ \A id \in DOMAIN st.pending_borrows :
       Fits(st.pending_borrows[id], events[st.pending_borrows[id].consumer])
  /\ \A n \in 1..Len(events) : Buys(events[n]) => n \in DOMAIN st.buy_fx_basis
  /\ DOMAIN st.foreign_sell_fx_basis \subseteq 1..Len(events)

\* The value that is held is what came in less what went out.
ValueHeld(st, events) ==
  /\ AllEntered(st) /\ Priced(st) /\ Noted(st, events)
  /\ Worth(st, Len(events)) ++ SumOf(Ins(st, events)) = SumOf(Outs(st, events))

ValueInOrder == SpendsNothing(log) => ValueHeld(state, log)

LEMMA FlowTypes ==
  ASSUME NEW st \in StateSet, NEW events \in Seq(Event), Noted(st, events)
  PROVE  /\ Ins(st, events) \in [1..Len(events) -> Rat]
         /\ Outs(st, events) \in [1..Len(events) -> Rat]
<1>1. DOMAIN events = 1..Len(events)
  OBVIOUS
<1>2. \A n \in 1..Len(events) : EventOK(events[n])
  BY EventAssumption
<1>3. \A n \in 1..Len(events) : InAt(st, events[n], n) \in Rat
  BY <1>2, InType
<1>4. \A n \in 1..Len(events) : OutAt(st, events[n], n) \in Rat
  BY <1>2, OutType DEF Noted
<1>5. Ins(st, events) \in [1..Len(events) -> Rat]
  BY <1>1, <1>3 DEF Ins
<1>6. Outs(st, events) \in [1..Len(events) -> Rat]
  BY <1>1, <1>4 DEF Outs
<1> QED
  BY <1>5, <1>6

LEMMA InitValue == Init => ValueInOrder
<1> SUFFICES ASSUME Init PROVE ValueInOrder
  OBVIOUS
<1>1. /\ DOMAIN state.pending_borrows = {} /\ log = <<>> /\ Len(log) = 0 /\ DOMAIN log = {}
      /\ DOMAIN state.foreign_sell_fx_basis = {}
      /\ \A c \in Currency : state.currencies[c] = EmptyBucket
  BY DEF Init
<1>2. AllEntered(state)
  <2>1. EmptyBucket.borrow_lots = <<>>
    BY DEF EmptyBucket
  <2>2. AllPositive(<<>>) /\ <<>> \in Seq(BorrowLot) /\ DOMAIN <<>> = {}
    BY DEF AllPositive
  <2>3. \A id \in BorrowId : DebtOf(<<>>, id) = Zero
    BY <2>2, DebtSign
  <2> QED
    BY <1>1, <2>1, <2>3 DEF AllEntered, Entered, Debt
<1>3. Priced(state) /\ Noted(state, log)
  BY <1>1 DEF Priced, Noted
<1>4. Purses(state) = Zero
  <2>1. /\ Cardinality(Currency) \in Nat
        /\ Codes \in [1..Cardinality(Currency) -> Currency]
    BY CodesAre
  <2>2. Purse(EmptyBucket) = Zero
    <3>1. EmptyBucket.gain_fifo = Zero /\ EmptyBucket.fifo_lots = <<>>
      BY DEF EmptyBucket
    <3> QED
      BY <3>1, ValueEmpty, ZeroType, AddZero DEF Purse
  <2>3. PurseList(state) \in [1..Cardinality(Currency) -> Rat]
    BY PursesType, InitSound DEF Books, Sound, WalletOK, CashSound
  <2>4. \A k \in 1..Cardinality(Currency) : PurseList(state)[k] = Zero
    BY <1>1, <2>1, <2>2 DEF PurseList
  <2> DEFINE q == PurseList(state)
  <2> HIDE DEF q
  <2>5. q \in Seq(Rat) /\ \A k \in 1..Len(q) : q[k] = Zero
    BY <2>1, <2>3, <2>4 DEF q
  <2> QED
    BY <2>5, SumZero DEF Purses, q
<1>5. /\ Ledger(state, 0, LoanW) = <<>> /\ Ins(state, <<>>) = <<>>
      /\ Outs(state, <<>>) = <<>>
  BY DEF Ledger, Ins, Outs
<1>6. Worth(state, 0) = Zero
  BY <1>4, <1>5, SumEmpty, ZeroType, AddZero DEF Worth
<1>7. Worth(state, Len(log)) ++ SumOf(Ins(state, log)) = SumOf(Outs(state, log))
  BY <1>1, <1>5, <1>6, SumEmpty, ZeroType, AddZero
<1> QED
  BY <1>2, <1>3, <1>7 DEF ValueInOrder, ValueHeld

\* Whatever spends nothing that lacks a basis takes no loan that BorrowsCovered
\* exempts.
LEMMA SpendsExempt ==
  ASSUME NEW ev, ~SpendsBasis(ev)
  PROVE  ~Exempt(ev)
<1> SUFFICES ASSUME Exempt(ev) PROVE FALSE
  OBVIOUS
<1>1. ev.type = "FX_CONVERSION" /\ ~Traded(ev)
  BY DEF Exempt, FeeElsewhere, ConvertsNothing, Traded
<1>2. SpendsBasis(ev) <=> (Positive(ev.fee) \/ ~Exchanges(ev))
  BY <1>1 DEF SpendsBasis
<1> QED
  BY <1>2 DEF Exempt, FeeElsewhere, ConvertsNothing, Exchanges

LEMMA LentInOrder ==
  ASSUME log \in Seq(Event), LoansInOrder, SpendsNothing(log)
  PROVE  Lent(state)
<1> SUFFICES ASSUME NEW id \in DOMAIN state.pending_borrows PROVE LoanOK(state, id)
  BY DEF Lent
<1>1. id[1] \in 1..Len(log) /\ (Exempt(log[id[1]]) \/ LoanOK(state, id))
  BY DEF LoansInOrder
<1>2. ~SpendsBasis(log[id[1]])
  BY <1>1 DEF SpendsNothing
<1> QED
  BY <1>1, <1>2, SpendsExempt

LEMMA NextStarts ==
  ASSUME Books, LoansInOrder, FeesInOrder, ValueHeld(state, log), SpendsNothing(log),
         sid = Len(log) + 1, Len(log) \in Nat
  PROVE  /\ Starts(state)
         /\ Worth(state, sid) = Worth(state, Len(log))
<1> DEFINE N == Len(log)
<1>1. Ready(state) /\ sid \in Nat \ {0}
  BY NextReady
<1>2. Lent(state)
  BY LentInOrder DEF Books
<1>3. AllEntered(state) /\ sid \notin DOMAIN state.foreign_sell_fx_basis
  <2>1. sid \notin 1..N
    OBVIOUS
  <2> QED
    BY <2>1 DEF ValueHeld, Noted
<1>4. Worth(state, sid) = Worth(state, N)
  <2>1. state \in StateSet /\ Keyed(state, N)
    BY DEF Books, Sound, WalletOK, CashSound, FeesInOrder
  <2>2. SumOf(Ledger(state, N + 1, LoanW)) = SumOf(Ledger(state, N, LoanW))
    BY <2>1, LoanWeight, LedgerLonger
  <2> QED
    BY <2>2 DEF Worth
<1> QED
  BY <1>1, <1>2, <1>3, <1>4 DEF Starts

\* The registry and the notes still agree with the log, with the event at M.
LEMMA NextNoted ==
  ASSUME NEW st \in StateSet, NEW N \in Nat, Keyed(st, N), NEW events \in Seq(Event),
         Len(events) = N, Noted(st, events),
         NEW later \in Seq(Event), Len(later) = N + 1, NEW ev, later[N + 1] = ev,
         \A n \in 1..N : later[n] = events[n], sid = N + 1,
         NEW s, NEW x, Holds(st, s, ev, x)
  PROVE  Noted(s, later)
<1>1. /\ EntriesFrom(st, s, N + 1) /\ SalesKept(st, s, N + 1) /\ BasisKept(st, s, N + 1)
      /\ \A id \in Slot(s, N + 1) : Fits(s.pending_borrows[id], ev)
      /\ Buys(ev) => N + 1 \in DOMAIN s.buy_fx_basis
  BY DEF Holds, WorthStep
<1>2. ASSUME NEW id \in DOMAIN s.pending_borrows
      PROVE  Fits(s.pending_borrows[id], later[s.pending_borrows[id].consumer])
  <2>1. CASE /\ id \in DOMAIN st.pending_borrows
             /\ SameLoan(st.pending_borrows[id], s.pending_borrows[id])
    <3> DEFINE a == st.pending_borrows[id]
               b == s.pending_borrows[id]
    <3>1. a.consumer \in 1..N /\ Fits(a, events[a.consumer])
      BY <2>1 DEF Keyed, Noted
    <3>2. /\ b.consumer = a.consumer /\ b.consumer_kind = a.consumer_kind
          /\ b.borrowed_qty = a.borrowed_qty /\ b.lot_backed_qty = a.lot_backed_qty
      BY <2>1 DEF SameLoan
    <3>3. later[a.consumer] = events[a.consumer]
      BY <3>1
    <3> HIDE DEF a, b
    <3>4. Fits(b, later[b.consumer])
      BY <3>1, <3>2, <3>3 DEF Fits
    <3> QED
      BY <3>4 DEF b
  <2>2. CASE s.pending_borrows[id].consumer = N + 1
    <3>1. id \in Slot(s, N + 1)
      BY <2>2 DEF Slot
    <3> QED
      BY <1>1, <2>2, <3>1
  <2> QED
    BY <1>1, <2>1, <2>2 DEF EntriesFrom
<1>3. \A n \in 1..N + 1 : Buys(later[n]) => n \in DOMAIN s.buy_fx_basis
  <2> SUFFICES ASSUME NEW n \in 1..N + 1, Buys(later[n])
               PROVE  n \in DOMAIN s.buy_fx_basis
    OBVIOUS
  <2>1. CASE n \in 1..N
    BY <1>1, <2>1 DEF BasisKept, Noted
  <2>2. CASE n = N + 1
    BY <1>1, <2>2
  <2> QED
    BY <2>1, <2>2
<1>4. DOMAIN s.foreign_sell_fx_basis \subseteq 1..N + 1
  <2>1. DOMAIN st.foreign_sell_fx_basis \subseteq 1..N /\ 1..N \cup {N + 1} = 1..N + 1
    BY DEF Noted
  <2> QED
    BY <1>1, <2>1 DEF SalesKept
<1> QED
  BY <1>2, <1>3, <1>4 DEF Noted

\* The event at N + 1 leaves the value held.
LEMMA ValueLonger ==
  ASSUME NEW st \in StateSet, NEW N \in Nat, Keyed(st, N), NEW events \in Seq(Event),
         Len(events) = N, ValueHeld(st, events),
         NEW later \in Seq(Event), Len(later) = N + 1, NEW ev, later[N + 1] = ev,
         \A n \in 1..N : later[n] = events[n], sid = N + 1,
         Worth(st, N + 1) = Worth(st, N), NEW s, ValueAfter(st, s, ev)
  PROVE  ValueHeld(s, later)
<1>1. PICK x \in Rat : Holds(st, s, ev, x)
  BY DEF ValueAfter
<1>2. /\ WorthStep(st, s, N + 1, x) /\ x ++ InAt(s, ev, N + 1) = OutAt(s, ev, N + 1)
      /\ AllEntered(s)
  BY <1>1 DEF Holds
<1>3. s \in StateSet /\ Priced(s) /\ Worth(s, N + 1) = Worth(st, N) ++ x
  BY <1>2 DEF WorthStep, ValueHeld
<1>4. Noted(st, events)
  BY DEF ValueHeld
<1>5. Noted(s, later)
  BY <1>1, <1>4, NextNoted
<1> DEFINE p == Ins(st, events)
           r == Ins(s, later)
           q == Outs(st, events)
           t == Outs(s, later)
           i == InAt(s, ev, N + 1)
           o == OutAt(s, ev, N + 1)
           w == Worth(st, N)
<1>6. /\ p \in [1..N -> Rat] /\ q \in [1..N -> Rat]
      /\ r \in [1..N + 1 -> Rat] /\ t \in [1..N + 1 -> Rat]
  BY <1>3, <1>4, <1>5, FlowTypes
<1>7. DOMAIN events = 1..N /\ DOMAIN later = 1..N + 1
  OBVIOUS
<1>8. ASSUME NEW n \in 1..N PROVE r[n] = p[n] /\ t[n] = q[n]
  <2> DEFINE e == events[n]
  <2>1. n # N + 1 /\ later[n] = e /\ (Buys(e) => n \in DOMAIN st.buy_fx_basis)
    BY <1>4 DEF Noted
  <2> HIDE DEF e
  <2>2. InAt(s, e, n) = InAt(st, e, n) /\ OutAt(s, e, n) = OutAt(st, e, n)
    BY <1>2, <2>1, FlowsKept
  <2>3. n \in 1..N + 1
    OBVIOUS
  <2> QED
    BY <1>7, <2>1, <2>2, <2>3 DEF Ins, Outs, e
<1>9. r[N + 1] = i /\ t[N + 1] = o
  <2>1. N + 1 \in 1..N + 1
    OBVIOUS
  <2> QED
    BY <1>7, <2>1 DEF Ins, Outs
<1>10. w ++ SumOf(p) = SumOf(q) /\ w \in Rat /\ x ++ i = o
  BY <1>2, WorthType DEF ValueHeld
<1>11. Worth(s, N + 1) = w ++ x
  BY <1>3
<1> HIDE DEF p, r, q, t, i, o, w
<1>12. SumOf(r) = SumOf(p) ++ i /\ SumOf(p) \in Rat
  BY <1>6, <1>8, <1>9, SumExtended
<1>13. SumOf(t) = SumOf(q) ++ o
  BY <1>6, <1>8, <1>9, SumExtended
<1>14. i \in Rat
  BY <1>6, <1>9
<1>15. (w ++ x) ++ (SumOf(p) ++ i) = (w ++ SumOf(p)) ++ (x ++ i)
  BY <1>10, <1>12, <1>14, AddSwapped
<1>16. Worth(s, N + 1) ++ SumOf(r) = SumOf(t)
  BY <1>10, <1>11, <1>12, <1>13, <1>15
<1>17. Worth(s, Len(later)) ++ SumOf(Ins(s, later)) = SumOf(Outs(s, later))
  BY <1>16 DEF r, t
<1> QED
  BY <1>2, <1>3, <1>5, <1>17 DEF ValueHeld

LEMMA NextValue ==
  Books /\ LoansInOrder /\ FeesInOrder /\ ValueInOrder /\ [Next]_vars => ValueInOrder'
<1> SUFFICES ASSUME Books, LoansInOrder, FeesInOrder, ValueInOrder, [Next]_vars
             PROVE  ValueInOrder'
  OBVIOUS
<1>1. ASSUME NEW ev \in Event, accumulate(ev) PROVE ValueInOrder'
  <2> DEFINE N == Len(log)
             s == EventTo(state, ev)
  <2>1. /\ log \in Seq(Event) /\ log' \in Seq(Event) /\ Len(log') = N + 1 /\ N \in Nat
        /\ sid = N + 1 /\ log'[N + 1] = ev /\ \A n \in 1..N : log'[n] = log[n]
    BY <1>1, Accumulated DEF Books
  <2>2. sid \in Nat
    BY <2>1
  <2>3. state' = s
    BY <1>1, <2>2, EventIs DEF Books
  <2>4. ASSUME SpendsNothing(log') PROVE ValueHeld(s, log')
    <3>1. DOMAIN log = 1..N /\ DOMAIN log' = 1..N + 1
      BY <2>1
    <3>2. SpendsNothing(log) /\ ~SpendsBasis(ev)
      BY <2>1, <2>4, <3>1 DEF SpendsNothing
    <3>3. ValueHeld(state, log)
      BY <3>2 DEF ValueInOrder
    <3>4. Starts(state) /\ Worth(state, sid) = Worth(state, N)
      BY <2>1, <3>2, <3>3, NextStarts
    <3>5. EventOK(ev) /\ Sound(state)
      BY EventAssumption DEF Books
    <3>6. ValueAfter(state, s, ev)
      BY <3>2, <3>4, <3>5, EventValue
    <3>7. state \in StateSet /\ Keyed(state, N)
      BY DEF Books, Sound, WalletOK, CashSound, FeesInOrder
    <3>8. Worth(state, N + 1) = Worth(state, N) /\ Len(log) = N
      BY <2>1, <3>4
    <3> HIDE DEF s, N
    <3> QED
      BY <2>1, <3>3, <3>6, <3>7, <3>8, ValueLonger
  <2>5. SpendsNothing(log') => ValueHeld(state', log')
    BY <2>3, <2>4
  <2> QED
    BY <2>5 DEF ValueInOrder
<1>2. CASE UNCHANGED vars
  <2>1. state' = state /\ log' = log
    BY <1>2 DEF vars
  <2>2. SpendsNothing(log') => ValueHeld(state', log')
    BY <2>1 DEF ValueInOrder
  <2> QED
    BY <2>2 DEF ValueInOrder
<1> QED
  BY <1>1, <1>2 DEF Next

\* What the open conversion at n is still to gain.
ToGain(n) ==
  IF Loans("convert", n) = {} THEN Zero
  ELSE (Loan("convert", n).borrowed_qty ** Loan("convert", n).from_broker_fx)
         -- Loan("convert", n).weighted

\* A loan that is covered in full was for what was borrowed.
LEMMA CoveredBorrowed ==
  ASSUME CashSound(state), NEW id \in DOMAIN state.pending_borrows, LoanOK(state, id),
         NEW pb, pb = state.pending_borrows[id], pb.finalized
  PROVE  pb.covered_qty = pb.borrowed_qty
<1> DEFINE c == pb.from_ccy
           borrows == state.currencies[c].borrow_lots
           b == pb.borrowed_qty
           t == pb.covered_qty
           d == DebtOf(borrows, id)
<1>1. pb \in PendingSet /\ c \in Currency /\ b \in Rat /\ t \in Rat
  BY PartialType, StateFields, PendingFields DEF CashSound
<1>2. borrows \in Seq(BorrowLot) /\ AllPositive(borrows)
  BY <1>1, BucketFields, StateFields DEF CashSound, BucketOK
<1>3. b \preceq t /\ b -- t = d
  BY DEF LoanOK, fully_covered, Debt
<1> HIDE DEF borrows
<1>4. Zero \preceq d
  BY <1>2, DebtSign
<1> HIDE DEF b, t, d
<1>5. b -- t \in Rat /\ (Positive(b -- t) \/ b -- t = Zero)
  BY <1>1, <1>3, <1>4, AddType, NotNegative
<1>6. ~Positive(b -- t)
  BY <1>1, <1>3, <1>5, OrderFacts DEF Positive
<1>7. (b -- t) ++ t = b /\ Zero ++ t = t
  BY <1>1, AddSub, AddZero
<1> QED
  BY <1>5, <1>6, <1>7 DEF b, t

LEMMA SlotLoans ==
  ASSUME NEW n, NEW id, Slot(state, n) = {id}, NEW pb, pb = state.pending_borrows[id]
  PROVE  \A kind \in {"buy", "convert"} :
           IF pb.consumer_kind = kind /\ ~pb.finalized
           THEN Loans(kind, n) = {id} /\ Loan(kind, n) = pb
           ELSE Loans(kind, n) = {}
<1> SUFFICES ASSUME NEW kind \in {"buy", "convert"}
             PROVE  IF pb.consumer_kind = kind /\ ~pb.finalized
                    THEN Loans(kind, n) = {id} /\ Loan(kind, n) = pb
                    ELSE Loans(kind, n) = {}
  OBVIOUS
<1>1. Loans(kind, n)
        = {j \in Slot(state, n) : /\ state.pending_borrows[j].consumer_kind = kind
                                  /\ ~state.pending_borrows[j].finalized}
  BY DEF Loans, Slot
<1>2. CASE pb.consumer_kind = kind /\ ~pb.finalized
  <2>1. Loans(kind, n) = {id}
    BY <1>1, <1>2
  <2>2. (CHOOSE x \in Loans(kind, n) : TRUE) = id
    BY <2>1
  <2> QED
    BY <1>2, <2>1, <2>2 DEF Loan
<1>3. CASE ~(pb.consumer_kind = kind /\ ~pb.finalized)
  BY <1>1, <1>3
<1> QED
  BY <1>2, <1>3

\* What an entry counts for is what its purchase has not cost yet of its worth,
\* or what its conversion is still to gain.
ValueOf(n) ==
  /\ ValueOut(n) \in Rat /\ ToGain(n) \in Rat
  /\ At(state, n, LoanW) ++ ValueOut(n) = ToGain(n) ++ OutAt(state, log[n], n)

LEMMA LotsPaid ==
  ASSUME state \in StateSet, NEW n, Slot(state, n) = {}, NEW ev, ev = log[n], EventOK(ev),
         Buys(ev) => n \in DOMAIN state.buy_fx_basis
  PROVE  ValueOf(n)
<1>1. Loans("buy", n) = {} /\ Loans("convert", n) = {}
  BY DEF Loans, Slot
<1>2. ToGain(n) = Zero /\ At(state, n, LoanW) = Zero
  BY <1>1 DEF ToGain, At
<1>3. ValueOut(n) = OutAt(state, log[n], n)
  BY <1>1 DEF ValueOut, OutAt, Buys
<1>4. OutAt(state, log[n], n) \in Rat
  BY OutType
<1> QED
  BY <1>2, <1>3, <1>4, ZeroType DEF ValueOf

LEMMA OpenValue ==
  ASSUME CashSound(state), NEW M, Keyed(state, M), Lent(state), Priced(state),
         NEW n, NEW id \in DOMAIN state.pending_borrows,
         NEW pb, pb = state.pending_borrows[id], pb.consumer = n,
         NEW ev, ev = log[n], EventOK(ev), Fits(pb, ev)
  PROVE  ValueOf(n)
<1>1. state \in StateSet /\ pb \in PendingSet
  BY PartialType, StateFields DEF CashSound
<1>2. Slot(state, n) = {id} /\ At(state, n, LoanW) = LoanW[pb]
  BY AtIs
<1>3. /\ pb.weighted \in Rat /\ pb.borrowed_qty \in Rat /\ pb.from_broker_fx \in Rat
      /\ pb.lot_backed_qty \in Rat /\ pb.consumer_kind \in {"buy", "convert"}
      /\ Backed(pb) \in Rat
  BY <1>1, PendingFields, BackedType
<1>4. \A kind \in {"buy", "convert"} :
        IF pb.consumer_kind = kind /\ ~pb.finalized
        THEN Loans(kind, n) = {id} /\ Loan(kind, n) = pb
        ELSE Loans(kind, n) = {}
  BY <1>2, SlotLoans
<1>5. OutAt(state, log[n], n) = Zero
  BY <1>2 DEF OutAt
<1>6. LoanW[pb] = IF pb.consumer_kind = "buy" THEN Zero -- (pb.weighted ++ Backed(pb))
                  ELSE IF pb.finalized THEN Zero
                  ELSE (pb.borrowed_qty ** pb.from_broker_fx) -- pb.weighted
  BY <1>1, LoanWeight
<1> DEFINE x == pb.weighted ++ Backed(pb)
           y == (pb.borrowed_qty ** pb.from_broker_fx) -- pb.weighted
<1>7. x \in Rat /\ y \in Rat
  BY <1>3, AddType, MulType
<1>8. CASE pb.consumer_kind = "buy"
  <2>1. /\ Buys(ev)
        /\ pb.lot_backed_qty ++ pb.borrowed_qty = Moved(Gross(ev) ++ ev.fees)
    BY <1>8 DEF Fits
  <2>2. ToGain(n) = Zero
    BY <1>4, <1>8 DEF ToGain
  <2>3. ValueOut(n) = x
    <3>1. CASE ~pb.finalized
      <4>1. Loans("buy", n) # {} /\ Loan("buy", n) = pb
        BY <1>4, <1>8, <3>1
      <4> QED
        BY <2>1, <4>1 DEF ValueOut, Buys, Backed
    <3>2. CASE pb.finalized
      <4>1. Loans("buy", n) = {}
        BY <1>4, <3>2
      <4> DEFINE q == pb.lot_backed_qty ++ pb.borrowed_qty
                 fx == state.buy_fx_basis[n]
      <4>2. ValueOut(n) = q ** fx
        BY <2>1, <4>1 DEF ValueOut, Buys
      <4>3. pb.covered_qty = pb.borrowed_qty
        BY <3>2, CoveredBorrowed DEF Lent
      <4>4. PaidFor(state, pb)
        BY <1>8, <3>2 DEF Priced
      <4>5. n \in DOMAIN state.buy_fx_basis /\ fx ** q = Backed(pb) ++ pb.weighted
        BY <4>3, <4>4 DEF PaidFor
      <4>6. q \in Rat /\ fx \in Rat
        BY <1>1, <1>3, <4>5, AddType, PartialType, StateFields
      <4> HIDE DEF q, fx
      <4> QED
        BY <1>3, <4>2, <4>5, <4>6, MulComm, AddComm
    <3> QED
      BY <3>1, <3>2
  <2>4. At(state, n, LoanW) = Zero -- x
    BY <1>2, <1>6, <1>8
  <2> HIDE DEF x, y
  <2>5. (Zero -- x) ++ x = Zero /\ Zero ++ Zero = Zero
    BY <1>7, ZeroType, AddSub, AddZero
  <2> QED
    BY <1>5, <1>7, <2>2, <2>3, <2>4, <2>5, ZeroType DEF ValueOf
<1>9. CASE pb.consumer_kind = "convert"
  <2>1. ~Buys(ev)
    BY <1>9 DEF Fits
  <2>2. ValueOut(n) = Zero
    BY <2>1 DEF ValueOut, Buys
  <2>3. ToGain(n) = IF pb.finalized THEN Zero ELSE y
    <3>1. CASE pb.finalized
      BY <1>4, <3>1 DEF ToGain
    <3>2. CASE ~pb.finalized
      <4>1. Loans("convert", n) # {} /\ Loan("convert", n) = pb
        BY <1>4, <1>9, <3>2
      <4> QED
        BY <3>2, <4>1 DEF ToGain
    <3> QED
      BY <3>1, <3>2
  <2>4. At(state, n, LoanW) = IF pb.finalized THEN Zero ELSE y
    BY <1>2, <1>6, <1>9
  <2> HIDE DEF x, y
  <2> QED
    BY <1>5, <1>7, <2>2, <2>3, <2>4, ZeroType DEF ValueOf
<1> QED
  BY <1>3, <1>8, <1>9

\* What is on both sides cancels,
LEMMA SumsCancel ==
  ASSUME NEW w \in Rat, NEW l \in Rat, NEW i \in Rat, NEW c \in Rat, NEW o \in Rat,
         l ++ o = c ++ ((w ++ l) ++ i)
  PROVE  o = c ++ (w ++ i)
<1> DEFINE q == w ++ i
<1>1. q \in Rat /\ c ++ q \in Rat
  BY AddType
<1>2. (w ++ l) ++ i = q ++ l
  BY AddAssoc, AddComm
<1> HIDE DEF q
<1>3. c ++ (q ++ l) = (c ++ q) ++ l /\ l ++ o = o ++ l
  BY <1>1, AddAssoc, AddComm
<1>4. o ++ l = (c ++ q) ++ l
  BY <1>2, <1>3
<1>5. (o ++ l) -- l = o /\ ((c ++ q) ++ l) -- l = c ++ q
  BY <1>1, AddSub
<1>6. o = c ++ q
  BY <1>4, <1>5
<1> QED
  BY <1>6 DEF q

\* and what came in is what is held, gained and paid.
LEMMA ValueSums ==
  ASSUME NEW g \in Rat, NEW v \in Rat, NEW i \in Rat, NEW c \in Rat
  PROVE  (i ++ g) ++ c = v ++ (c ++ ((g -- v) ++ i))
<1>1. HaveCommon(g, v, i, c)
  BY Common4
<1>2. PICK d \in Pos, x \in Int, y \in Int, z \in Int, u \in Int :
        g = Reduced(x, d) /\ v = Reduced(y, d) /\ i = Reduced(z, d) /\ c = Reduced(u, d)
  BY <1>1 DEF HaveCommon
<1>3. /\ x - y \in Int /\ (x - y) + z \in Int /\ u + ((x - y) + z) \in Int
      /\ z + x \in Int /\ (z + x) + u \in Int
      /\ y + (u + ((x - y) + z)) = (z + x) + u
  OBVIOUS
<1>4. g -- v = Reduced(x - y, d) /\ i ++ g = Reduced(z + x, d)
  BY <1>2, RatioAdd
<1>5. /\ (g -- v) ++ i = Reduced((x - y) + z, d)
      /\ (i ++ g) ++ c = Reduced((z + x) + u, d)
  BY <1>2, <1>3, <1>4, RatioAdd
<1>6. c ++ ((g -- v) ++ i) = Reduced(u + ((x - y) + z), d)
  BY <1>2, <1>3, <1>5, RatioAdd
<1>7. v ++ (c ++ ((g -- v) ++ i)) = Reduced(y + (u + ((x - y) + z)), d)
  BY <1>2, <1>3, <1>6, RatioAdd
<1> QED
  BY <1>3, <1>5, <1>7

\* The sums of the log are those of its events.
LEMMA ValuesAre ==
  ASSUME Books, LoansInOrder, FeesInOrder, SpendsNothing(log), ValueHeld(state, log)
  PROVE  \A n \in 1..Len(log) : ValueOf(n) /\ ValueIn(n) = InAt(state, log[n], n)
<1> SUFFICES ASSUME NEW n \in 1..Len(log)
             PROVE  ValueOf(n) /\ ValueIn(n) = InAt(state, log[n], n)
  OBVIOUS
<1> DEFINE ev == log[n]
<1>1. CashSound(state) /\ state \in StateSet /\ Keyed(state, Len(log)) /\ log \in Seq(Event)
  BY DEF Books, Sound, WalletOK, CashSound, FeesInOrder
<1>2. EventOK(ev)
  BY <1>1, EventAssumption
<1>3. Priced(state) /\ Noted(state, log) /\ Lent(state)
  BY <1>1, LentInOrder DEF ValueHeld
<1>4. Buys(ev) => n \in DOMAIN state.buy_fx_basis
  BY <1>3 DEF Noted
<1>5. ValueOf(n)
  <2>1. CASE Slot(state, n) = {}
    <3> HIDE DEF ev
    <3> QED
      BY <1>1, <1>2, <1>4, <2>1, LotsPaid DEF ev
  <2>2. CASE Slot(state, n) # {}
    <3>1. PICK id \in DOMAIN state.pending_borrows : state.pending_borrows[id].consumer = n
      BY <2>2 DEF Slot
    <3> DEFINE pb == state.pending_borrows[id]
    <3>2. pb.consumer = n /\ Fits(pb, ev)
      BY <1>3, <3>1 DEF Noted
    <3> HIDE DEF pb, ev
    <3> QED
      BY <1>1, <1>2, <1>3, <3>2, OpenValue DEF pb, ev
  <2> QED
    BY <2>1, <2>2
<1>6. ValueIn(n) = InAt(state, ev, n)
  BY DEF ValueIn, InAt, SaleBasis
<1> QED
  BY <1>5, <1>6

\* No base value appears or disappears while only cash with an FX basis is
\* spent: what came in is in the lots, in the basis of what was bought, or has
\* been realised as FX gain, through every borrow, partial and late cover and
\* conversion (_bucket_deposit, _bucket_drain, _on_cover, _finalize_borrow).
THEOREM FoldValue == Spec => []ValueConserved
<1>1. Init => Books /\ LoansInOrder /\ FeesInOrder /\ ValueInOrder
  BY InitSound, InitLoans, InitFees, InitValue
<1>2. Books /\ LoansInOrder /\ FeesInOrder /\ ValueInOrder /\ [Next]_vars
        => (Books /\ LoansInOrder /\ FeesInOrder /\ ValueInOrder)'
  BY NextSound, NextLoans, NextFees, NextValue
<1>3. Books /\ LoansInOrder /\ FeesInOrder /\ ValueInOrder => ValueConserved
  <2> SUFFICES ASSUME Books, LoansInOrder, FeesInOrder, ValueInOrder, SpendsNothing(log)
               PROVE  LogTotal(ValueIn) ++ OverCurrencies(LAMBDA c : Bucket(c).gain_fifo)
                        ++ LoanTotal("convert", LAMBDA pb :
                             (pb.borrowed_qty ** pb.from_broker_fx) -- pb.weighted)
                      = OverCurrencies(LAMBDA c : Value(Bucket(c).fifo_lots))
                          ++ LogTotal(ValueOut)
    BY DEF ValueConserved, SpendsNothing
  <2> DEFINE N == Len(log)
             open == Ledger(state, N, LoanW)
             ins == Ins(state, log)
             outs == Outs(state, log)
             paid == [n \in 1..N |-> ValueOut(n)]
             gains == [n \in 1..N |-> ToGain(n)]
             both == [n \in 1..N |-> open[n] ++ paid[n]]
             g == OverCurrencies(LAMBDA c : Bucket(c).gain_fifo)
             v == OverCurrencies(LAMBDA c : Value(Bucket(c).fifo_lots))
  <2>1. /\ state \in StateSet /\ N \in Nat /\ DOMAIN log = 1..N /\ log \in Seq(Event)
    BY DEF Books, Sound, WalletOK, CashSound
  <2>2. ValueHeld(state, log)
    BY DEF ValueInOrder
  <2>3. \A n \in 1..N : ValueOf(n) /\ ValueIn(n) = InAt(state, log[n], n)
    BY <2>2, ValuesAre
  <2>4. LogTotal(ValueIn) = SumOf(ins)
    <3>1. [n \in DOMAIN log |-> ValueIn(n)] = ins
      BY <2>1, <2>3 DEF Ins
    <3> QED
      BY <3>1 DEF LogTotal
  <2>5. LogTotal(ValueOut) = SumOf(paid)
    BY <2>1 DEF LogTotal
  <2>6. LoanTotal("convert", LAMBDA pb :
          (pb.borrowed_qty ** pb.from_broker_fx) -- pb.weighted) = SumOf(gains)
    BY <2>1 DEF LoanTotal, LogTotal, ToGain
  <2>7. g \in Rat /\ v \in Rat /\ Purses(state) = g -- v
    BY <2>1, PursesAre
  <2>8. ((g -- v) ++ SumOf(open)) ++ SumOf(ins) = SumOf(outs)
    BY <2>2, <2>7 DEF ValueHeld, Worth
  <2>9. open \in [1..N -> Rat] /\ ins \in [1..N -> Rat] /\ outs \in [1..N -> Rat]
    BY <2>1, <2>2, LoanWeight, LedgerType, FlowTypes DEF ValueHeld
  <2>10. \A n \in 1..N : paid[n] \in Rat /\ gains[n] \in Rat
    BY <2>3 DEF ValueOf
  <2>11. paid \in [1..N -> Rat] /\ gains \in [1..N -> Rat]
    BY <2>10
  <2>12. \A n \in 1..N : open[n] ++ paid[n] \in Rat
    BY <2>9, <2>11, AddType
  <2>13. both \in [1..N -> Rat]
    BY <2>12
  <2>14. \A n \in 1..N : both[n] = open[n] ++ paid[n] /\ both[n] = gains[n] ++ outs[n]
    BY <2>1, <2>3 DEF ValueOf, Ledger, Outs
  <2> HIDE DEF open, ins, outs, paid, gains, both, g, v
  <2>15. /\ open \in Seq(Rat) /\ ins \in Seq(Rat) /\ outs \in Seq(Rat) /\ paid \in Seq(Rat)
         /\ gains \in Seq(Rat) /\ both \in Seq(Rat)
         /\ Len(open) = N /\ Len(outs) = N /\ Len(paid) = N /\ Len(gains) = N /\ Len(both) = N
    <3>1. ASSUME NEW p \in [1..N -> Rat] PROVE p \in Seq(Rat) /\ Len(p) = N
      BY <2>1
    <3> HIDE DEF N
    <3> QED
      BY <2>9, <2>11, <2>13, <3>1
  <2>16. SumOf(both) = SumOf(open) ++ SumOf(paid)
    BY <2>14, <2>15, SumPointwise
  <2>17. SumOf(both) = SumOf(gains) ++ SumOf(outs)
    BY <2>14, <2>15, SumPointwise
  <2>18. /\ SumOf(open) \in Rat /\ SumOf(ins) \in Rat /\ SumOf(outs) \in Rat
         /\ SumOf(paid) \in Rat /\ SumOf(gains) \in Rat
    BY <2>15, SumType
  <2>19. (SumOf(ins) ++ g) ++ SumOf(gains) = v ++ SumOf(paid)
    <3> DEFINE l == SumOf(open)
               i == SumOf(ins)
               p == SumOf(outs)
               c == SumOf(gains)
               o == SumOf(paid)
    <3>1. /\ l \in Rat /\ i \in Rat /\ p \in Rat /\ c \in Rat /\ o \in Rat
          /\ ((g -- v) ++ l) ++ i = p /\ l ++ o = c ++ p
      BY <2>8, <2>16, <2>17, <2>18
    <3> HIDE DEF l, i, p, c, o
    <3>2. o = c ++ ((g -- v) ++ i)
      <4> DEFINE w == g -- v
      <4>1. w \in Rat /\ l ++ o = c ++ ((w ++ l) ++ i)
        BY <2>7, <3>1, AddType
      <4> HIDE DEF w
      <4>2. o = c ++ (w ++ i)
        BY <3>1, <4>1, SumsCancel
      <4> QED
        BY <4>2 DEF w
    <3>3. (i ++ g) ++ c = v ++ o
      BY <2>7, <3>1, <3>2, ValueSums
    <3> QED
      BY <3>3 DEF i, c, o
  <2> QED
    BY <2>4, <2>5, <2>6, <2>19 DEF g, v
<1> QED
  BY <1>1, <1>2, <1>3, PTL DEF Spec
=============================================================================
