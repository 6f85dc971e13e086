----------------------------- MODULE CashBucket -----------------------------
(***************************************************************************)
(* The cash side of the fold kernel (03-functions/fold_kernel.sql): a      *)
(* bucket of FIFO lots and margin borrows for every currency, and the      *)
(* registry of borrows whose FX rate is known only when they are covered.  *)
(*                                                                         *)
(* The operators are the kernel's helpers: they take the fold state st, a  *)
(* record, and return the new one.  A loop that eats into a list from its  *)
(* front is written in closed form (Taken, Rest).                          *)
(***************************************************************************)
EXTENDS Rationals, FiniteSets

CONSTANT Currency

\* A portfolio is kept in finitely many currencies.
ASSUME CurrencyAssumption == IsFiniteSet(Currency)

\* Python's None.
None == <<>>

\* dict[key] = value
Put(dict, key, value) ==
  [k \in DOMAIN dict \cup {key} |-> IF k = key THEN value ELSE dict[k]]

Total(seq, Val(_)) == SumOf([i \in DOMAIN seq |-> Val(seq[i])])

TotalQty(lots) == Total(lots, LAMBDA lot : lot.qty)

Value(lots) == Total(lots, LAMBDA lot : lot.qty ** lot.fx)

\* Mutant: the newest lot first.
Taken_last_first(lots, amount) ==
  [i \in DOMAIN lots |->
     LET left == amount -- TotalQty(SubSeq(lots, i + 1, Len(lots)))
     IN  Greater(Zero, Lesser(lots[i].qty, left))]

\* What a loop that takes amount from the front of lots takes from each.
Taken(lots, amount) ==
  LET before == Sums([i \in DOMAIN lots |-> lots[i].qty])
  IN  [i \in DOMAIN lots |-> Greater(Zero, Lesser(lots[i].qty, amount -- before[i - 1]))]

\* The lots a loop keeps: those that still hold something.
Kept(lots) ==
  LET kept[i \in 0..Len(lots)] ==
        IF i = 0 THEN <<>>
        ELSE IF Positive(lots[i].qty) THEN Append(kept[i - 1], lots[i])
        ELSE kept[i - 1]
  IN  kept[Len(lots)]

\* What the loop leaves.
Rest(lots, amount) ==
  LET taken == Taken(lots, amount)
  IN  Kept([i \in DOMAIN lots |-> [lots[i] EXCEPT !.qty = @ -- taken[i]]])

\* The sum over what is taken of its quantity times Weight.
TakenSum(lots, amount, Weight(_)) ==
  LET taken == Taken(lots, amount)
  IN  SumOf([i \in DOMAIN lots |-> taken[i] ** Weight(lots[i])])

EmptyBucket ==
  [fifo_lots |-> <<>>, borrow_lots |-> <<>>, avg_fx |-> Zero, lot_qty |-> Zero,
   gain_fifo |-> Zero, gain_avg |-> Zero, borrow_seq |-> 0,
   fees_native |-> Zero, fees_base |-> Zero]

fees_added(bucket, native, fx) ==
  [bucket EXCEPT !.fees_native = @ ++ native, !.fees_base = @ ++ (native ** fx)]

add_fees(st, ccy, native, fx) ==
  [st EXCEPT !.currencies[ccy] = fees_added(@, native, fx)]

(***************************************************************************)
(* Pending borrows                                                         *)
(***************************************************************************)

\* The FX rate of a purchase: what the lots cost and what the cover cost.
\* Mutant: the cover only.
margin_basis_of_loan(pb) == pb.weighted // pb.covered_qty

margin_basis(pb) ==
  LET backed == IF pb.lot_backed_basis = None THEN Zero
                ELSE pb.lot_backed_qty ** pb.lot_backed_basis
  IN  (backed ++ pb.weighted) // (pb.lot_backed_qty ++ pb.covered_qty)

\* Mutant: the deferred fee is forgotten.
book_deferred_fee_never(st, pb) == st

book_deferred_fee(st, pb) ==
  add_fees(st, pb.from_ccy, pb.fee_native, margin_basis(pb))

\* The FX gain of a conversion is the same for both methods.
gained(bucket, gain) == [bucket EXCEPT !.gain_fifo = @ ++ gain, !.gain_avg = @ ++ gain]

settled(pb) == [pb EXCEPT !.finalized = TRUE]

\* The rate of a borrow that is covered in full is known: a purchase gets
\* its FX basis and its deferred fee, a conversion its FX gain.
finalize_borrow(st, id) ==
  LET pb   == st.pending_borrows[id]
      gain == (pb.borrowed_qty ** pb.from_broker_fx) -- pb.weighted
      done == [st EXCEPT !.pending_borrows[id] = settled(@)]
  IN  IF pb.consumer_kind = "buy"
      THEN [book_deferred_fee(done, pb) EXCEPT
              !.buy_fx_basis = Put(@, pb.consumer, margin_basis(pb))]
      ELSE [done EXCEPT !.currencies[pb.from_ccy] = gained(@, gain)]

\* Mutant: the first cover settles the loan.
fully_covered_at_once(pb) == Positive(pb.covered_qty)

fully_covered(pb) == pb.borrowed_qty \preceq pb.covered_qty

covered_by(pb, qty, fx) ==
  [pb EXCEPT !.weighted = @ ++ (qty ** fx), !.covered_qty = @ ++ qty]

on_cover(st, id, qty, fx) ==
  IF id \notin DOMAIN st.pending_borrows THEN st
  ELSE IF st.pending_borrows[id].finalized THEN st
  ELSE LET st1 == [st EXCEPT !.pending_borrows[id] = covered_by(@, qty, fx)]
       IN  IF fully_covered(st1.pending_borrows[id]) THEN finalize_borrow(st1, id)
           ELSE st1

(***************************************************************************)
(* Buckets                                                                 *)
(***************************************************************************)

\* What is left of a deposit when the borrows are covered.
\* Mutant: all of it.
uncovered_all(borrows, qty) == qty

uncovered(borrows, qty) == qty -- Lesser(qty, TotalQty(borrows))

\* The covers of what is taken from each borrow, oldest first.
covered(st, borrows, taken, fx) ==
  LET after[i \in 0..Len(borrows)] ==
        IF i = 0 THEN st
        ELSE IF taken[i] = Zero THEN after[i - 1]
        ELSE on_cover(after[i - 1], borrows[i].borrow_id, taken[i], fx)
  IN  after[Len(borrows)]

repaid(bucket, qty) ==
  [bucket EXCEPT !.borrow_lots = Rest(@, qty),
                 !.lot_qty = @ ++ (qty -- uncovered(bucket.borrow_lots, qty))]

\* A deposit of qty covers the open borrows.
cover_borrows(st, ccy, borrows, qty, fx) ==
  [covered(st, borrows, Taken(borrows, qty), fx) EXCEPT !.currencies[ccy] = repaid(@, qty)]

add_lot(bucket, before, qty, fx) ==
  [bucket EXCEPT !.fifo_lots = Append(@, [qty |-> qty, fx |-> fx]),
                 !.avg_fx = ((before ** @) ++ (qty ** fx)) // (before ++ qty),
                 !.lot_qty = @ ++ qty]

\* What the borrows leave of it is a lot.
deposit_rest(st, ccy, rest, fx) ==
  IF ~Positive(rest) THEN st
  ELSE [st EXCEPT !.currencies[ccy] = add_lot(@, Greater(Zero, @.lot_qty), rest, fx)]

bucket_deposit(st, ccy, qty, fx) ==
  LET borrows == st.currencies[ccy].borrow_lots
  IN  IF ~Positive(qty) THEN st
      ELSE deposit_rest(cover_borrows(st, ccy, borrows, qty, fx), ccy,
                        uncovered(borrows, qty), fx)

lot_backed(bucket, amount) == Lesser(amount, Greater(Zero, bucket.lot_qty))

\* The lots are taken oldest first.  With a broker rate (a conversion) the
\* drain realises the FX gain of what it takes.
take_lots(bucket, amount, broker_fx, drained, basis) ==
  [bucket EXCEPT
     !.fifo_lots = Rest(@, amount),
     !.lot_qty = @ -- drained,
     !.avg_fx = IF bucket.lot_qty = drained /\ bucket.borrow_lots = <<>> THEN Zero ELSE @,
     !.gain_fifo = IF broker_fx = None THEN @ ELSE @ ++ ((drained ** broker_fx) -- basis),
     !.gain_avg = IF broker_fx = None THEN @
                  ELSE @ ++ (lot_backed(bucket, amount) ** (broker_fx -- bucket.avg_fx))]

\* What they lack is borrowed.
borrow_rest(bucket, borrowed, id) ==
  IF ~Positive(borrowed) THEN bucket
  ELSE [bucket EXCEPT !.borrow_seq = @ + 1,
                      !.borrow_lots = Append(@, [borrow_id |-> id, qty |-> borrowed]),
                      !.lot_qty = @ -- borrowed,
                      !.avg_fx = Zero]

drain_of(st, ccy, amount, broker_fx, drained, basis, borrowed, id) ==
  [st |-> [st EXCEPT !.currencies[ccy] =
             borrow_rest(take_lots(@, amount, broker_fx, drained, basis), borrowed, id)],
   lot_backed_qty |-> drained,
   lot_backed_basis |-> IF Positive(drained) THEN basis // drained ELSE None,
   borrowed_qty |-> borrowed,
   borrow_id |-> IF Positive(borrowed) THEN id ELSE None]

\* The DrainResult, with the new state in it.
bucket_drain(st, ccy, amount, broker_fx, consumer) ==
  LET bucket == st.currencies[ccy]
  IN  IF ~Positive(amount)
      THEN [st |-> st, lot_backed_qty |-> Zero, lot_backed_basis |-> None,
            borrowed_qty |-> Zero, borrow_id |-> None]
      ELSE drain_of(st, ccy, amount, broker_fx,
                    Lesser(amount, TotalQty(bucket.fifo_lots)),
                    TakenSum(bucket.fifo_lots, amount, LAMBDA lot : lot.fx),
                    Greater(Zero, amount -- TotalQty(bucket.fifo_lots)),
                    <<consumer, bucket.borrow_seq + 1>>)

\* The drain of a purchase or a conversion is entered in the registry when
\* it borrowed.
register_borrow(st, res, kind, ccy, consumer, fee, broker_fx) ==
  IF ~Positive(res.borrowed_qty) THEN st
  ELSE [st EXCEPT !.pending_borrows =
          Put(@, res.borrow_id,
              [consumer |-> consumer, consumer_kind |-> kind, from_ccy |-> ccy,
               borrowed_qty |-> res.borrowed_qty,
               lot_backed_qty |-> res.lot_backed_qty,
               lot_backed_basis |-> res.lot_backed_basis,
               weighted |-> Zero, covered_qty |-> Zero, finalized |-> FALSE,
               fee_native |-> fee, from_broker_fx |-> broker_fx])]
=============================================================================
