---------------------------- MODULE MCFoldKernel ----------------------------
(***************************************************************************)
(* The events of the model-checked logs.  Amounts and rates are small and  *)
(* chosen so that lots are split, borrows are covered in several steps and *)
(* by several rates, and positions are sold in part, in full and short.    *)
(***************************************************************************)
EXTENDS FoldKernel, SequencesExt

Half == <<1, 2>>

Deposit(ccy, n, fx) ==
  [type |-> "CASHFLOW", kind |-> "DEPOSIT", ccy |-> ccy, amount |-> Q(n), fx |-> fx]
Spend(kind, ccy, n) ==
  [type |-> "CASHFLOW", kind |-> kind, ccy |-> ccy, amount |-> Q(n), fx |-> One]
Trade(side, iid, ccy, qty, price, fees, rate) ==
  [type |-> "TRADE", side |-> side, iid |-> iid, ccy |-> ccy, qty |-> Q(qty),
   price |-> Q(price), fees |-> Q(fees), rate |-> rate]
Convert(from, to, from_amt, to_amt, fx, fee, fee_ccy) ==
  [type |-> "FX_CONVERSION", from |-> from, to |-> to, from_amt |-> Q(from_amt),
   to_amt |-> Q(to_amt), broker_fx |-> fx, fee |-> Q(fee), fee_ccy |-> fee_ccy]
Dividend(ccy, gross, withholding, rate, fx) ==
  [type |-> "DIVIDEND", ccy |-> ccy, gross |-> Q(gross), withholding |-> Q(withholding),
   rate |-> rate, fx |-> fx]
TransferIn(iid, qty, cost, fx, transfer_id) ==
  [type |-> "TRANSFER_IN", iid |-> iid, qty |-> Q(qty), cost |-> Q(cost), fx |-> fx,
   transfer_id |-> transfer_id]
Expiry(iid) == [type |-> "OPTION_EXPIRY", iid |-> iid]

\* Cash in two currencies, with purchases on margin.
CashEvents ==
  {Deposit("usd", 2, Q(2)), Deposit("usd", 3, Q(3)), Deposit("gbp", 4, One),
   Spend("FEE", "usd", 2),
   Convert("usd", "gbp", 3, 6, Q(2), 0, "usd"), Convert("gbp", "usd", 2, 1, One, 2, "usd"),
   Trade("buy", "msft", "usd", 1, 3, 1, None), Trade("sell", "msft", "usd", 1, 5, 1, Q(2))}

\* The id that the lots of one transfer share, which is no event's.
Batch == 9

\* A foreign and a base instrument, both settlement modes, oversell, and a batch
\* of transfers.
EquityEvents ==
  {Trade("buy", "msft", "usd", 2, 1, 1, None), Trade("buy", "msft", "usd", 1, 3, 0, Q(2)),
   Trade("sell", "msft", "usd", 1, 2, 0, None), Trade("sell", "msft", "usd", 2, 4, 1, Half),
   TransferIn("msft", 1, 2, Q(3), Batch), Deposit("usd", 3, Q(2)),
   Trade("buy", "hsba", "gbp", 2, 1, 0, None), Trade("sell", "hsba", "gbp", 1, 3, 1, None),
   Dividend("usd", 2, 1, Q(2), One)}

\* Conversions of a currency into itself, trades and withdrawals of nothing, a
\* sale whose fee exceeds its proceeds, an expiry, a transfer of one lot.
OddEvents ==
  {Deposit("usd", 2, Q(2)), Convert("usd", "usd", 3, 2, Q(2), 0, "usd"),
   Convert("usd", "gbp", 0, 2, One, 0, "usd"), Spend("WITHDRAWAL", "usd", -1),
   Trade("buy", "msft", "usd", 0, 3, 1, None), Trade("buy", "msft", "usd", 1, 3, 1, None),
   Trade("sell", "msft", "usd", 1, 2, 3, None), Expiry("msft"),
   TransferIn("msft", 1, 3, One, NoTransfer)}

Menus == {CashEvents, EquityEvents, OddEvents}
MCEvent == UNION Menus

\* A log is drawn from one of the sets only.
MCNext ==
  \E menu \in Menus : Range(log) \subseteq menu /\ \E ev \in menu : accumulate(ev)

MCSpec == Init /\ [][MCNext]_vars
=============================================================================
