------------------------------- MODULE Money -------------------------------
(***************************************************************************)
(* MoneyService and the numeric guards built on it.  Amounts are integers  *)
(* in units of the stored scale (numeric(18,4), one unit is 0.0001); a     *)
(* rate is a positive integer, units of the foreign currency for one USD.  *)
(***************************************************************************)
EXTENDS Integers

\* toUsd: amount / rate, rounded half up to the stored scale.
ToUsd(amount, rate) == (2 * amount + rate) \div (2 * rate)

\* value <= total * (1 + pct/100), the C3 guard of receipts and payments.
WithinPct(value, total, pct) == 100 * value <= total * (100 + pct)

=============================================================================
