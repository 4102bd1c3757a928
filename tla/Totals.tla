-------------------------------- MODULE Totals --------------------------------
(***************************************************************************)
(* A loan's balance: SUM(amount_cents) of its rows, 0 of none (db.py).     *)
(***************************************************************************)
EXTENDS Integers, Sequences

(* The sums of the first amounts: of none, one, two and so on.             *)
Sums(amounts) ==
    LET sum[n \in 0 .. Len(amounts)] == IF n = 0 THEN 0 ELSE sum[n - 1] + amounts[n]
    IN  sum

Total(amounts) == Sums(amounts)[Len(amounts)]

(* What each row changes on the loan.                                      *)
Changes(rows, l) == [n \in DOMAIN rows |-> IF rows[n].loan = l THEN rows[n].amount ELSE 0]

Balance(rows, l) == Total(Changes(rows, l))
=============================================================================
