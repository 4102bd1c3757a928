------------------------------ MODULE MoneyRows ------------------------------
(***************************************************************************)
(* The rows of transactions and of audit_log as far as balances and the    *)
(* hash chain depend on them (db.py).  No state lives here.                *)
(***************************************************************************)
EXTENDS Totals

CONSTANTS
    Cases, Loans,
    Amounts,    \* the amounts, in cents, money moves by: payments are negative
    Events,     \* the events of audit rows that report no money
    Seeded      \* the transactions of the seed

MoveOf(c, l, a) == [case |-> c, loan |-> l, amount |-> a]

(* The columns append_audit is given: texts, each a sequence of pieces.    *)
(* An event's name has no brace, a payload is a JSON object and a time is  *)
(* a number, so the text of the three tells where each piece begins.       *)
Event(e)       == [event |-> e]
Moved(l, a, b) == [event_type |-> <<Event("money_moved")>>,
                   payload_json |-> <<[loan |-> l, amount |-> a, new_balance |-> b]>>]
Noted(e)       == [event_type |-> <<Event(e)>>, payload_json |-> <<[noted |-> e]>>]
=============================================================================
