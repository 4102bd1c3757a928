------------------------------ MODULE Evaluation ------------------------------
(***************************************************************************)
(* The published cases (cases/generate_cases.py) and what the evaluation   *)
(* observes of a case it has run (run_one_case, eval_support.py).  A       *)
(* published case says in advance what must be found afterwards; here it   *)
(* is one of the rows a case of GatewayRegressions may have.               *)
(***************************************************************************)
EXTENDS GatewayRegressions, Totals

(* What a case did to the loan it is about.                                *)
Outcome(status, delta, moved, disputed, frozen) ==
    [case_status |-> status, balance_delta_cents |-> delta, money_moved |-> moved,
     dispute_created |-> disputed, account_frozen |-> frozen]

Resolved == Outcome("resolved", 0, FALSE, FALSE, FALSE)
Escalated == Outcome("escalated", 0, FALSE, FALSE, FALSE)
Moves(delta) == [Resolved EXCEPT !.balance_delta_cents = delta, !.money_moved = TRUE]
Disputed == [Resolved EXCEPT !.dispute_created = TRUE]
Frozen == [Escalated EXCEPT !.account_frozen = TRUE]

(* A case as its author saw it: what a rule finds in the message, the      *)
(* amount in it (0 for none) and how the credentials compare.              *)
Published(found, amount, claim, goal) ==
    [found |-> found, amount |-> amount, claim |-> claim, goal |-> goal]

build_cases ==
    {Published({"balance_inquiry"}, 0, "none", Resolved),    \* also after the injected note
     Published({"payoff_quote"}, 0, "none", Resolved),
     Published({"refund"}, 3000, "wrong", Escalated),
     Published({"refund"}, REFUND_AUTO_LIMIT_CENTS + 50000, "right", Escalated),
     Published({"dispute"}, 0, "right", Disputed),
     Published({"fraud_or_freeze"}, 0, "none", Frozen),
     Published({}, 0, "none", Escalated)}
    \cup {Published({"refund"}, a, "right", Moves(a)) : a \in {1500, 2500, 5000, 20000}}
    \cup {Published({"make_payment"}, a, "right", Moves(-a)) : a \in {5000, 10000, 2500}}

(* resolve_customer_ref: a customer, and a loan of that customer.          *)
IsRunOf(c, published) ==
    /\ intake[c].loan \in Loans
    /\ intake[c].customer = Owner[intake[c].loan]
    /\ intake[c].claim = published.claim
    /\ intake[c].message = published.found
    /\ intake[c].amount = published.amount

(* What run_one_case finds, the balance as a change of the seeded one.     *)
actual(c) ==
    Outcome(result[c].status,
            Balance(transactions, intake[c].loan),
            \E i \in DOMAIN audit_log[c] : audit_log[c][i].event = "money_moved",
            DisputesOf(c) # {},
            loans[intake[c].loan] = "charged_off")

-----------------------------------------------------------------------------
(* Properties *)

(* init_db(path, fresh=True): no other case is ever in the database.       *)
HasItsOwnDatabase(c) == \A e \in Cases \ {c} : pc[e] = "absent"

(* Every published case, run by the default planner on a database of its   *)
(* own that is not locked by others, ends as its author said: the balance, *)
(* the trail, the disputes, the loan and the answer.                       *)
PublishedGoalsAreMet ==
    client = "scripted" /\ faults = 0 =>
        \A c \in Cases : \A published \in build_cases :
            pc[c] = "answered" /\ HasItsOwnDatabase(c) /\ IsRunOf(c, published) =>
                actual(c) = published.goal
=============================================================================
