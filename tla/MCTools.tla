------------------------------- MODULE MCTools -------------------------------
(* Instances of HarbourTools for TLC: loan l1 belongs to k1, l2 to k2.     *)
EXTENDS HarbourTools, TLC

CONSTANTS c1, c2, k1, k2, l1, l2

MCCases == {c1, c2}
MCCustomers == {k1, k2}
MCLoans == {l1, l2}
MCOwner == l1 :> k1 @@ l2 :> k2
MCOneCase == {c1}
MCNone == {}
MCOneLoan == {l1}
MCOneOwner == l1 :> k1
MCOneCustomer == {k1}

(* Below zero is rejected as zero is; one cent over the limit is over it.  *)
MCAmounts == {0, REFUND_AUTO_LIMIT_CENTS, REFUND_AUTO_LIMIT_CENTS + 1}

MoneyTools == {"verify_identity", "post_payment", "issue_refund", "apply_fee"}
PaymentTools == {"verify_identity", "post_payment"}
DisputeTools == {"verify_identity", "raise_dispute", "resolve_dispute"}
OnlyLimit == {REFUND_AUTO_LIMIT_CENTS}
Seeded == {"active"}
MoneyAndOpsTools == MoneyTools \cup
    {"get_loan", "freeze_account", "escalate_to_human", "send_customer_message"}

CaseSymmetry == Permutations(MCCases)
=============================================================================
