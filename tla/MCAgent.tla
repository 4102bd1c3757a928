------------------------------- MODULE MCAgent -------------------------------
(* Instances of HarbourAgent and of the detectors for TLC.                 *)
EXTENDS Detectors, TLC

CONSTANTS c1, k1, k2, l1, l2

OneCase == {c1}
OneCustomer == {k1}
TwoCustomers == {k1, k2}
TwoLoans == {l1, l2}
SameOwner == l1 :> k1 @@ l2 :> k1
TwoOwners == l1 :> k1 @@ l2 :> k2

Seeded == {"active"}
LimitAndOver == {REFUND_AUTO_LIMIT_CENTS, REFUND_AUTO_LIMIT_CENTS + 1}
OnlyLimit == {REFUND_AUTO_LIMIT_CENTS}

(* One message per intent, and one that two rules find something in.       *)
AllMessages == {{i} : i \in INTENTS \ {"unclear"}} \cup {{}, {"fraud_or_freeze", "refund"}}
RefundMessage == {{"refund"}}

Models == {"harbour-planner-v1", "a-newer-snapshot"}
AllProposals == TOOLS \cup {"finish"}
RefundProposals == {"verify_identity", "issue_refund", "finish"}
=============================================================================
