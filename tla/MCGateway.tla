------------------------------- MODULE MCGateway -------------------------------
(* An instance of Evaluation for TLC: loan l1 belongs to k1, l2 to         *)
(* k2; the budget is the code's.                                           *)
EXTENDS Evaluation, TLC

CONSTANTS c1, k1, k2, l1, l2

OneCase == {c1}
TwoCustomers == {k1, k2}
TwoLoans == {l1, l2}
TwoOwners == l1 :> k1 @@ l2 :> k2
Seeded == {"active"}

OneMessagePerIntent == {{i} : i \in INTENTS \ {"unclear"}} \cup {{}}
(* None, the limit and one cent more; and those of the published cases.    *)
AmountsInMessages ==
    {0, REFUND_AUTO_LIMIT_CENTS, REFUND_AUTO_LIMIT_CENTS + 1}
    \cup {published.amount : published \in build_cases}
(* What the clients make of these amounts.                                 *)
AskedAmounts ==
    LET planned == (AmountsInMessages \ {0}) \cup {5000}
    IN  planned \cup {STRIPPED_AMOUNT} \cup {a * 1000 + 1 : a \in planned}

ReportedIds == {SCRIPTED_MODEL_ID, RogueModelId}
AllProposals == TOOLS \cup {"finish", "truncated"}
=============================================================================
