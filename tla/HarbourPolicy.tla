---------------------------- MODULE HarbourPolicy ----------------------------
(***************************************************************************)
(* The constants and pure functions of Harbour's policy: the fourteen      *)
(* tools and the gated ones (tools/__init__.py), the refund limit and the  *)
(* pinned model ids (policy_engine.py), and the classification of a        *)
(* customer's message into an intent with its approved actions             *)
(* (llm_client.py).  No state lives here.                                  *)
(***************************************************************************)
EXTENDS Integers, Sequences

-----------------------------------------------------------------------------
(* The tool set *)

READ_TOOLS == {"get_customer", "get_loan", "get_loans_for_customer",
               "get_transaction_history", "calculate_payoff"}

MONEY_TOOLS == {"post_payment", "issue_refund", "apply_fee"}

GATED_TOOLS == MONEY_TOOLS \cup {"raise_dispute", "resolve_dispute"}

UNGATED_TOOLS == READ_TOOLS \cup
    {"verify_identity", "freeze_account", "escalate_to_human", "send_customer_message"}

TOOLS == GATED_TOOLS \cup UNGATED_TOOLS

-----------------------------------------------------------------------------
(* Refunds and model identity *)

REFUND_AUTO_LIMIT_CENTS == 200000

refund_within_auto_limit(amount) == 0 < amount /\ amount <= REFUND_AUTO_LIMIT_CENTS

APPROVED_MODEL_IDS == {"harbour-planner-v1", "harbour-planner-v1-scripted"}

check_model_identity(id) == id \in APPROVED_MODEL_IDS

-----------------------------------------------------------------------------
(* Intents.  The rules are tried in order and the first whose pattern is   *)
(* found in the message wins; a message is what the rules can see of it,   *)
(* the set of rules whose pattern it contains.                             *)

INTENT_RULES == <<"fraud_or_freeze", "refund", "dispute", "payoff_quote",
                  "make_payment", "balance_inquiry">>

INTENTS == {INTENT_RULES[i] : i \in 1 .. Len(INTENT_RULES)} \cup {"unclear"}

UNIVERSAL_ACTIONS == {"get_customer", "escalate_to_human", "send_customer_message"}

RuleActions ==
    [fraud_or_freeze |-> {"freeze_account"},
     refund          |-> {"verify_identity", "get_loan", "get_loans_for_customer",
                          "get_transaction_history", "issue_refund"},
     dispute         |-> {"verify_identity", "get_loan", "get_transaction_history",
                          "raise_dispute"},
     payoff_quote    |-> {"get_loan", "calculate_payoff"},
     make_payment    |-> {"verify_identity", "get_loan", "post_payment"},
     balance_inquiry |-> {"get_loan", "get_transaction_history"},
     unclear         |-> {}]

ApprovedActions(intent) == RuleActions[intent] \cup UNIVERSAL_ACTIONS

classify_intent(found) ==
    IF \E i \in 1 .. Len(INTENT_RULES) : INTENT_RULES[i] \in found
    THEN INTENT_RULES[CHOOSE i \in 1 .. Len(INTENT_RULES) :
                        /\ INTENT_RULES[i] \in found
                        /\ \A j \in 1 .. i - 1 : INTENT_RULES[j] \notin found]
    ELSE "unclear"
=============================================================================
