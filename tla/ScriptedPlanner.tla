---------------------------- MODULE ScriptedPlanner ----------------------------
(***************************************************************************)
(* The planner Harbour runs by default, ScriptedPlannerClient              *)
(* (llm_client.py), and the arguments _with_case_context (agent.py) gives  *)
(* the tool it asks for.  It keeps no state: what it answers follows from  *)
(* the row of the case and from the steps taken so far.  The state machine *)
(* that puts it, or a faulty gateway before it, under the loop of          *)
(* HarbourAgent is GatewayRegressions.                                     *)
(***************************************************************************)
EXTENDS HarbourAgent

CONSTANTS
    MessageAmounts  \* the amounts, in cents, in messages; 0 when there is none

VARIABLES
    intake          \* the columns of cases post_case was given, never updated

ASSUME MessageAmountsAssumption == MessageAmounts \subseteq Nat
(* "none" is NULL, which is no key.                                        *)
ASSUME NullAssumption == "none" \notin Loans \cup Customers

SCRIPTED_MODEL_ID == "harbour-planner-v1-scripted"

(* Every column but the message is optional, and nothing checks that the   *)
(* loan belongs to the customer.  claim is how claimed_last4 and           *)
(* claimed_dob compare to the record of the customer.                      *)
Intakes == [customer : AnyCustomer \cup {"none"}, loan : AnyLoan \cup {"none"},
            claim : {"right", "wrong", "none"}, message : Messages, amount : MessageAmounts]

NoIntake == [customer |-> "none", loan |-> "none", claim |-> "none",
             message |-> {}, amount |-> 0]

-----------------------------------------------------------------------------
(* The planner *)

(* Mutant: every step is forgotten.                                        *)
NothingCalled(c) == {}

called(c) == {history[c][n].action : n \in {m \in DOMAIN history[c] : history[c][m].outcome = "ok"}}

(* What verify_identity returned, as its row tells it.                     *)
FoundVerified(c) ==
    \E i \in DOMAIN audit_log[c] :
        audit_log[c][i].event = "identity_verified" /\ audit_log[c][i].verified

(* Mutant: only the last step counts.                                      *)
VerifiedLast(c) ==
    /\ Len(history[c]) > 0
    /\ history[c][Len(history[c])].action = "verify_identity"
    /\ FoundVerified(c)

Verified(c) == "verify_identity" \in called(c) /\ FoundVerified(c)

(* The steps of an intent, each taken until it has succeeded.              *)
Script ==
    [unclear         |-> <<>>,
     fraud_or_freeze |-> <<"freeze_account">>,
     payoff_quote    |-> <<"get_loan", "calculate_payoff", "send_customer_message">>,
     balance_inquiry |-> <<"get_loan", "send_customer_message">>,
     refund          |-> <<"verify_identity", "issue_refund", "send_customer_message">>,
     dispute         |-> <<"verify_identity", "raise_dispute", "send_customer_message">>,
     make_payment    |-> <<"verify_identity", "post_payment", "send_customer_message">>]

LastStep(c) ==
    IF intent[c] \in {"unclear", "fraud_or_freeze"} THEN "escalate_to_human" ELSE "finish"

(* The steps of the script that have not succeeded yet.                    *)
Missing(c) == {n \in DOMAIN Script[intent[c]] : Script[intent[c]][n] \notin called(c)}

NextStep(c) ==
    IF Missing(c) = {} THEN LastStep(c)
    ELSE Script[intent[c]][CHOOSE n \in Missing(c) : \A m \in Missing(c) : n <= m]

PlannedAction(c) ==
    IF "verify_identity" \in called(c) /\ ~Verified(c) THEN "escalate_to_human" ELSE NextStep(c)

(* Mutant: the message is not looked at.                                   *)
AlwaysFiftyDollars(c) == 5000

(* The first amount of the message; none, and nothing, stand for $50.      *)
PlannedAmount(c) == IF intake[c].amount = 0 THEN 5000 ELSE intake[c].amount

(* An LLMResponse, its arguments completed from the case.                  *)
Response(id, action, loan, amount) ==
    [model_id |-> id, action |-> action, loan |-> loan, amount |-> amount]

Scripted(c) == Response(SCRIPTED_MODEL_ID, PlannedAction(c), intake[c].loan, PlannedAmount(c))

-----------------------------------------------------------------------------
(* A call with the arguments of the case *)

LoanTools == GATED_TOOLS \cup
    {"freeze_account", "get_loan", "calculate_payoff", "get_transaction_history"}

VerifyClaim(c) ==
    IF intake[c].customer = "none" \/ intake[c].claim = "none"
    THEN bad_arguments(c, "verify_identity")
    ELSE \E last4ok, dobok \in BOOLEAN :
             /\ (last4ok /\ dobok) <=> (intake[c].claim = "right")
             /\ verify_identity(c, intake[c].customer, last4ok, dobok)

(* A tool on loan l.  A dispute needs the customer too, whom the gate has  *)
(* asked for already.                                                      *)
CallOnLoan(c, tool, l, amount) ==
    \/ l = "none" /\ bad_arguments(c, tool)
    \/ l \in AnyLoan /\ require_identity_verified(c, tool, l)
    \/ l \in Loans /\ tool = "post_payment" /\ post_payment(c, l, amount)
    \/ l \in Loans /\ tool = "issue_refund" /\ issue_refund(c, l, amount)
    \/ l \in Loans /\ tool = "raise_dispute" /\ raise_dispute(c, l, intake[c].customer)
    \/ l \in AnyLoan /\ tool = "freeze_account" /\ freeze_account_read(c, l)
    \/ l \in AnyLoan /\ read_tool(c, tool, l \in Loans)

CallWith(c, tool, l, amount) ==
    \/ tool \in LoanTools /\ CallOnLoan(c, tool, l, amount)
    \/ tool = "verify_identity" /\ VerifyClaim(c)
    \/ tool = "escalate_to_human" /\ escalate_to_human(c)
    \/ tool = "send_customer_message" /\ send_customer_message(c)
=============================================================================
