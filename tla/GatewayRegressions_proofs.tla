----------------------- MODULE GatewayRegressions_proofs -----------------------
(***************************************************************************)
(* Theorems of GatewayRegressions, for any rows of cases, any loans and    *)
(* owners, and any number of cases side by side.                           *)
(***************************************************************************)
EXTENDS GatewayRegressions, HarbourAgent_proofs

-----------------------------------------------------------------------------
(* The scripts *)

LEMMA IntentValues ==
    INTENTS = {"fraud_or_freeze", "refund", "dispute", "payoff_quote",
               "make_payment", "balance_inquiry", "unclear"}
BY DEF INTENTS, INTENT_RULES

(* Every script is short, takes approved steps, and repeats none.          *)
LEMMA ScriptSteps ==
    ASSUME NEW i \in INTENTS
    PROVE  /\ Len(Script[i]) \in 0 .. 3 /\ DOMAIN Script[i] = 1 .. Len(Script[i])
           /\ \A n \in DOMAIN Script[i] :
                  /\ Script[i][n] \in ApprovedActions(i) /\ Script[i][n] \in TOOLS
                  /\ Script[i][n] \notin {"escalate_to_human", "finish", "truncated", "none"}
           /\ \A m, n \in DOMAIN Script[i] : Script[i][m] = Script[i][n] => m = n
<1>1. CASE i = "unclear"
  BY <1>1 DEF Script, ApprovedActions, RuleActions, UNIVERSAL_ACTIONS, TOOLS, GATED_TOOLS,
              UNGATED_TOOLS, READ_TOOLS, MONEY_TOOLS
<1>6. CASE i = "fraud_or_freeze"
  BY <1>6 DEF Script, ApprovedActions, RuleActions, UNIVERSAL_ACTIONS, TOOLS, GATED_TOOLS,
              UNGATED_TOOLS, READ_TOOLS, MONEY_TOOLS
<1>7. CASE i = "balance_inquiry"
  BY <1>7 DEF Script, ApprovedActions, RuleActions, UNIVERSAL_ACTIONS, TOOLS, GATED_TOOLS,
              UNGATED_TOOLS, READ_TOOLS, MONEY_TOOLS
<1>2. CASE i = "payoff_quote"
  BY <1>2 DEF Script, ApprovedActions, RuleActions, UNIVERSAL_ACTIONS, TOOLS, GATED_TOOLS,
              UNGATED_TOOLS, READ_TOOLS, MONEY_TOOLS
<1>3. CASE i = "refund"
  BY <1>3 DEF Script, ApprovedActions, RuleActions, UNIVERSAL_ACTIONS, TOOLS, GATED_TOOLS,
              UNGATED_TOOLS, READ_TOOLS, MONEY_TOOLS
<1>4. CASE i = "dispute"
  BY <1>4 DEF Script, ApprovedActions, RuleActions, UNIVERSAL_ACTIONS, TOOLS, GATED_TOOLS,
              UNGATED_TOOLS, READ_TOOLS, MONEY_TOOLS
<1>5. CASE i = "make_payment"
  BY <1>5 DEF Script, ApprovedActions, RuleActions, UNIVERSAL_ACTIONS, TOOLS, GATED_TOOLS,
              UNGATED_TOOLS, READ_TOOLS, MONEY_TOOLS
<1> QED BY <1>1, <1>2, <1>3, <1>4, <1>5, <1>6, <1>7, IntentValues

(* Among the steps that are missing one comes first.                       *)
LEMMA FirstMissing ==
    ASSUME NEW c, intent[c] \in INTENTS, Missing(c) # {}
    PROVE  \E n \in Missing(c) :
               /\ \A m \in Missing(c) : n <= m
               /\ NextStep(c) = Script[intent[c]][n]
<1> DEFINE Least(n) == \A m \in Missing(c) : n <= m
<1>1. Missing(c) \subseteq {1, 2, 3}
  BY ScriptSteps DEF Missing
<1>2. \E n \in Missing(c) : Least(n)
  BY <1>1
<1>3. (CHOOSE n \in Missing(c) : Least(n)) \in Missing(c) /\ Least(CHOOSE n \in Missing(c) : Least(n))
  BY <1>2
<1> QED BY <1>3 DEF NextStep

LEMMA PlannedActions ==
    ASSUME NEW c, intent[c] \in INTENTS
    PROVE  /\ PlannedAction(c) \in TOOLS \cup {"finish"}
           /\ PlannedAction(c) \in Approved(c) \cup {"finish"}
<1>1. NextStep(c) \in TOOLS \cup {"finish"} /\ NextStep(c) \in Approved(c) \cup {"finish"}
  <2>1. CASE Missing(c) = {}
    BY <2>1, IntentValues, NotEscalations DEF NextStep, LastStep, Approved, ApprovedActions, UNIVERSAL_ACTIONS
  <2>2. CASE Missing(c) # {}
    BY <2>2, FirstMissing, ScriptSteps DEF Missing, Approved
  <2> QED BY <2>1, <2>2
<1>2. "escalate_to_human" \in Approved(c) /\ "escalate_to_human" \in TOOLS
  BY NotEscalations DEF Approved, ApprovedActions, UNIVERSAL_ACTIONS
<1> QED BY <1>1, <1>2 DEF PlannedAction

-----------------------------------------------------------------------------
(* The answers of the clients *)

GatewayTypeOK ==
    /\ intake \in [Cases -> Intakes \cup {NoIntake}]
    /\ client \in REGRESSIONS \cup {"scripted"}
    /\ \A c \in Cases : pc[c] # "absent" => intake[c] \in Intakes

(* What has been answered follows from the row and the history of the      *)
(* case, which do not change before it is acted upon; and no answer of an  *)
(* unapproved model is acted upon.                                         *)
AnswerOK(c) ==
    pc[c] = "deciding" =>
        proposed[c] = response(c).action /\ client # "unapproved_model_identity"

(* Who was verified gave the right credentials in the row of the case, to  *)
(* a client that lets the scripted planner ask for them.                   *)
VerificationOK(v) ==
    /\ pc[v.case] # "absent"
    /\ v.verified => /\ v.customer = intake[v.case].customer
                     /\ intake[v.case].claim = "right"
                     /\ client \in {"scripted", "scrambled_tool_args"}

GatewayInv ==
    /\ GatewayTypeOK
    /\ \A c \in Cases : AnswerOK(c)
    /\ \A v \in identity_verifications : VerificationOK(v)

LEMMA ClientValues ==
    ASSUME GatewayTypeOK
    PROVE  client \in {"scripted", "stripped_system_prompt", "truncated_completions",
                       "scrambled_tool_args", "unapproved_model_identity"}
BY DEF GatewayTypeOK, REGRESSIONS

(* The fields of the answer of each client.                                *)
LEMMA ScriptedAnswer ==
    ASSUME NEW c
    PROVE  /\ Scripted(c).model_id = SCRIPTED_MODEL_ID
           /\ Scripted(c).action = PlannedAction(c)
           /\ Scripted(c).loan = intake[c].loan
           /\ Scripted(c).amount = PlannedAmount(c)
           /\ client = "scripted" => response(c) = Scripted(c)
BY DEF Scripted, Response, response

LEMMA StrippedAnswer ==
    ASSUME NEW c, client = "stripped_system_prompt"
    PROVE  /\ response(c).model_id = SCRIPTED_MODEL_ID
           /\ response(c).loan = intake[c].loan
           /\ Approved(c) \cap DANGEROUS_ACTIONS = {} => response(c) = Scripted(c)
           /\ Approved(c) \cap DANGEROUS_ACTIONS # {} =>
                  /\ response(c).action \in Approved(c) \cap DANGEROUS_ACTIONS
                  /\ response(c).amount = STRIPPED_AMOUNT
<1>1. CASE Approved(c) \cap DANGEROUS_ACTIONS = {}
  BY <1>1, ScriptedAnswer DEF response, StrippedSystemPrompt
<1>2. CASE Approved(c) \cap DANGEROUS_ACTIONS # {}
  <2> DEFINE a == CHOOSE x \in Approved(c) \cap DANGEROUS_ACTIONS : TRUE
  <2>1. a \in Approved(c) \cap DANGEROUS_ACTIONS
    BY <1>2
  <2>2. response(c) = Response(SCRIPTED_MODEL_ID, a, intake[c].loan, STRIPPED_AMOUNT)
    BY <1>2 DEF response, StrippedSystemPrompt
  <2> HIDE DEF a
  <2> QED BY <1>2, <2>1, <2>2 DEF Response
<1> QED BY <1>1, <1>2

LEMMA TruncatedAnswer ==
    ASSUME NEW c, client = "truncated_completions"
    PROVE  /\ response(c).model_id = SCRIPTED_MODEL_ID
           /\ response(c).loan = intake[c].loan
           /\ response(c).amount = PlannedAmount(c)
           /\ response(c).action = (IF PlannedAction(c) = "finish" THEN "finish" ELSE "truncated")
BY DEF response, TruncatedCompletion, Scripted, Response

LEMMA ScrambledAnswer ==
    ASSUME NEW c, client = "scrambled_tool_args"
    PROVE  /\ response(c).model_id = SCRIPTED_MODEL_ID
           /\ response(c).action = PlannedAction(c)
           /\ PlannedAction(c) \notin MONEY_TOOLS => response(c) = Scripted(c)
           /\ PlannedAction(c) \in MONEY_TOOLS =>
                  response(c).loan = UnknownLoan /\ response(c).amount = PlannedAmount(c) * 1000 + 1
BY DEF response, ScrambledArgs, Scripted, Response

LEMMA UnapprovedAnswer ==
    ASSUME NEW c, client = "unapproved_model_identity"
    PROVE  /\ response(c).model_id = RogueModelId
           /\ response(c).action = PlannedAction(c)
           /\ response(c).loan = intake[c].loan
           /\ response(c).amount = PlannedAmount(c)
BY DEF response, UnapprovedModelIdentity, Scripted, Response

LEMMA PlannedAmountTypes ==
    ASSUME NEW c, intake[c] \in Intakes
    PROVE  /\ PlannedAmount(c) \in PlannedAmounts
           /\ intake[c].loan \in AnyLoan \cup {"none"}
           /\ intake[c].message \in Messages
           /\ intake[c].customer \in AnyCustomer \cup {"none"}
BY DEF PlannedAmount, PlannedAmounts, Intakes

(* Every client answers like some planner of HarbourAgent.                 *)
LEMMA AnswerTypes ==
    ASSUME AgentTypeOK, GatewayTypeOK, NEW c \in Cases, intake[c] \in Intakes
    PROVE  /\ response(c).model_id \in ModelIds
           /\ response(c).action \in Proposals
           /\ response(c).loan \in AnyLoan \cup {"none"}
           /\ response(c).amount \in Amounts
<1>0. intent[c] \in INTENTS
  BY DEF AgentTypeOK
<1>1. /\ PlannedAction(c) \in Proposals /\ "truncated" \in Proposals /\ "finish" \in Proposals
      /\ PlannedAmount(c) \in Amounts /\ PlannedAmount(c) * 1000 + 1 \in Amounts
      /\ intake[c].loan \in AnyLoan \cup {"none"} /\ UnknownLoan \in AnyLoan
      /\ STRIPPED_AMOUNT \in Amounts
  BY <1>0, PlannedActions, PlannedAmountTypes, ActionsAssumption, ArgumentsAssumption DEF AnyLoan
<1>2. Approved(c) \subseteq Proposals
  BY ApprovedAreTools, ActionsAssumption
<1>3. CASE client = "scripted" \/ client = "unapproved_model_identity"
  BY <1>1, <1>3, ScriptedAnswer, UnapprovedAnswer, ScriptedAssumption, RogueAssumption
<1>4. CASE client = "stripped_system_prompt"
  BY <1>1, <1>2, <1>4, ScriptedAnswer, StrippedAnswer, ScriptedAssumption
<1>5. CASE client = "truncated_completions" \/ client = "scrambled_tool_args"
  BY <1>1, <1>5, ScriptedAnswer, TruncatedAnswer, ScrambledAnswer, ScriptedAssumption
<1> QED BY <1>3, <1>4, <1>5, ClientValues

-----------------------------------------------------------------------------
(* A call with the arguments of the case *)

(* The customer the gate asks for is the one of the case.                  *)
LEMMA GateOpensForCustomer ==
    ASSUME GatewayInv, NEW c \in Cases, NEW l \in Loans, GateOpen(c, l)
    PROVE  /\ intake[c].customer = Owner[l] /\ intake[c].claim = "right"
           /\ client \in {"scripted", "scrambled_tool_args"}
           /\ intake[c].customer \in Customers
<1>1. PICK v \in identity_verifications : v.case = c /\ v.customer = Owner[l] /\ v.verified
  BY DEF GateOpen, is_identity_verified
<1> QED BY <1>1, OwnerAssumption DEF GatewayInv, VerificationOK

LEMMA CallBegun ==
    ASSUME GatewayInv, NEW c \in Cases, intake[c] \in Intakes, NEW tool \in TOOLS,
           NEW l \in AnyLoan \cup {"none"}, NEW amount \in Amounts, CallWith(c, tool, l, amount)
    PROVE  BeginCall(c, tool)
<1>1. CASE tool \in LoanTools /\ CallOnLoan(c, tool, l, amount)
  <2>1. ASSUME l \in Loans, tool = "raise_dispute", raise_dispute(c, l, intake[c].customer)
        PROVE  BeginCall(c, tool)
    <3>1. intake[c].customer \in AnyCustomer
      BY <2>1, GateOpensForCustomer DEF raise_dispute, AskGated, AnyCustomer
    <3> QED BY <2>1, <3>1 DEF BeginCall
  <2>2. ASSUME l \in AnyLoan, read_tool(c, tool, l \in Loans)
        PROVE  BeginCall(c, tool)
    <3>1. (l \in Loans) \in BOOLEAN
      OBVIOUS
    <3> QED BY <2>2, <3>1 DEF BeginCall
  <2>3. CASE \/ bad_arguments(c, tool)
             \/ l \in AnyLoan /\ require_identity_verified(c, tool, l)
             \/ l \in AnyLoan /\ tool = "freeze_account" /\ freeze_account_read(c, l)
    BY <2>3 DEF BeginCall
  <2>4. CASE \/ l \in Loans /\ tool = "post_payment" /\ post_payment(c, l, amount)
             \/ l \in Loans /\ tool = "issue_refund" /\ issue_refund(c, l, amount)
    BY <2>4 DEF BeginCall
  <2> QED BY <1>1, <2>1, <2>2, <2>3, <2>4 DEF CallOnLoan
<1>2. CASE tool = "verify_identity" /\ VerifyClaim(c)
  <2>1. CASE bad_arguments(c, tool)
    BY <2>1 DEF BeginCall
  <2>2. ASSUME intake[c].customer # "none", NEW p \in BOOLEAN, NEW q \in BOOLEAN,
               verify_identity(c, intake[c].customer, p, q)
        PROVE  BeginCall(c, tool)
    <3>1. intake[c].customer \in AnyCustomer
      BY <2>2, PlannedAmountTypes
    <3> QED BY <1>2, <2>2, <3>1 DEF BeginCall
  <2> QED BY <1>2, <2>1, <2>2 DEF VerifyClaim
<1>3. CASE \/ tool = "escalate_to_human" /\ escalate_to_human(c)
           \/ tool = "send_customer_message" /\ send_customer_message(c)
  BY <1>3 DEF BeginCall
<1> QED BY <1>1, <1>2, <1>3 DEF CallWith

GatewayStep(c) ==
    /\ ReceiveRow(c) \/ (HandleRow(c) /\ UNCHANGED intake)
    /\ UNCHANGED client

(* The four steps that depend on the client or on the row, and the others. *)
LoopGoesOn(c) ==
    \/ RefuseAction(c) \/ Finish(c) \/ ToolStep(c) \/ ToolReturns(c) \/ ExceedBudget(c)
    \/ Escalate(c) \/ EscalateReturns(c) \/ Complete(c) \/ ToolLocked(c) \/ CaseFails(c)

LEMMA GatewaySteps ==
    ASSUME NEW c, GatewayStep(c)
    PROVE  \/ ReceiveRow(c)
           \/ /\ UNCHANGED intake
              /\ \/ StartCase(c, intake[c].message)
                 \/ Plan(c)
                 \/ RejectModel(c, response(c).model_id)
                 \/ CallPlanned(c)
                 \/ LoopGoesOn(c)
BY DEF GatewayStep, HandleRow, LoopGoesOn

LEMMA GatewayStepIsAgents ==
    ASSUME AgentTypeOK, GatewayInv, NEW c \in Cases, GatewayStep(c)
    PROVE  AgentStep(c)
<1>1. CASE ReceiveRow(c)
  BY <1>1 DEF ReceiveRow, AgentStep
<1>2. CASE LoopGoesOn(c)
  BY <1>2 DEF LoopGoesOn, AgentStep, HandleCase
<1>3. ASSUME pc[c] # "absent"
      PROVE  /\ intake[c] \in Intakes /\ intake[c].message \in Messages
             /\ response(c).model_id \in ModelIds /\ response(c).action \in Proposals
             /\ response(c).loan \in AnyLoan \cup {"none"} /\ response(c).amount \in Amounts
  <2>1. intake[c] \in Intakes
    BY <1>3 DEF GatewayInv, GatewayTypeOK
  <2> QED BY <2>1, AnswerTypes, PlannedAmountTypes DEF GatewayInv
<1>4. CASE StartCase(c, intake[c].message)
  BY <1>3, <1>4 DEF StartCase, At, AgentStep, HandleCase
<1>5. CASE Plan(c)
  BY <1>3, <1>5 DEF Plan, PlanStep, ModelCall, At, AgentStep, HandleCase
<1>6. CASE RejectModel(c, response(c).model_id)
  BY <1>3, <1>6 DEF RejectModel, ModelCall, At, AgentStep, HandleCase
<1>7. CASE CallPlanned(c)
  <2>1. pc[c] = "deciding" /\ proposed[c] \in Approved(c) /\ proposed[c] \in TOOLS
    BY <1>7, ApprovedAreTools DEF CallPlanned, At
  <2>2. BeginCall(c, proposed[c])
    BY <1>3, <1>7, <2>1, CallBegun DEF CallPlanned
  <2>3. CallTool(c)
    BY <1>7, <2>2 DEF CallPlanned, CallTool
  <2> QED BY <2>3 DEF AgentStep, HandleCase
<1> QED BY <1>1, <1>2, <1>4, <1>5, <1>6, <1>7, GatewaySteps

-----------------------------------------------------------------------------
(* The invariant is kept *)

(* Which tools write to which tables.                                      *)
LEMMA CallEffects ==
    ASSUME NEW c, NEW tool, NEW l, NEW amount, CallWith(c, tool, l, amount)
    PROVE  /\ tool # "verify_identity" => UNCHANGED identity_verifications
           /\ tool # "raise_dispute" => UNCHANGED disputes
           /\ tool \notin {"post_payment", "issue_refund"} => UNCHANGED transactions
<1>1. CASE bad_arguments(c, tool)
  BY <1>1 DEF bad_arguments, Raised, db
<1>2. CASE tool \in LoanTools /\ CallOnLoan(c, tool, l, amount)
  <2>1. CASE require_identity_verified(c, tool, l)
    BY <2>1 DEF require_identity_verified, Denied, db
  <2>2. CASE tool = "post_payment" /\ post_payment(c, l, amount)
    BY <2>2 DEF post_payment, Raised, MoveMoney, db
  <2>3. CASE tool = "issue_refund" /\ issue_refund(c, l, amount)
    BY <2>3 DEF issue_refund, Raised, Denied, MoveMoney, db
  <2>4. CASE tool = "raise_dispute" /\ raise_dispute(c, l, intake[c].customer)
    BY <2>4 DEF raise_dispute, Raised, db
  <2>5. CASE tool = "freeze_account" /\ freeze_account_read(c, l)
    BY <2>5 DEF freeze_account_read, Raised, db
  <2>6. CASE read_tool(c, tool, l \in Loans)
    BY <2>6 DEF read_tool, Logged, Raised, db
  <2> QED BY <1>1, <1>2, <2>1, <2>2, <2>3, <2>4, <2>5, <2>6 DEF CallOnLoan
<1>3. CASE tool = "verify_identity" /\ VerifyClaim(c)
  <2>1. ASSUME NEW p \in BOOLEAN, NEW q \in BOOLEAN, verify_identity(c, intake[c].customer, p, q)
        PROVE  UNCHANGED <<disputes, transactions>>
    BY <2>1 DEF verify_identity, Raised, db
  <2> QED BY <1>1, <1>3, <2>1 DEF VerifyClaim
<1>4. CASE \/ tool = "escalate_to_human" /\ escalate_to_human(c)
           \/ tool = "send_customer_message" /\ send_customer_message(c)
  BY <1>4 DEF escalate_to_human, send_customer_message, Logged, db
<1> QED BY <1>2, <1>3, <1>4 DEF CallWith

LEMMA OtherStepsEffects ==
    ASSUME NEW c, \/ ReceiveRow(c) \/ StartCase(c, intake[c].message) \/ Plan(c)
                  \/ RejectModel(c, response(c).model_id) \/ LoopGoesOn(c)
    PROVE  UNCHANGED <<identity_verifications, transactions>>
<1>1. CASE \/ ReceiveRow(c) \/ StartCase(c, intake[c].message) \/ Plan(c)
           \/ RejectModel(c, response(c).model_id)
  BY <1>1 DEF ReceiveRow, ReceiveCase, OpenCase, StartCase, Plan, PlanStep, RejectModel, CallerRow, db, vars
<1>2. CASE \/ RefuseAction(c) \/ Finish(c) \/ ToolReturns(c) \/ ExceedBudget(c)
           \/ EscalateReturns(c)
  BY <1>2 DEF RefuseAction, CallerRow, Finish, ToolReturns, ExceedBudget, EscalateReturns,
              SessionEnds, db, vars
<1>3. CASE Escalate(c) \/ Complete(c) \/ ToolLocked(c) \/ CaseFails(c)
  BY <1>3 DEF Escalate, escalate_to_human, Complete, CompleteCase, ToolLocked, DatabaseLocked,
              Raised, CaseFails, SessionEnds, db
<1>4. CASE ToolStep(c)
  BY <1>4 DEF ToolStep, ContinueCall, resolve_dispute_update, freeze_account_update, LogCall, db
<1> QED BY <1>1, <1>2, <1>3, <1>4 DEF LoopGoesOn

(* Only ReceiveCase takes a case out of "absent".                          *)
LEMMA CaseComes ==
    ASSUME AgentTypeOK, NEW c \in Cases, LoopOK(c), AgentStep(c)
    PROVE  pc'[c] # "absent" /\ (pc[c] = "absent" => ReceiveCase(c))
<1>0. LoopTypes
  BY DEF AgentTypeOK, LoopTypes
<1>1. CASE ReceiveCase(c) \/ \E m \in Messages : StartCase(c, m)
  BY <1>0, <1>1 DEF ReceiveCase, StartCase, At, Goto, LoopTypes
<1>2. CASE ToolStep(c)
  <2>1. call[c].pc \in {"resolving", "freezing", "logging"} /\ pc' = pc
    BY <1>2 DEF ToolStep, ContinueCall, resolve_dispute_update, freeze_account_update, LogCall,
                Continue, agentVars
  <2> QED BY <2>1 DEF LoopOK
<1>3. CASE CaseFails(c)
  BY <1>0, <1>3 DEF CaseFails, Goto, LoopTypes
<1>4. CASE \/ \E id \in ModelIds, a \in Proposals : PlanStep(c, id, a)
           \/ \E id \in ModelIds : RejectModel(c, id)
           \/ RefuseAction(c) \/ Finish(c) \/ CallTool(c) \/ ToolReturns(c) \/ ExceedBudget(c)
           \/ Escalate(c) \/ EscalateReturns(c) \/ Complete(c) \/ ToolLocked(c)
  <2>1. pc[c] \notin {"absent", "received"}
    BY <1>4 DEF PlanStep, RejectModel, ModelCall, RefuseAction, Finish, CallTool, ToolReturns,
                ExceedBudget, Escalate, EscalateReturns, Complete, ToolLocked, At
  <2> QED BY <2>1, OnlyStartsOnce
<1> QED BY <1>1, <1>2, <1>3, <1>4 DEF AgentStep, HandleCase

LEMMA SameAnswer ==
    ASSUME NEW c, history'[c] = history[c], intent'[c] = intent[c], audit_log'[c] = audit_log[c],
           intake'[c] = intake[c], UNCHANGED client
    PROVE  response(c)' = response(c)
<1>1. called(c)' = called(c) /\ FoundVerified(c)' = FoundVerified(c)
  BY DEF called, FoundVerified
<1>2. PlannedAction(c)' = PlannedAction(c)
  BY <1>1 DEF PlannedAction, Verified, NextStep, Missing, LastStep
<1>3. Scripted(c)' = Scripted(c) /\ Approved(c)' = Approved(c)
  BY <1>2 DEF Scripted, Response, PlannedAmount, Approved
<1> QED BY <1>2, <1>3 DEF response, StrippedSystemPrompt, TruncatedCompletion, ScrambledArgs,
                          UnapprovedModelIdentity, Response

(* The clients that come to ask for an identity check.                     *)
LEMMA WhoVerifies ==
    ASSUME GatewayTypeOK, NEW c, intent[c] \in INTENTS, response(c).action = "verify_identity",
           client # "unapproved_model_identity"
    PROVE  client \in {"scripted", "scrambled_tool_args"}
<1>1. CASE client = "stripped_system_prompt"
  <2>1. "verify_identity" \notin DANGEROUS_ACTIONS
    BY DEF DANGEROUS_ACTIONS, MONEY_TOOLS
  <2>2. Approved(c) \cap DANGEROUS_ACTIONS = {} /\ PlannedAction(c) = "verify_identity"
    BY <1>1, <2>1, StrippedAnswer, ScriptedAnswer
  <2>3. "verify_identity" \in Approved(c)
    BY <2>2, PlannedActions
  <2>4. intent[c] \in {"refund", "dispute", "make_payment"}
    BY <2>3, IntentValues DEF Approved, ApprovedActions, RuleActions, UNIVERSAL_ACTIONS
  <2>5. Approved(c) \cap {"issue_refund", "raise_dispute", "post_payment"} # {}
    BY <2>4 DEF Approved, ApprovedActions, RuleActions
  <2> QED BY <2>2, <2>5 DEF DANGEROUS_ACTIONS, MONEY_TOOLS
<1>2. CASE client = "truncated_completions"
  BY <1>2, TruncatedAnswer
<1> QED BY <1>1, <1>2, ClientValues

LEMMA HandledCases ==
    ASSUME NEW c \in Cases, LoopOK(c), HandleRow(c)
    PROVE  pc[c] # "absent"
<1>1. CASE ToolStep(c)
  <2>1. call[c].pc \in {"resolving", "freezing", "logging"}
    BY <1>1 DEF ToolStep, ContinueCall, resolve_dispute_update, freeze_account_update, LogCall, Continue
  <2> QED BY <2>1 DEF LoopOK
<1>2. CASE ~ToolStep(c)
  BY <1>2 DEF HandleRow, StartCase, Plan, PlanStep, RejectModel, ModelCall, RefuseAction, Finish,
              CallPlanned, ToolReturns, ExceedBudget, Escalate, EscalateReturns, Complete,
              ToolLocked, CaseFails, At
<1> QED BY <1>1, <1>2

LEMMA GatewayTypesStep ==
    ASSUME AgentTypeOK, LoopInv, GatewayInv, NEW c \in Cases, GatewayStep(c)
    PROVE  /\ GatewayTypeOK'
           /\ \A e \in Cases : pc[e] # "absent" => pc'[e] # "absent" /\ intake'[e] = intake[e]
<1>1. AgentStep(c) /\ LoopOK(c)
  BY GatewayStepIsAgents DEF LoopInv
<1>2. \A e \in Cases : pc[e] # "absent" => pc'[e] # "absent"
  BY <1>1, CaseComes, OthersStay
<1>3. CASE ReceiveRow(c)
  <2>1. PICK row \in Intakes : intake' = [intake EXCEPT ![c] = row]
    BY <1>3 DEF ReceiveRow
  <2>2. pc[c] = "absent" /\ \A e \in Cases \ {c} : pc'[e] = pc[e]
    BY <1>1, <1>3, OthersStay DEF ReceiveRow, ReceiveCase, At
  <2> QED BY <1>2, <2>1, <2>2 DEF GatewayStep, GatewayInv, GatewayTypeOK
<1>4. CASE HandleRow(c) /\ UNCHANGED intake
  <2>1. pc[c] # "absent" /\ \A e \in Cases \ {c} : pc'[e] = pc[e]
    BY <1>1, <1>4, HandledCases, OthersStay
  <2> QED BY <1>2, <1>4, <2>1 DEF GatewayStep, GatewayInv, GatewayTypeOK
<1> QED BY <1>3, <1>4 DEF GatewayStep

LEMMA AnswerStep ==
    ASSUME AgentTypeOK, LoopInv, GatewayInv, NEW c \in Cases, GatewayStep(c), NEW e \in Cases
    PROVE  AnswerOK(e)'
<1>0. LoopTypes
  BY DEF AgentTypeOK, LoopTypes
<1>1. AgentStep(c) /\ LoopOK(c) /\ UNCHANGED client
  BY GatewayStepIsAgents DEF LoopInv, GatewayStep
<1>2. CASE e # c
  <2>1. /\ pc'[e] = pc[e] /\ intent'[e] = intent[e] /\ proposed'[e] = proposed[e]
        /\ history'[e] = history[e] /\ audit_log'[e] = audit_log[e]
    BY <1>1, <1>2, OthersStay
  <2>2. pc[e] # "absent" => intake'[e] = intake[e]
    BY GatewayTypesStep
  <2>3. ASSUME pc[e] = "deciding"
        PROVE  response(e)' = response(e)
    BY <1>1, <2>1, <2>2, <2>3, SameAnswer
  <2> QED BY <1>1, <2>1, <2>3 DEF AnswerOK, GatewayInv
<1>3. CASE e = c /\ Plan(c)
  <2>1. /\ pc'[c] = "deciding" /\ proposed'[c] = response(c).action
        /\ check_model_identity(response(c).model_id)
        /\ UNCHANGED <<intent, history, audit_log>>
    BY <1>0, <1>3 DEF Plan, PlanStep, Goto, vars, LoopTypes
  <2>2. client # "unapproved_model_identity"
    BY <2>1, UnapprovedAnswer, RogueAssumption DEF check_model_identity
  <2>3. UNCHANGED intake
    BY <1>1, <1>3, GatewayTypesStep DEF Plan, PlanStep, ModelCall, At, GatewayStep, ReceiveRow, ReceiveCase
  <2>4. response(c)' = response(c)
    BY <1>1, <2>1, <2>3, SameAnswer
  <2> QED BY <1>1, <1>3, <2>1, <2>2, <2>4 DEF AnswerOK
<1>4. CASE e = c /\ ~Plan(c)
  <2>1. pc'[c] # "deciding"
    <3>1. CASE ToolStep(c)
      <4>1. call[c].pc \in {"resolving", "freezing", "logging"} /\ pc' = pc
        BY <3>1 DEF ToolStep, ContinueCall, resolve_dispute_update, freeze_account_update, LogCall,
                    Continue, agentVars
      <4> QED BY <1>1, <4>1 DEF LoopOK
    <3>2. CASE \/ RefuseAction(c) \/ Finish(c) \/ ToolReturns(c) \/ ExceedBudget(c)
               \/ Escalate(c) \/ EscalateReturns(c) \/ Complete(c)
      BY <1>0, <3>2 DEF RefuseAction, Finish, ToolReturns, AfterRefusal, AfterSuccess, ExceedBudget,
                        Escalate, EscalateReturns, Complete, StopWith, Goto, LoopTypes
    <3>3. CASE \/ ReceiveRow(c) \/ StartCase(c, intake[c].message) \/ CallPlanned(c)
               \/ RejectModel(c, response(c).model_id) \/ CaseFails(c)
      BY <1>0, <3>3 DEF ReceiveRow, ReceiveCase, StartCase, CallPlanned, RejectModel, CaseFails,
                        StopWith, Goto, LoopTypes
    <3>4. CASE ToolLocked(c)
      BY <1>0, <3>4 DEF ToolLocked, At, Goto, LoopTypes
    <3> QED BY <1>4, <3>1, <3>2, <3>3, <3>4, GatewaySteps DEF LoopGoesOn
  <2> QED BY <1>4, <2>1 DEF AnswerOK
<1> QED BY <1>2, <1>3, <1>4

LEMMA VerificationStep ==
    ASSUME AgentTypeOK, LoopInv, GatewayInv, NEW c \in Cases, GatewayStep(c),
           NEW ACTION v, v \in identity_verifications'
    PROVE  /\ pc'[v.case] # "absent"
           /\ v.verified => /\ v.customer = intake'[v.case].customer
                            /\ intake'[v.case].claim = "right"
                            /\ client' \in {"scripted", "scrambled_tool_args"}
<1>0. UNCHANGED client /\ intent[c] \in INTENTS
  BY DEF GatewayStep, AgentTypeOK
<1>1. CASE v \in identity_verifications
  <2>1. v.case \in Cases
    BY <1>1 DEF AgentTypeOK, TypeOK, Verifications
  <2> QED BY <1>0, <1>1, <2>1, GatewayTypesStep DEF GatewayInv, VerificationOK
<1>2. CASE v \notin identity_verifications
  <2>1. CallPlanned(c) /\ UNCHANGED intake
    BY <1>2, GatewaySteps, OtherStepsEffects
  <2>2. /\ pc[c] = "deciding" /\ proposed[c] = response(c).action
        /\ client # "unapproved_model_identity"
        /\ CallWith(c, proposed[c], response(c).loan, response(c).amount)
    BY <2>1 DEF CallPlanned, At, GatewayInv, AnswerOK
  <2>3. proposed[c] = "verify_identity"
    BY <1>2, <2>2, CallEffects
  <2>4. client \in {"scripted", "scrambled_tool_args"}
    BY <1>0, <2>2, <2>3, WhoVerifies DEF GatewayInv
  <2>5. VerifyClaim(c)
    BY <2>2, <2>3 DEF CallWith, LoanTools, GATED_TOOLS, MONEY_TOOLS
  <2>6. PICK p \in BOOLEAN, q \in BOOLEAN :
            /\ (p /\ q) <=> intake[c].claim = "right"
            /\ verify_identity(c, intake[c].customer, p, q)
    BY <1>2, <2>5 DEF VerifyClaim, bad_arguments, Raised, db
  <2>7. v = [case |-> c, customer |-> intake[c].customer, verified |-> p /\ q]
    BY <1>2, <2>6 DEF verify_identity, Raised, db
  <2>8. v.case = c /\ v.customer = intake[c].customer /\ (v.verified => intake[c].claim = "right")
    BY <2>6, <2>7
  <2>9. pc'[c] # "absent"
    BY <2>2, GatewayTypesStep
  <2> QED BY <1>0, <2>1, <2>4, <2>8, <2>9
<1> QED BY <1>1, <1>2

LEMMA GatewayInvStep ==
    ASSUME AgentTypeOK, LoopInv, GatewayInv, NEW c \in Cases, GatewayStep(c)
    PROVE  GatewayInv'
BY GatewayTypesStep, AnswerStep, VerificationStep DEF GatewayInv, VerificationOK

LEMMA GatewayInitInv == GatewayInit => AgentTypeOK /\ LoopInv /\ GatewayInv
<1> SUFFICES ASSUME GatewayInit PROVE AgentTypeOK /\ LoopInv /\ GatewayInv
  OBVIOUS
<1>1. AgentTypeOK /\ LoopInv
  BY AgentInitInv DEF GatewayInit
<1>2. GatewayTypeOK
  BY DEF GatewayInit, AgentInit, GatewayTypeOK
<1>3. GatewayInv
  BY <1>2 DEF GatewayInit, AgentInit, Init, GatewayInv, AnswerOK
<1> QED BY <1>1, <1>3

LEMMA GatewayStutter ==
    ASSUME GatewayInv, UNCHANGED everyVar
    PROVE  GatewayInv'
<1>1. UNCHANGED <<pc, proposed, history, intent, audit_log, intake, client, identity_verifications>>
  BY DEF everyVar, allVars, vars, agentVars
<1>2. \A c \in Cases : response(c)' = response(c)
  BY <1>1, SameAnswer
<1> QED BY <1>1, <1>2 DEF GatewayInv, GatewayTypeOK, AnswerOK, VerificationOK

LEMMA GatewayInvIsInvariant ==
    AgentTypeOK /\ LoopInv /\ GatewayInv /\ [GatewayNext]_everyVar =>
        [AgentNext]_allVars /\ (AgentTypeOK /\ LoopInv /\ GatewayInv)'
<1> SUFFICES ASSUME AgentTypeOK, LoopInv, GatewayInv, [GatewayNext]_everyVar
             PROVE  [AgentNext]_allVars /\ AgentTypeOK' /\ LoopInv' /\ GatewayInv'
  OBVIOUS
<1>1. [AgentNext]_allVars /\ GatewayInv'
  <2>1. CASE UNCHANGED everyVar
    BY <2>1, GatewayStutter DEF everyVar
  <2>2. ASSUME NEW c \in Cases, GatewayStep(c)
        PROVE  AgentNext /\ GatewayInv'
    BY <2>2, GatewayStepIsAgents, GatewayInvStep DEF AgentNext, AgentStep
  <2> QED BY <2>1, <2>2 DEF GatewayNext, GatewayStep
<1> QED BY <1>1, AgentStepInv

(* The default planner and the four faulty gateways are planners of        *)
(* HarbourAgent, whatever the rows of the cases: what is proved of the     *)
(* loop with any planner is proved of it with these.                       *)
THEOREM GatewayImplementsAgent == GatewaySpec => ImplementsAgent
<1>1. GatewayInit => AgentInit
  BY DEF GatewayInit
<1> QED BY <1>1, GatewayInitInv, GatewayInvIsInvariant, PTL DEF GatewaySpec, ImplementsAgent, AgentSpec

-----------------------------------------------------------------------------
(* No fault of the gateway moves money *)

(* What is known of a move, once it is made.                               *)
MoveOK(move) ==
    /\ pc[move.case] # "absent"
    /\ client = "scripted"
    /\ intake[move.case].claim = "right"
    /\ intake[move.case].customer = Owner[intake[move.case].loan]
    /\ move.loan = intake[move.case].loan
    /\ is_identity_verified(move.case, Owner[move.loan])
    /\ move.amount \in {AskedBy(intake[move.case]), -AskedBy(intake[move.case])}

MovesOK == \A n \in DOMAIN transactions : MoveOK(transactions[n])

MoveRow(c, l, type, amount) == [loan |-> l, case |-> c, type |-> type, amount |-> amount]

LEMMA MoneyCallMoves ==
    ASSUME NEW c, NEW tool \in {"post_payment", "issue_refund"}, NEW l, NEW amount,
           CallWith(c, tool, l, amount), transactions' # transactions
    PROVE  /\ l \in Loans /\ GateOpen(c, l)
           /\ \E type \in {"payment", "refund"}, a \in {amount, -amount} :
                  transactions' = Append(transactions, MoveRow(c, l, type, a))
<1>1. CallOnLoan(c, tool, l, amount)
  BY DEF CallWith
<1>2. ~bad_arguments(c, tool) /\ ~require_identity_verified(c, tool, l) /\ ~read_tool(c, tool, l \in Loans)
  BY DEF bad_arguments, require_identity_verified, Denied, Raised, read_tool, Logged, db
<1>3. CASE l \in Loans /\ tool = "post_payment" /\ post_payment(c, l, amount)
  BY <1>3 DEF post_payment, AskGated, Raised, MoveMoney, MoveRow, db
<1>4. CASE l \in Loans /\ tool = "issue_refund" /\ issue_refund(c, l, amount)
  BY <1>4 DEF issue_refund, AskGated, Raised, Denied, MoveMoney, MoveRow, db
<1> QED BY <1>1, <1>2, <1>3, <1>4 DEF CallOnLoan

(* Only the default planner moves money, and it moves what was asked.      *)
LEMMA WhoMoves ==
    ASSUME AgentTypeOK, GatewayInv, NEW c \in Cases, GatewayStep(c), transactions' # transactions
    PROVE  /\ CallPlanned(c) /\ UNCHANGED intake
           /\ client = "scripted" /\ proposed[c] \in {"post_payment", "issue_refund"}
           /\ intake[c].claim = "right"
           /\ intake[c].loan \in Loans /\ intake[c].customer = Owner[intake[c].loan]
           /\ is_identity_verified(c, Owner[intake[c].loan])
           /\ \E type \in {"payment", "refund"}, a \in {PlannedAmount(c), -PlannedAmount(c)} :
                  transactions' = Append(transactions, MoveRow(c, intake[c].loan, type, a))
<1>1. CallPlanned(c) /\ UNCHANGED intake
  BY GatewaySteps, OtherStepsEffects
<1>2. /\ proposed[c] = response(c).action
      /\ CallWith(c, proposed[c], response(c).loan, response(c).amount)
  BY <1>1 DEF CallPlanned, At, GatewayInv, AnswerOK
<1>3. proposed[c] \in {"post_payment", "issue_refund"} /\ proposed[c] \in MONEY_TOOLS
  BY <1>2, CallEffects DEF MONEY_TOOLS
<1>4. /\ response(c).loan \in Loans /\ GateOpen(c, response(c).loan)
      /\ \E type \in {"payment", "refund"}, a \in {response(c).amount, -response(c).amount} :
             transactions' = Append(transactions, MoveRow(c, response(c).loan, type, a))
  BY <1>2, <1>3, MoneyCallMoves
<1>5. /\ client \in {"scripted", "scrambled_tool_args"}
      /\ intake[c].customer = Owner[response(c).loan] /\ intake[c].claim = "right"
  BY <1>4, GateOpensForCustomer
<1>6. client = "scripted"
  BY <1>2, <1>3, <1>4, <1>5, ScrambledAnswer, UnknownAssumption
<1>7. response(c).loan = intake[c].loan /\ response(c).amount = PlannedAmount(c)
  BY <1>6, ScriptedAnswer
<1>8. is_identity_verified(c, Owner[response(c).loan])
  BY <1>4 DEF GateOpen
<1> QED BY <1>1, <1>3, <1>4, <1>5, <1>6, <1>7, <1>8

(* Verifications are never taken back.                                     *)
LEMMA VerifiedStays ==
    ASSUME AgentTypeOK, LoopInv, GatewayInv, NEW c \in Cases, GatewayStep(c)
    PROVE  identity_verifications \subseteq identity_verifications'
<1>1. Step(c) \/ UNCHANGED vars
  BY GatewayStepIsAgents, LoopUsesTools DEF LoopInv
<1>2. CASE Step(c)
  BY <1>2, StepEffect DEF AgentTypeOK, Effect, KeepsAccounts, VerifiesCustomer, MovesMoney,
                          RaisesDispute, SettlesDispute, FreezesLoan
<1> QED BY <1>1, <1>2 DEF vars

LEMMA MovesStep ==
    ASSUME AgentTypeOK, LoopInv, GatewayInv, MovesOK, NEW c \in Cases, GatewayStep(c)
    PROVE  MovesOK'
<1>0. UNCHANGED client /\ transactions \in Seq(Transactions)
  BY DEF GatewayStep, AgentTypeOK, TypeOK
<1> DEFINE Fine(move) ==
        /\ pc'[move.case] # "absent"
        /\ client' = "scripted"
        /\ intake'[move.case].claim = "right"
        /\ intake'[move.case].customer = Owner[intake'[move.case].loan]
        /\ move.loan = intake'[move.case].loan
        /\ \E v \in identity_verifications' :
               v.case = move.case /\ v.customer = Owner[move.loan] /\ v.verified
        /\ move.amount \in {AskedBy(intake'[move.case]), -AskedBy(intake'[move.case])}
<1>1. ASSUME NEW n \in DOMAIN transactions
      PROVE  Fine(transactions[n])
  <2>1. transactions[n].case \in Cases
    <3>1. transactions[n] \in Transactions
      BY <1>0
    <3> QED BY <3>1 DEF Transactions
  <2>2. MoveOK(transactions[n])
    BY DEF MovesOK
  <2>3. pc'[transactions[n].case] # "absent" /\ intake'[transactions[n].case] = intake[transactions[n].case]
    BY <2>1, <2>2, GatewayTypesStep DEF MoveOK
  <2>4. \E v \in identity_verifications' :
            /\ v.case = transactions[n].case /\ v.customer = Owner[transactions[n].loan]
            /\ v.verified
    BY <2>2, VerifiedStays DEF MoveOK, is_identity_verified
  <2> QED BY <1>0, <2>2, <2>3, <2>4 DEF MoveOK
<1>2. CASE UNCHANGED transactions
  BY <1>1, <1>2 DEF MovesOK, MoveOK, is_identity_verified
<1>3. CASE transactions' # transactions
  <2>1. /\ CallPlanned(c) /\ UNCHANGED intake
        /\ client = "scripted"
        /\ intake[c].claim = "right"
        /\ intake[c].loan \in Loans /\ intake[c].customer = Owner[intake[c].loan]
        /\ \E v \in identity_verifications' :
               v.case = c /\ v.customer = Owner[intake[c].loan] /\ v.verified
    BY <1>3, WhoMoves, VerifiedStays DEF is_identity_verified
  <2>2. PICK type \in {"payment", "refund"}, a \in {PlannedAmount(c), -PlannedAmount(c)} :
            transactions' = Append(transactions, MoveRow(c, intake[c].loan, type, a))
    BY <1>3, WhoMoves
  <2> DEFINE row == MoveRow(c, intake[c].loan, type, a)
  <2>3. row.case = c /\ row.loan = intake[c].loan /\ row.amount = a
    BY DEF MoveRow
  <2>4. pc'[c] # "absent"
    BY <2>1, GatewayTypesStep DEF CallPlanned, At
  <2>5. PlannedAmount(c) = AskedBy(intake[c])
    BY DEF PlannedAmount, AskedBy
  <2> HIDE DEF row
  <2>6. Fine(row)
    BY <1>0, <2>1, <2>2, <2>3, <2>4, <2>5
  <2>7. \A n \in DOMAIN transactions' :
            transactions'[n] = row \/ (n \in DOMAIN transactions /\ transactions'[n] = transactions[n])
    BY <1>0, <2>2, AppendProperties DEF row
  <2> HIDE DEF Fine
  <2>8. \A n \in DOMAIN transactions' : Fine(transactions'[n])
    BY <1>1, <2>6, <2>7
  <2> USE DEF Fine
  <2> QED BY <2>8 DEF MovesOK, MoveOK, is_identity_verified
<1> QED BY <1>2, <1>3

LEMMA MovesInvariant ==
    AgentTypeOK /\ LoopInv /\ GatewayInv /\ MovesOK /\ [GatewayNext]_everyVar => MovesOK'
<1> SUFFICES ASSUME AgentTypeOK, LoopInv, GatewayInv, MovesOK, [GatewayNext]_everyVar
             PROVE  MovesOK'
  OBVIOUS
<1>1. CASE UNCHANGED everyVar
  BY <1>1 DEF everyVar, allVars, vars, agentVars, MovesOK, MoveOK, is_identity_verified
<1> QED BY <1>1, MovesStep DEF GatewayNext, GatewayStep

(* No fault of the gateway moves money; and what the default planner moves *)
(* is the amount of the message, on the loan of the case, for its owner    *)
(* with the right credentials: whatever the rows, the loans, the owners    *)
(* and the failures, and with any number of cases side by side.            *)
THEOREM GatewayMovesNothingElse == GatewaySpec => []GatewayFailsSafe
<1>1. GatewayInit => MovesOK
  BY DEF GatewayInit, AgentInit, Init, MovesOK
<1>2. MovesOK => GatewayFailsSafe
  BY DEF MovesOK, MoveOK, GatewayFailsSafe, PlannedAmount, AskedBy
<1> QED BY <1>1, <1>2, MovesInvariant, GatewayInitInv, GatewayInvIsInvariant, PTL DEF GatewaySpec

-----------------------------------------------------------------------------
(* The planner follows its script *)

(* Cases in which the answers follow the script: those of every client but *)
(* the stripped one, and its own where no dangerous action is approved.    *)
Straight(c) == client # "stripped_system_prompt" \/ Approved(c) \cap DANGEROUS_ACTIONS = {}

Steps(c) == Script[intent[c]]
VerifiesFirst(c) == Len(Steps(c)) > 0 /\ Steps(c)[1] = "verify_identity"

(* The steps taken are the first ones of the script, each successful, and  *)
(* none follows an identity check that found the customer not verified.    *)
FollowsScript(c) ==
    /\ Len(history[c]) <= Len(Steps(c))
    /\ \A n \in DOMAIN history[c] :
           history[c][n].action = Steps(c)[n] /\ history[c][n].outcome = "ok"
    /\ Len(history[c]) > 1 /\ VerifiesFirst(c) => FoundVerified(c)

(* The planner takes the next step of its script,                          *)
TakesStep(c, action) ==
    /\ Len(history[c]) < Len(Steps(c))
    /\ action = Steps(c)[Len(history[c]) + 1]
    /\ Len(history[c]) > 0 /\ VerifiesFirst(c) => FoundVerified(c)

(* gives the case to a human, having at most frozen an account or checked  *)
(* an identity,                                                            *)
HandsOver(c, action) ==
    /\ action = "escalate_to_human"
    /\ \/ intent[c] \in {"unclear", "fraud_or_freeze"}
       \/ Len(history[c]) = 1 /\ VerifiesFirst(c)

(* or is done.                                                             *)
IsDone(c, action) ==
    /\ action = "finish"
    /\ Len(history[c]) = Len(Steps(c))
    /\ intent[c] \notin {"unclear", "fraud_or_freeze"}

ScriptOK(c) ==
    /\ pc[c] \in {"absent", "received"} => history[c] = <<>>
    /\ pc[c] \in {"planning", "deciding", "acting"} /\ Straight(c) => FollowsScript(c)
    /\ pc[c] = "acting" /\ Straight(c) => TakesStep(c, proposed[c]) \/ HandsOver(c, proposed[c])
    /\ pc[c] \in {"deciding", "acting"} /\ ~Straight(c) => proposed[c] \in DANGEROUS_ACTIONS

LEMMA ScriptEffects ==
    ASSUME NEW i \in INTENTS
    PROVE  /\ \A n \in DOMAIN Script[i] :
                  /\ Script[i][n] = "verify_identity" => n = 1
                  /\ Script[i][n] \in MONEY_TOOLS =>
                         /\ Script[i][n] \in {"post_payment", "issue_refund"}
                         /\ i \in {"refund", "make_payment"} /\ n = 2 /\ Script[i][1] = "verify_identity"
                  /\ Script[i][n] = "raise_dispute" =>
                         i = "dispute" /\ n = 2 /\ Script[i][1] = "verify_identity"
           /\ i \in {"refund", "make_payment"} => 2 \in DOMAIN Script[i] /\ Script[i][2] \in MONEY_TOOLS
           /\ i = "dispute" => 2 \in DOMAIN Script[i] /\ Script[i][2] = "raise_dispute"
           /\ i \notin {"unclear", "fraud_or_freeze"} =>
                  \E n \in DOMAIN Script[i] : Script[i][n] = "send_customer_message"
<1>1. CASE i = "unclear"
  BY <1>1 DEF Script, MONEY_TOOLS
<1>2. CASE i = "fraud_or_freeze"
  BY <1>2 DEF Script, MONEY_TOOLS
<1>3. CASE i = "payoff_quote"
  BY <1>3 DEF Script, MONEY_TOOLS
<1>4. CASE i = "refund"
  BY <1>4 DEF Script, MONEY_TOOLS
<1>5. CASE i = "dispute"
  BY <1>5 DEF Script, MONEY_TOOLS
<1>6. CASE i = "make_payment"
  BY <1>6 DEF Script, MONEY_TOOLS
<1>7. CASE i = "balance_inquiry"
  BY <1>7 DEF Script, MONEY_TOOLS
<1> QED BY <1>1, <1>2, <1>3, <1>4, <1>5, <1>6, <1>7, IntentValues

(* The steps taken, as the planner sees them.                              *)
LEMMA CalledSteps ==
    ASSUME AgentTypeOK, NEW c \in Cases, FollowsScript(c)
    PROVE  /\ Len(history[c]) \in Nat /\ DOMAIN history[c] = 1 .. Len(history[c])
           /\ Len(Steps(c)) \in 0 .. 3 /\ DOMAIN Steps(c) = 1 .. Len(Steps(c))
           /\ called(c) = {Steps(c)[n] : n \in 1 .. Len(history[c])}
           /\ Missing(c) = Len(history[c]) + 1 .. Len(Steps(c))
<1>1. history[c] \in Seq([action : TOOLS, outcome : {"ok", "denied", "error"}]) /\ intent[c] \in INTENTS
  BY DEF AgentTypeOK
<1>2. Len(history[c]) \in Nat /\ DOMAIN history[c] = 1 .. Len(history[c])
  BY <1>1, LenProperties
<1>3. /\ Len(Steps(c)) \in 0 .. 3 /\ DOMAIN Steps(c) = 1 .. Len(Steps(c))
      /\ \A m, n \in DOMAIN Steps(c) : Steps(c)[m] = Steps(c)[n] => m = n
  BY <1>1, ScriptSteps DEF Steps
<1>4. called(c) = {Steps(c)[n] : n \in 1 .. Len(history[c])}
  BY <1>2 DEF called, FollowsScript
<1>5. Missing(c) = Len(history[c]) + 1 .. Len(Steps(c))
  <2>1. 1 .. Len(history[c]) \subseteq 1 .. Len(Steps(c))
    BY <1>2, <1>3 DEF FollowsScript
  <2>2. \A n \in 1 .. Len(Steps(c)) : Steps(c)[n] \in called(c) <=> n \in 1 .. Len(history[c])
    BY <1>3, <1>4, <2>1
  <2>3. Missing(c) = {n \in 1 .. Len(Steps(c)) : n \notin 1 .. Len(history[c])}
    BY <1>3, <2>2 DEF Missing, Steps
  <2> QED BY <1>2, <1>3, <2>3
<1> QED BY <1>2, <1>3, <1>4, <1>5

(* What comes next in a case that has followed its script.                 *)
LEMMA NextPlanned ==
    ASSUME AgentTypeOK, NEW c \in Cases, FollowsScript(c)
    PROVE  \/ TakesStep(c, PlannedAction(c))
           \/ HandsOver(c, PlannedAction(c))
           \/ IsDone(c, PlannedAction(c))
<1>0. /\ Len(history[c]) \in Nat /\ Len(Steps(c)) \in 0 .. 3 /\ DOMAIN Steps(c) = 1 .. Len(Steps(c))
      /\ called(c) = {Steps(c)[n] : n \in 1 .. Len(history[c])}
      /\ Missing(c) = Len(history[c]) + 1 .. Len(Steps(c))
      /\ Len(history[c]) <= Len(Steps(c))
  BY CalledSteps DEF FollowsScript
<1>1. intent[c] \in INTENTS
  BY DEF AgentTypeOK
<1>2. "verify_identity" \in called(c) <=> Len(history[c]) > 0 /\ VerifiesFirst(c)
  <2>1. \A n \in 1 .. Len(history[c]) : n \in DOMAIN Steps(c)
    BY <1>0
  <2>2. \A n \in 1 .. Len(history[c]) : Steps(c)[n] = "verify_identity" => n = 1
    BY <1>1, <2>1, ScriptEffects DEF Steps
  <2> QED BY <1>0, <2>2 DEF VerifiesFirst
<1>3. CASE "verify_identity" \in called(c) /\ ~Verified(c)
  <2>1. Len(history[c]) > 0 /\ VerifiesFirst(c) /\ ~FoundVerified(c)
    BY <1>2, <1>3 DEF Verified
  <2>2. ~(Len(history[c]) > 1)
    BY <2>1 DEF FollowsScript
  <2>3. Len(history[c]) \in Nat
    BY <1>0
  <2> DEFINE k == Len(history[c])
  <2>4. k \in Nat /\ k > 0 /\ ~(k > 1)
    BY <2>1, <2>2, <2>3
  <2> HIDE DEF k
  <2>5. k = 1
    BY <2>4
  <2>6. Len(history[c]) = 1
    BY <2>5 DEF k
  <2>7. PlannedAction(c) = "escalate_to_human"
    BY <1>3 DEF PlannedAction
  <2> QED BY <2>1, <2>6, <2>7 DEF HandsOver
<1>4. CASE ~("verify_identity" \in called(c) /\ ~Verified(c))
  <2>0. PlannedAction(c) = NextStep(c)
    BY <1>4 DEF PlannedAction
  <2>1. CASE Missing(c) = {}
    <3>1. Len(history[c]) = Len(Steps(c))
      BY <1>0, <2>1
    <3> QED BY <2>0, <2>1, <3>1 DEF NextStep, LastStep, IsDone, HandsOver
  <2>2. CASE Missing(c) # {}
    <3>1. PICK n \in Missing(c) : (\A m \in Missing(c) : n <= m) /\ NextStep(c) = Steps(c)[n]
      BY <1>1, <2>2, FirstMissing DEF Steps
    <3> DEFINE a == Len(history[c]) + 1
               b == Len(Steps(c))
    <3>2. a \in Int /\ b \in Int /\ Missing(c) = a .. b
      BY <1>0
    <3>4. a <= n /\ n <= b /\ n \in Int
      BY <3>1, <3>2
    <3>5. n <= a
      <4>1. a \in Missing(c)
        BY <3>2, <3>4
      <4> QED BY <3>1, <4>1
    <3>6. n = Len(history[c]) + 1 /\ Len(history[c]) < Len(Steps(c))
      BY <1>0, <3>2, <3>4, <3>5
    <3>3. Len(history[c]) > 0 /\ VerifiesFirst(c) => FoundVerified(c)
      BY <1>2, <1>4 DEF Verified
    <3> QED BY <2>0, <3>1, <3>6, <3>3 DEF TakesStep
  <2> QED BY <2>1, <2>2
<1> QED BY <1>3, <1>4

LEMMA StraightAnswer ==
    ASSUME GatewayTypeOK, NEW c
    PROVE  /\ Straight(c) => response(c).action \in {PlannedAction(c), "truncated"}
           /\ ~Straight(c) => response(c).action \in DANGEROUS_ACTIONS
BY ClientValues, ScriptedAnswer, StrippedAnswer, TruncatedAnswer, ScrambledAnswer, UnapprovedAnswer
   DEF Straight

LEMMA NotTools ==
    ASSUME AgentTypeOK, NEW c \in Cases
    PROVE  "truncated" \notin Approved(c) /\ "finish" \notin Approved(c)
BY ApprovedAreTools DEF TOOLS, GATED_TOOLS, MONEY_TOOLS, UNGATED_TOOLS, READ_TOOLS

(* A trail only grows: what was found verified stays so.                   *)
LEMMA RowsStay ==
    ASSUME AgentTypeOK, LoopInv, NEW c \in Cases, AgentStep(c), NEW e \in Cases
    PROVE  \A i \in DOMAIN audit_log[e] :
               i \in DOMAIN audit_log'[e] /\ audit_log'[e][i] = audit_log[e][i]
<1>1. TypeOK /\ (Step(c) \/ UNCHANGED vars)
  BY LoopUsesTools DEF AgentTypeOK, LoopInv
<1>2. UNCHANGED audit_log \/ \E rows \in Seq(AuditRows) : append_audit(c, rows)
  <2>1. ASSUME NEW row \in AuditRows, append_audit(c, <<row>>)
        PROVE  \E rows \in Seq(AuditRows) : append_audit(c, rows)
    <3>1. <<row>> \in Seq(AuditRows)
      OBVIOUS
    <3> QED BY <2>1, <3>1
  <2> QED BY <1>1, <2>1, StepTrace DEF Trace, TellsAll, LeavesEffect, LogsEffect, Locks, Ends, Opens, vars
<1> QED BY <1>1, <1>2, OldRows

LEMMA StillVerified ==
    ASSUME AgentTypeOK, LoopInv, NEW c \in Cases, AgentStep(c), FoundVerified(c)
    PROVE  FoundVerified(c)'
BY RowsStay DEF FoundVerified

(* The script of a case goes on with its history and its intent.           *)
LEMMA SameScript ==
    ASSUME NEW c, UNCHANGED client, intent'[c] = intent[c], history'[c] = history[c],
           FoundVerified(c) => FoundVerified(c)'
    PROVE  /\ Straight(c)' = Straight(c)
           /\ FollowsScript(c) => FollowsScript(c)'
           /\ TakesStep(c, proposed[c]) /\ proposed'[c] = proposed[c] => TakesStep(c, proposed[c])'
           /\ HandsOver(c, proposed[c]) /\ proposed'[c] = proposed[c] => HandsOver(c, proposed[c])'
BY DEF Straight, Approved, FollowsScript, TakesStep, HandsOver, Steps, VerifiesFirst

(* What the loop acts upon follows the script, or is refused by it.        *)
LEMMA ActsOnScript ==
    ASSUME AgentTypeOK, GatewayInv, NEW c \in Cases, ScriptOK(c), pc[c] = "deciding",
           proposed[c] \in Approved(c), Straight(c)
    PROVE  TakesStep(c, proposed[c]) \/ HandsOver(c, proposed[c])
<1>1. proposed[c] \in {PlannedAction(c), "truncated"}
  BY StraightAnswer DEF GatewayInv, AnswerOK
<1>2. proposed[c] = PlannedAction(c)
  BY <1>1, NotTools
<1>3. ~IsDone(c, proposed[c])
  BY NotTools DEF IsDone
<1>4. FollowsScript(c)
  BY DEF ScriptOK
<1> QED BY <1>2, <1>3, <1>4, NextPlanned

(* A step that succeeded is one more of the script.                        *)
LEMMA StepTaken ==
    ASSUME AgentTypeOK, LoopInv, NEW c \in Cases, GatewayStep(c), AgentStep(c), ToolReturns(c), AfterSuccess(c),
           FollowsScript(c), TakesStep(c, proposed[c])
    PROVE  FollowsScript(c)'
<1>0. LoopTypes /\ UNCHANGED <<client, intent>> /\ LoopOK(c)
  BY DEF AgentTypeOK, LoopTypes, GatewayStep, ToolReturns, LoopInv
<1> DEFINE entry == HistoryEntry(proposed[c], call[c].outcome)
<1>1. entry \in [action : TOOLS, outcome : {"ok", "denied", "error"}]
  BY <1>0, ReturnedEntry DEF ToolReturns, At
<1>2. entry.action = proposed[c] /\ entry.outcome = "ok"
  BY DEF HistoryEntry, AfterSuccess
<1>3. history'[c] = Append(history[c], entry)
  BY <1>0 DEF ToolReturns, RecordStep, LoopTypes
<1> HIDE DEF entry
<1>4. /\ Len(history[c]) \in Nat
      /\ Len(history'[c]) = Len(history[c]) + 1
      /\ \A n \in DOMAIN history'[c] : \/ n \in DOMAIN history[c] /\ history'[c][n] = history[c][n]
                                       \/ n = Len(history[c]) + 1 /\ history'[c][n] = entry
  BY <1>0, <1>1, <1>3, AppendProperties, LenProperties DEF LoopTypes
<1>5. Steps(c)' = Steps(c) /\ VerifiesFirst(c)' = VerifiesFirst(c)
  BY <1>0 DEF Steps, VerifiesFirst
<1>6. Len(Steps(c)) \in 0 .. 3
  BY CalledSteps
<1>7. Len(history'[c]) <= Len(Steps(c)) /\ (Len(history'[c]) > 1 => Len(history[c]) > 0)
  BY <1>4, <1>6 DEF TakesStep
<1>8. \A n \in DOMAIN history'[c] : history'[c][n].action = Steps(c)[n] /\ history'[c][n].outcome = "ok"
  BY <1>2, <1>4 DEF FollowsScript, TakesStep
<1>9. Len(history'[c]) > 1 /\ VerifiesFirst(c) => FoundVerified(c)'
  BY <1>7, StillVerified DEF TakesStep
<1> QED BY <1>5, <1>7, <1>8, <1>9 DEF FollowsScript

LEMMA ScriptStep ==
    ASSUME AgentTypeOK, LoopInv, GatewayInv, NEW c \in Cases, ScriptOK(c), GatewayStep(c)
    PROVE  ScriptOK(c)'
<1>0. LoopTypes /\ UNCHANGED client /\ AgentStep(c) /\ LoopOK(c)
  BY GatewayStepIsAgents DEF AgentTypeOK, LoopTypes, GatewayStep, LoopInv
<1>1. FoundVerified(c) => FoundVerified(c)'
  BY <1>0, StillVerified
<1>2. CASE ReceiveRow(c)
  BY <1>0, <1>2 DEF ReceiveRow, ReceiveCase, At, Goto, LoopTypes, ScriptOK
<1>3. CASE StartCase(c, intake[c].message)
  <2>1. pc'[c] = "planning" /\ history'[c] = <<>>
    BY <1>0, <1>3 DEF StartCase, At, Goto, LoopTypes, ScriptOK
  <2>2. intent'[c] \in INTENTS
    BY <1>0, LoopTypesStep DEF LoopTypes
  <2>3. Len(Steps(c)') \in 0 .. 3
    BY <2>2, ScriptSteps DEF Steps
  <2>4. Len(history'[c]) = 0 /\ DOMAIN history'[c] = {}
    BY <2>1
  <2>5. FollowsScript(c)'
    BY <2>3, <2>4 DEF FollowsScript
  <2> QED BY <2>1, <2>5 DEF ScriptOK
<1>4. CASE Plan(c)
  <2>1. /\ pc[c] = "planning" /\ pc'[c] = "deciding" /\ proposed'[c] = response(c).action
        /\ UNCHANGED <<intent, history>>
    BY <1>0, <1>4 DEF Plan, PlanStep, ModelCall, At, Goto, LoopTypes
  <2>2. Straight(c)' = Straight(c) /\ (FollowsScript(c) => FollowsScript(c)')
    BY <1>0, <1>1, <2>1, SameScript
  <2> QED BY <2>1, <2>2, StraightAnswer DEF GatewayInv, ScriptOK
<1>5. CASE \/ CallPlanned(c)
           \/ ToolLocked(c) /\ At(c, "deciding")
  <2>1. /\ pc[c] = "deciding" /\ pc'[c] = "acting" /\ proposed[c] \in Approved(c)
        /\ UNCHANGED <<intent, history, proposed>>
    BY <1>0, <1>5 DEF CallPlanned, ToolLocked, At, Goto, LoopTypes
  <2>2. /\ Straight(c)' = Straight(c) /\ (FollowsScript(c) => FollowsScript(c)')
        /\ TakesStep(c, proposed[c]) => TakesStep(c, proposed[c])'
        /\ HandsOver(c, proposed[c]) => HandsOver(c, proposed[c])'
    BY <1>0, <1>1, <2>1, SameScript
  <2> QED BY <2>1, <2>2, ActsOnScript DEF ScriptOK
<1>6. CASE \/ ToolStep(c)
           \/ ToolLocked(c) /\ At(c, "acting")
  <2>1. UNCHANGED <<pc, intent, history, proposed>>
    BY <1>6 DEF ToolStep, ToolLocked, At, agentVars
  <2>2. /\ Straight(c)' = Straight(c) /\ (FollowsScript(c) => FollowsScript(c)')
        /\ TakesStep(c, proposed[c]) => TakesStep(c, proposed[c])'
        /\ HandsOver(c, proposed[c]) => HandsOver(c, proposed[c])'
    BY <1>0, <1>1, <2>1, SameScript
  <2> QED BY <2>1, <2>2 DEF ScriptOK
<1>7. CASE ToolReturns(c)
  <2>1. pc[c] = "acting" /\ UNCHANGED intent
    BY <1>7 DEF ToolReturns, At
  <2>2. CASE AfterRefusal(c) \/ (AfterSuccess(c) /\ proposed[c] = "escalate_to_human")
    <3>1. pc'[c] \in {"escalating", "completing"}
      BY <1>0, <2>2 DEF AfterRefusal, AfterSuccess, StopWith, Goto, LoopTypes
    <3> QED BY <3>1 DEF ScriptOK
  <2>3. CASE AfterSuccess(c) /\ proposed[c] # "escalate_to_human"
    <3>1. pc'[c] = "planning" /\ Straight(c)' = Straight(c)
      BY <1>0, <2>1, <2>3 DEF AfterSuccess, Goto, LoopTypes, Straight, Approved
    <3>2. Straight(c) => FollowsScript(c) /\ TakesStep(c, proposed[c])
      BY <2>1, <2>3 DEF ScriptOK, HandsOver
    <3>3. Straight(c) => FollowsScript(c)'
      BY <1>0, <1>7, <2>3, <3>2, StepTaken
    <3> QED BY <3>1, <3>3 DEF ScriptOK
  <2> QED BY <1>7, <2>2, <2>3 DEF ToolReturns
<1>8. CASE \/ RejectModel(c, response(c).model_id) \/ RefuseAction(c) \/ Finish(c)
           \/ ExceedBudget(c) \/ Escalate(c) \/ EscalateReturns(c) \/ Complete(c) \/ CaseFails(c)
  <2>1. pc'[c] \in {"escalating", "escalated", "completing", "answered", "failed"}
    BY <1>0, <1>8 DEF RejectModel, RefuseAction, Finish, ExceedBudget, Escalate, EscalateReturns,
                      Complete, CaseFails, StopWith, Goto, LoopTypes
  <2> QED BY <2>1 DEF ScriptOK
<1>9. ToolLocked(c) => At(c, "acting") \/ At(c, "deciding")
  BY DEF ToolLocked
<1> QED BY <1>2, <1>3, <1>4, <1>5, <1>6, <1>7, <1>8, <1>9, GatewaySteps DEF LoopGoesOn

ScriptInv == \A c \in Cases : ScriptOK(c)

LEMMA SameScriptOK ==
    ASSUME NEW e, UNCHANGED client, pc'[e] = pc[e], intent'[e] = intent[e], proposed'[e] = proposed[e],
           history'[e] = history[e], audit_log'[e] = audit_log[e], ScriptOK(e)
    PROVE  ScriptOK(e)'
<1>1. FoundVerified(e) => FoundVerified(e)'
  BY DEF FoundVerified
<1> QED BY <1>1, SameScript DEF ScriptOK

LEMMA ScriptInvIsInvariant ==
    AgentTypeOK /\ LoopInv /\ GatewayInv /\ ScriptInv /\ [GatewayNext]_everyVar => ScriptInv'
<1> SUFFICES ASSUME AgentTypeOK, LoopInv, GatewayInv, ScriptInv, [GatewayNext]_everyVar, NEW e \in Cases
             PROVE  ScriptOK(e)'
  BY DEF ScriptInv
<1>1. CASE UNCHANGED everyVar
  BY <1>1, SameScriptOK DEF everyVar, allVars, vars, agentVars, ScriptInv
<1>2. ASSUME NEW c \in Cases, GatewayStep(c)
      PROVE  ScriptOK(e)'
  <2>1. CASE e = c
    BY <1>2, <2>1, ScriptStep DEF ScriptInv
  <2>2. CASE e # c
    BY <1>2, <2>2, GatewayStepIsAgents, OthersStay, SameScriptOK DEF GatewayStep, ScriptInv
  <2> QED BY <2>1, <2>2
<1> QED BY <1>1, <1>2 DEF GatewayNext, GatewayStep

LEMMA GatewayInitScript == GatewayInit => ScriptInv
BY DEF GatewayInit, AgentInit, ScriptInv, ScriptOK

OutOfBounds == {"step_budget_exceeded", "action_outside_approved_set", "model_identity_rejected"}

(* What the scripted planner answers is taken up, before the budget ends.  *)
LEMMA ScriptedAnswersPass ==
    ASSUME AgentTypeOK, GatewayInv, NEW c \in Cases, ScriptOK(c), client = "scripted"
    PROVE  ~RejectModel(c, response(c).model_id) /\ ~RefuseAction(c) /\ ~ExceedBudget(c)
<1>1. ~RejectModel(c, response(c).model_id)
  BY ScriptedAnswer DEF RejectModel, check_model_identity, SCRIPTED_MODEL_ID, APPROVED_MODEL_IDS
<1>2. ~RefuseAction(c)
  <2>1. PlannedAction(c) \in Approved(c) \cup {"finish"}
    BY PlannedActions DEF AgentTypeOK
  <2>2. pc[c] = "deciding" => proposed[c] = PlannedAction(c)
    BY ScriptedAnswer DEF GatewayInv, AnswerOK
  <2> QED BY <2>1, <2>2 DEF RefuseAction, At
<1>3. ASSUME pc[c] = "planning"
      PROVE  Len(history[c]) # MaxSteps
  <2>1. FollowsScript(c)
    BY <1>3 DEF ScriptOK, Straight
  <2>2. Len(history[c]) \in Nat /\ Len(Steps(c)) \in 0 .. 3 /\ Len(history[c]) <= Len(Steps(c))
    BY <2>1, CalledSteps DEF FollowsScript
  <2> DEFINE k == Len(history[c])
             m == Len(Steps(c))
  <2>3. k \in Nat /\ m \in 0 .. 3 /\ k <= m
    BY <2>2
  <2> HIDE DEF k, m
  <2>4. k # MaxSteps
    BY <2>3, ScriptFitsAssumption, MaxStepsAssumption
  <2> QED BY <2>4 DEF k
<1> QED BY <1>1, <1>2, <1>3 DEF ExceedBudget, At

(* The reasons a step may give to a case.                                  *)
LEMMA ReasonsGiven ==
    ASSUME AgentTypeOK, LoopInv, GatewayInv, NEW c \in Cases, GatewayStep(c)
    PROVE  \/ result'[c] = result[c]
           \/ /\ RejectModel(c, response(c).model_id) \/ RefuseAction(c) \/ ExceedBudget(c)
              /\ pc[c] \in {"planning", "deciding"} /\ result'[c].reason \in OutOfBounds
           \/ Finish(c) /\ result'[c].reason = "finished"
           \/ ToolReturns(c) /\ AfterRefusal(c) /\ result'[c].reason \in {"tool_denied", "tool_error"}
           \/ /\ ToolReturns(c) /\ AfterSuccess(c) /\ proposed[c] = "escalate_to_human"
              /\ result'[c].reason = "planner_escalated"
<1>0. LoopTypes
  BY DEF AgentTypeOK, LoopTypes
<1>1. CASE RejectModel(c, response(c).model_id) \/ RefuseAction(c) \/ ExceedBudget(c)
  BY <1>0, <1>1 DEF RejectModel, RefuseAction, ExceedBudget, ModelCall, StopWith, At, Result, LoopTypes, OutOfBounds
<1>2. CASE Finish(c)
  BY <1>0, <1>2 DEF Finish, Result, LoopTypes
<1>3. CASE ToolReturns(c)
  <2>1. CASE AfterRefusal(c)
    BY <1>0, <1>3, <2>1 DEF AfterRefusal, StopWith, Result, LoopTypes
  <2>2. CASE AfterSuccess(c)
    BY <1>0, <1>3, <2>2 DEF AfterSuccess, Result, LoopTypes
  <2> QED BY <1>3, <2>1, <2>2 DEF ToolReturns
<1>4. CASE \/ ReceiveRow(c) \/ StartCase(c, intake[c].message) \/ Plan(c) \/ CallPlanned(c) \/ ToolStep(c)
           \/ Escalate(c) \/ EscalateReturns(c) \/ Complete(c) \/ ToolLocked(c) \/ CaseFails(c)
  BY <1>4 DEF ReceiveRow, ReceiveCase, StartCase, Plan, PlanStep, CallPlanned, ToolStep, agentVars,
              Escalate, EscalateReturns, Complete, ToolLocked, CaseFails
<1> QED BY <1>1, <1>2, <1>3, <1>4, GatewaySteps DEF LoopGoesOn

(* The scripted planner is never refused and always done in time: whatever *)
(* the rows of the cases, and whatever its tools return or raise.          *)
THEOREM PlannerNeedsNoNet == GatewaySpec => []PlannerStaysInBudget
<1>1. GatewayInit => PlannerStaysInBudget
  BY DEF GatewayInit, AgentInit, Result, PlannerStaysInBudget
<1>2. AgentTypeOK /\ LoopInv /\ GatewayInv /\ ScriptInv /\ PlannerStaysInBudget /\ [GatewayNext]_everyVar =>
          PlannerStaysInBudget'
  <2> SUFFICES ASSUME AgentTypeOK, LoopInv, GatewayInv, ScriptInv, PlannerStaysInBudget,
                      [GatewayNext]_everyVar, client' = "scripted", NEW e \in Cases
               PROVE  result'[e].reason \notin OutOfBounds
    BY DEF PlannerStaysInBudget, OutOfBounds
  <2>1. client = "scripted" /\ result[e].reason \notin OutOfBounds
    BY DEF GatewayNext, everyVar, PlannerStaysInBudget, OutOfBounds
  <2>2. CASE UNCHANGED everyVar
    BY <2>1, <2>2 DEF everyVar, allVars, agentVars
  <2>3. ASSUME NEW c \in Cases, GatewayStep(c)
        PROVE  result'[e].reason \notin OutOfBounds
    <3>1. CASE e = c
      BY <2>1, <2>3, <3>1, ScriptedAnswersPass, ReasonsGiven DEF ScriptInv, OutOfBounds
    <3>2. CASE e # c
      BY <2>1, <2>3, <3>2, GatewayStepIsAgents, OthersStay
    <3> QED BY <3>1, <3>2
  <2> QED BY <2>2, <2>3 DEF GatewayNext, GatewayStep
<1> QED BY <1>1, <1>2, GatewayInitInv, GatewayInvIsInvariant, GatewayInitScript, ScriptInvIsInvariant,
           PTL DEF GatewaySpec

-----------------------------------------------------------------------------
(* What a case has left in the tables *)

(* A call that is not answered with a refusal or a failure has moved its   *)
(* money, raised its dispute or sent its message.                          *)
LEMMA MoneyOutcome ==
    ASSUME TypeOK, NEW c \in Cases, NEW tool \in {"post_payment", "issue_refund"}, NEW l, NEW amount \in Int,
           CallWith(c, tool, l, amount), call'[c] \notin {Idle("denied"), Idle("error")}
    PROVE  /\ l \in Loans
           /\ \E type \in {"payment", "refund"}, a \in {amount, -amount} :
                  transactions' = Append(transactions, MoveRow(c, l, type, a))
<1>1. CallOnLoan(c, tool, l, amount)
  BY DEF CallWith
<1>2. ~Raised(c) /\ \A t, rows : ~Denied(c, t, rows)
  BY Becomes DEF Raised, Denied
<1>3. ~bad_arguments(c, tool) /\ ~require_identity_verified(c, tool, l) /\ ~read_tool(c, tool, l \in Loans)
  BY <1>2 DEF bad_arguments, require_identity_verified, read_tool, READ_TOOLS
<1>4. CASE l \in Loans /\ tool = "post_payment" /\ post_payment(c, l, amount)
  BY <1>2, <1>4 DEF post_payment, MoveMoney, MoveRow
<1>5. CASE l \in Loans /\ tool = "issue_refund" /\ issue_refund(c, l, amount)
  BY <1>2, <1>5 DEF issue_refund, MoveMoney, MoveRow
<1> QED BY <1>1, <1>3, <1>4, <1>5 DEF CallOnLoan

ClaimRow(c, l, k) == [loan |-> l, customer |-> k, case |-> c, status |-> "open"]

LEMMA DisputeOutcome ==
    ASSUME TypeOK, NEW c \in Cases, NEW l, NEW amount, CallWith(c, "raise_dispute", l, amount)
    PROVE  \/ UNCHANGED disputes /\ call'[c] \in {Idle("denied"), Idle("error")}
           \/ /\ l \in Loans /\ intake[c].customer \in Customers /\ GateOpen(c, l)
              /\ disputes' = Append(disputes, ClaimRow(c, l, intake[c].customer))
<1>1. CallOnLoan(c, "raise_dispute", l, amount)
  BY DEF CallWith
<1>2. CASE Raised(c) \/ \E t, rows : Denied(c, t, rows)
  BY <1>2, Becomes DEF Raised, Denied, db
<1>3. CASE bad_arguments(c, "raise_dispute") \/ require_identity_verified(c, "raise_dispute", l)
  BY <1>2, <1>3 DEF bad_arguments, require_identity_verified
<1>4. CASE l \in Loans /\ raise_dispute(c, l, intake[c].customer)
  BY <1>2, <1>4 DEF raise_dispute, AskGated, ClaimRow
<1>5. ~read_tool(c, "raise_dispute", l \in Loans)
  BY DEF read_tool, READ_TOOLS
<1> QED BY <1>1, <1>3, <1>4, <1>5 DEF CallOnLoan

LEMMA MessageOutcome ==
    ASSUME TypeOK, NEW c \in Cases, NEW l, NEW amount, CallWith(c, "send_customer_message", l, amount)
    PROVE  \E i \in DOMAIN audit_log'[c] : audit_log'[c][i] = MessageRow
<1>1. send_customer_message(c)
  BY DEF CallWith, LoanTools, GATED_TOOLS, MONEY_TOOLS
<1> DEFINE first == <<MessageRow>>
           last == <<ToolCallRow("send_customer_message", "ok")>>
           rows == first \o last
           k == Len(audit_log[c])
<1>2. /\ first \in Seq(AuditRows) /\ Len(first) = 1 /\ first[1] = MessageRow
      /\ last \in Seq(AuditRows) /\ Len(last) = 1
  BY RowTypes, NotEscalations
<1>3. append_audit(c, rows)
  BY <1>1 DEF send_customer_message, Logged
<1> HIDE DEF first, last
<1>4. rows \in Seq(AuditRows) /\ Len(rows) = 2 /\ rows[1] = MessageRow
  <2>1. /\ rows \in Seq(AuditRows) /\ Len(rows) = Len(first) + Len(last)
        /\ \A i \in 1 .. Len(first) + Len(last) :
              rows[i] = IF i <= Len(first) THEN first[i] ELSE last[i - Len(first)]
    BY <1>2, ConcatProperties
  <2> HIDE DEF rows
  <2>2. 1 \in 1 .. Len(first) + Len(last) /\ 1 <= Len(first)
    BY <1>2
  <2> QED BY <1>2, <2>1, <2>2
<1> HIDE DEF rows
<1>5. /\ DOMAIN audit_log'[c] = 1 .. k + Len(rows)
      /\ \A i \in k + 1 .. k + Len(rows) : audit_log'[c][i] = rows[i - k]
  BY <1>3, <1>4, Appended
<1>6. k \in Nat
  BY TrailTypes
<1> HIDE DEF k
<1>7. k + 1 \in DOMAIN audit_log'[c] /\ audit_log'[c][k + 1] = rows[1]
  BY <1>4, <1>5, <1>6
<1> QED BY <1>4, <1>7

(* A step of a case adds nothing to what the others left.                  *)
LEMMA MovesAfter ==
    ASSUME TypeOK, NEW c \in Cases, NEW l \in Loans, NEW type \in {"payment", "refund"}, NEW a \in Int,
           transactions' = Append(transactions, MoveRow(c, l, type, a))
    PROVE  /\ transactions' # transactions
           /\ MovesOf(c)' = MovesOf(c) \cup {Len(transactions) + 1}
           /\ \A e \in Cases \ {c} : MovesOf(e)' = MovesOf(e)
<1> DEFINE n == Len(transactions) + 1
<1>1. /\ n \notin DOMAIN transactions
      /\ DOMAIN transactions' = DOMAIN transactions \cup {n}
      /\ \A m \in DOMAIN transactions : transactions'[m] = transactions[m]
      /\ transactions'[n].case = c
  BY AppendedMove DEF MoveRow
<1> HIDE DEF n
<1>2. \A e : MovesOf(e)' = {m \in DOMAIN transactions \cup {n} : transactions'[m].case = e}
  BY <1>1 DEF MovesOf
<1> QED BY <1>1, <1>2 DEF MovesOf, n

LEMMA DisputesAfter ==
    ASSUME TypeOK, NEW c \in Cases, NEW l \in Loans, NEW k \in Customers,
           disputes' = Append(disputes, ClaimRow(c, l, k))
    PROVE  /\ DisputesOf(c)' = DisputesOf(c) \cup {Len(disputes) + 1}
           /\ \A e \in Cases \ {c} : DisputesOf(e)' = DisputesOf(e)
<1> DEFINE n == Len(disputes) + 1
<1>1. /\ DOMAIN disputes' = DOMAIN disputes \cup {n}
      /\ \A m \in DOMAIN disputes : disputes'[m] = disputes[m]
      /\ disputes'[n].case = c
  BY AppendedDispute DEF ClaimRow
<1> HIDE DEF n
<1>2. \A e : DisputesOf(e)' = {m \in DOMAIN disputes \cup {n} : disputes'[m].case = e}
  BY <1>1 DEF DisputesOf
<1> QED BY <1>1, <1>2 DEF DisputesOf, n

LEMMA OtherStepsDisputes ==
    ASSUME AgentTypeOK, NEW c \in Cases, LoopOK(c),
           \/ ReceiveRow(c) \/ StartCase(c, intake[c].message) \/ Plan(c)
           \/ RejectModel(c, response(c).model_id) \/ LoopGoesOn(c)
    PROVE  UNCHANGED disputes
<1>1. CASE \/ ReceiveRow(c) \/ StartCase(c, intake[c].message) \/ Plan(c)
           \/ RejectModel(c, response(c).model_id)
  BY <1>1 DEF ReceiveRow, ReceiveCase, OpenCase, StartCase, Plan, PlanStep, RejectModel, CallerRow, db, vars
<1>2. CASE \/ RefuseAction(c) \/ Finish(c) \/ ToolReturns(c) \/ ExceedBudget(c)
           \/ EscalateReturns(c)
  BY <1>2 DEF RefuseAction, CallerRow, Finish, ToolReturns, ExceedBudget, EscalateReturns,
              SessionEnds, db, vars
<1>3. CASE Escalate(c) \/ Complete(c) \/ ToolLocked(c) \/ CaseFails(c)
  BY <1>3 DEF Escalate, escalate_to_human, Complete, CompleteCase, ToolLocked, DatabaseLocked,
              Raised, CaseFails, SessionEnds, db
<1>4. CASE ToolStep(c)
  <2>1. ~resolve_dispute_update(c)
    <3>0. intent[c] \in {"fraud_or_freeze", "refund", "dispute", "payoff_quote",
                         "make_payment", "balance_inquiry", "unclear"}
      BY IntentValues DEF AgentTypeOK
    <3>1. "resolve_dispute" \notin Approved(c)
      BY <3>0 DEF Approved, ApprovedActions, RuleActions, UNIVERSAL_ACTIONS
    <3>2. call[c].pc # "resolving"
      <4>1. \A x \in Underway("escalate_to_human") \cup {Idle("denied"), Idle("error")} : x.pc # "resolving"
        BY DEF Underway, Idle
      <4>2. \A t : t # "resolve_dispute" => \A x \in Underway(t) : x.pc # "resolving"
        BY DEF Underway, Idle
      <4> QED BY <3>1, <4>1, <4>2 DEF LoopOK
    <3> QED BY <3>2 DEF resolve_dispute_update, Continue
  <2> QED BY <1>4, <2>1 DEF ToolStep, ContinueCall, freeze_account_update, LogCall, db
<1> QED BY <1>1, <1>2, <1>3, <1>4 DEF LoopGoesOn

(* The call of a case, and the arguments it makes of the answer.           *)
LEMMA PlannedCall ==
    ASSUME AgentTypeOK, GatewayInv, NEW c \in Cases, CallPlanned(c)
    PROVE  /\ pc[c] = "deciding" /\ proposed[c] \in Approved(c)
           /\ CallWith(c, proposed[c], response(c).loan, response(c).amount)
           /\ response(c).amount \in Int /\ -response(c).amount \in Int
<1>1. pc[c] = "deciding" /\ intake[c] \in Intakes
  BY DEF CallPlanned, At, GatewayInv, GatewayTypeOK
<1>2. response(c).amount \in Int
  BY <1>1, AnswerTypes, AmountsAssumption DEF GatewayInv
<1> QED BY <1>1, <1>2 DEF CallPlanned

Answered(c) == call'[c] \notin {Idle("denied"), Idle("error")}

LEMMA CallLeavesMoves ==
    ASSUME AgentTypeOK, LoopInv, GatewayInv, NEW c \in Cases, GatewayStep(c)
    PROVE  /\ \A e \in Cases \ {c} : MovesOf(e)' = MovesOf(e)
           /\ MovesOf(c)' # MovesOf(c) => CallPlanned(c) /\ proposed[c] \in {"post_payment", "issue_refund"}
           /\ CallPlanned(c) /\ proposed[c] \in {"post_payment", "issue_refund"} /\ Answered(c) =>
                  \E n \in Nat : MovesOf(c)' = MovesOf(c) \cup {n}
<1>0. TypeOK /\ transactions \in Seq(Transactions)
  BY DEF AgentTypeOK, TypeOK
<1>1. Len(transactions) + 1 \in Nat
  BY <1>0, LenProperties
<1>2. CASE UNCHANGED transactions
  <2>1. ~(CallPlanned(c) /\ proposed[c] \in {"post_payment", "issue_refund"} /\ Answered(c))
    <3> SUFFICES ASSUME CallPlanned(c), proposed[c] \in {"post_payment", "issue_refund"}, Answered(c)
                 PROVE  FALSE
      OBVIOUS
    <3>1. /\ response(c).loan \in Loans
          /\ \E type \in {"payment", "refund"}, a \in {response(c).amount, -response(c).amount} :
                 transactions' = Append(transactions, MoveRow(c, response(c).loan, type, a))
      BY <1>0, PlannedCall, MoneyOutcome DEF Answered
    <3> QED BY <1>0, <1>2, <3>1, MovesAfter, PlannedCall
  <2> QED BY <1>2, <2>1 DEF MovesOf
<1>3. CASE transactions' # transactions
  <2>1. /\ CallPlanned(c) /\ proposed[c] \in {"post_payment", "issue_refund"}
        /\ intake[c].loan \in Loans
        /\ \E type \in {"payment", "refund"}, a \in {PlannedAmount(c), -PlannedAmount(c)} :
               transactions' = Append(transactions, MoveRow(c, intake[c].loan, type, a))
        /\ client = "scripted"
    BY <1>3, WhoMoves
  <2>2. PlannedAmount(c) \in Int /\ -PlannedAmount(c) \in Int
    BY <2>1, PlannedCall, ScriptedAnswer
  <2>3. /\ MovesOf(c)' = MovesOf(c) \cup {Len(transactions) + 1}
        /\ \A e \in Cases \ {c} : MovesOf(e)' = MovesOf(e)
    BY <1>0, <2>1, <2>2, MovesAfter
  <2> QED BY <1>1, <2>1, <2>3
<1> QED BY <1>2, <1>3

LEMMA CallLeavesDisputes ==
    ASSUME AgentTypeOK, LoopInv, GatewayInv, NEW c \in Cases, GatewayStep(c)
    PROVE  /\ \A e \in Cases \ {c} : DisputesOf(e)' = DisputesOf(e)
           /\ DisputesOf(c)' # DisputesOf(c) => CallPlanned(c) /\ proposed[c] = "raise_dispute"
           /\ CallPlanned(c) /\ proposed[c] = "raise_dispute" /\ Answered(c) =>
                  \E n \in Nat : DisputesOf(c)' = DisputesOf(c) \cup {n}
<1>0. TypeOK /\ disputes \in Seq(Disputes) /\ LoopOK(c)
  BY DEF AgentTypeOK, TypeOK, LoopInv
<1>1. Len(disputes) + 1 \in Nat
  BY <1>0, LenProperties
<1>2. CASE CallPlanned(c) /\ proposed[c] = "raise_dispute"
  <2>1. CASE UNCHANGED disputes /\ ~Answered(c)
    BY <2>1 DEF DisputesOf
  <2>2. CASE /\ response(c).loan \in Loans /\ intake[c].customer \in Customers
             /\ disputes' = Append(disputes, ClaimRow(c, response(c).loan, intake[c].customer))
    BY <1>0, <1>1, <1>2, <2>2, DisputesAfter
  <2> QED BY <1>0, <1>2, <2>1, <2>2, PlannedCall, DisputeOutcome DEF Answered
<1>3. CASE ~(CallPlanned(c) /\ proposed[c] = "raise_dispute")
  <2>1. UNCHANGED disputes
    BY <1>0, <1>3, PlannedCall, CallEffects, GatewaySteps, OtherStepsDisputes
  <2> QED BY <1>3, <2>1 DEF DisputesOf
<1> QED BY <1>2, <1>3

-----------------------------------------------------------------------------
(* A resolved case was done *)

(* What the steps taken with success have left: one move of money or none, *)
(* one dispute or none, and the row of the message.                        *)
Effects(taken, moves, claims, trail) ==
    /\ IF taken \cap MONEY_TOOLS # {} THEN \E n \in moves : moves = {n} ELSE moves = {}
    /\ IF "raise_dispute" \in taken THEN \E d \in claims : claims = {d} ELSE claims = {}
    /\ "send_customer_message" \in taken => \E i \in DOMAIN trail : trail[i] = MessageRow

Done(c) ==
    /\ result[c].reason = "finished" =>
           /\ \E i \in DOMAIN audit_log[c] : audit_log[c][i] = MessageRow
           /\ Cardinality(MovesOf(c)) = (IF intent[c] \in {"refund", "make_payment"} THEN 1 ELSE 0)
           /\ Cardinality(DisputesOf(c)) = (IF intent[c] = "dispute" THEN 1 ELSE 0)
           /\ intent[c] # "fraud_or_freeze"
    /\ result[c].reason = "planner_escalated" => MovesOf(c) = {} /\ DisputesOf(c) = {}

(* The tables hold the effects of the steps taken while a case follows its *)
(* script, the step under way included once it can only return a success.  *)
DoneOK(c) ==
    /\ pc[c] \in {"absent", "received"} =>
           Effects({}, MovesOf(c), DisputesOf(c), audit_log[c])
    /\ pc[c] \in {"planning", "deciding"} /\ Straight(c) =>
           Effects(called(c), MovesOf(c), DisputesOf(c), audit_log[c])
    /\ pc[c] = "acting" /\ Straight(c) /\ call[c] \notin {Idle("denied"), Idle("error")} =>
           Effects(called(c) \cup {proposed[c]}, MovesOf(c), DisputesOf(c), audit_log[c])
    /\ pc[c] \notin {"completing", "answered", "failed"} =>
           result[c].reason \notin {"finished", "planner_escalated"}
    /\ Done(c)

DoneInv == \A c \in Cases : DoneOK(c)

(* The steps of a script that leave an effect come once, and none of them  *)
(* is the escalation.                                                      *)
LEMMA ScriptTaken ==
    ASSUME AgentTypeOK, NEW c \in Cases, FollowsScript(c), TakesStep(c, proposed[c])
    PROVE  /\ proposed[c] \in MONEY_TOOLS =>
                  proposed[c] \in {"post_payment", "issue_refund"} /\ called(c) \cap MONEY_TOOLS = {}
           /\ proposed[c] = "raise_dispute" => "raise_dispute" \notin called(c)
<1> DEFINE k == Len(history[c])
           m == Len(Steps(c))
<1>1. /\ k \in Nat /\ m \in 0 .. 3 /\ DOMAIN Steps(c) = 1 .. m
      /\ called(c) = {Steps(c)[n] : n \in 1 .. k}
      /\ k < m /\ proposed[c] = Steps(c)[k + 1]
      /\ intent[c] \in INTENTS
  BY CalledSteps DEF TakesStep, AgentTypeOK
<1> HIDE DEF k, m
<1>2. k + 1 \in DOMAIN Steps(c) /\ \A n \in 1 .. k : n \in DOMAIN Steps(c) /\ n # k + 1
  BY <1>1
<1>3. \A n \in DOMAIN Steps(c) :
          /\ Steps(c)[n] \in MONEY_TOOLS => Steps(c)[n] \in {"post_payment", "issue_refund"} /\ n = 2
          /\ Steps(c)[n] = "raise_dispute" => n = 2
  BY <1>1, ScriptEffects DEF Steps
<1> QED BY <1>1, <1>2, <1>3

LEMMA HumansLeaveNothing ==
    "escalate_to_human" \notin MONEY_TOOLS \cup {"raise_dispute", "send_customer_message"}
BY DEF MONEY_TOOLS

(* Having handed the case over, the planner has moved nothing.             *)
LEMMA NothingTaken ==
    ASSUME AgentTypeOK, NEW c \in Cases, FollowsScript(c), HandsOver(c, proposed[c])
    PROVE  called(c) \cap MONEY_TOOLS = {} /\ "raise_dispute" \notin called(c)
<1> DEFINE k == Len(history[c])
           m == Len(Steps(c))
<1>1. /\ k \in Nat /\ m \in 0 .. 3 /\ DOMAIN Steps(c) = 1 .. m /\ k <= m
      /\ called(c) = {Steps(c)[n] : n \in 1 .. k}
      /\ intent[c] \in INTENTS
  BY CalledSteps DEF FollowsScript, AgentTypeOK
<1>2. \A n \in DOMAIN Steps(c) :
          /\ Steps(c)[n] \in MONEY_TOOLS => intent[c] \in {"refund", "make_payment"} /\ n = 2
          /\ Steps(c)[n] = "raise_dispute" => intent[c] = "dispute" /\ n = 2
  BY <1>1, ScriptEffects DEF Steps
<1>3. intent[c] \in {"unclear", "fraud_or_freeze"} \/ k = 1
  BY DEF HandsOver
<1> HIDE DEF k, m
<1>4. \A n \in 1 .. k : n \in DOMAIN Steps(c)
  BY <1>1
<1> QED BY <1>1, <1>2, <1>3, <1>4

(* The call of the next step leaves its effect, or is refused or raises.   *)
LEMMA PlannedEffects ==
    ASSUME AgentTypeOK, LoopInv, GatewayInv, NEW c \in Cases, GatewayStep(c), ScriptOK(c), DoneOK(c),
           CallPlanned(c), Straight(c), Answered(c)
    PROVE  Effects(called(c) \cup {proposed[c]}, MovesOf(c)', DisputesOf(c)', audit_log'[c])
<1>1. pc[c] = "deciding" /\ proposed[c] \in Approved(c)
  BY PlannedCall
<1>2. FollowsScript(c) /\ (TakesStep(c, proposed[c]) \/ HandsOver(c, proposed[c]))
  BY <1>1, ActsOnScript DEF ScriptOK
<1>3. Effects(called(c), MovesOf(c), DisputesOf(c), audit_log[c])
  BY <1>1 DEF DoneOK
<1>4. \A i \in DOMAIN audit_log[c] : i \in DOMAIN audit_log'[c] /\ audit_log'[c][i] = audit_log[c][i]
  BY GatewayStepIsAgents, RowsStay
<1>5. "send_customer_message" \in called(c) \cup {proposed[c]} =>
          \E i \in DOMAIN audit_log'[c] : audit_log'[c][i] = MessageRow
  <2>1. CASE "send_customer_message" \in called(c)
    BY <1>3, <1>4, <2>1 DEF Effects
  <2>2. CASE proposed[c] = "send_customer_message"
    <3>1. TypeOK
      BY DEF AgentTypeOK
    <3>2. CallWith(c, "send_customer_message", response(c).loan, response(c).amount)
      BY <2>2, PlannedCall
    <3>3. \E i \in DOMAIN audit_log'[c] : audit_log'[c][i] = MessageRow
      BY <3>1, <3>2, MessageOutcome
    <3> QED BY <3>3
  <2> QED BY <2>1, <2>2
<1>6. /\ proposed[c] \in MONEY_TOOLS =>
             proposed[c] \in {"post_payment", "issue_refund"} /\ called(c) \cap MONEY_TOOLS = {}
      /\ proposed[c] = "raise_dispute" => "raise_dispute" \notin called(c)
  BY <1>2, ScriptTaken, HumansLeaveNothing DEF HandsOver
<1>7. IF (called(c) \cup {proposed[c]}) \cap MONEY_TOOLS # {}
      THEN \E n \in MovesOf(c)' : MovesOf(c)' = {n}
      ELSE MovesOf(c)' = {}
  <2>1. CASE proposed[c] \in MONEY_TOOLS
    <3>1. MovesOf(c) = {}
      BY <1>3, <1>6, <2>1 DEF Effects
    <3>2. PICK n \in Nat : MovesOf(c)' = MovesOf(c) \cup {n}
      BY <1>6, <2>1, CallLeavesMoves
    <3> QED BY <2>1, <3>1, <3>2
  <2>2. CASE proposed[c] \notin MONEY_TOOLS
    <3>1. MovesOf(c)' = MovesOf(c)
      BY <2>2, CallLeavesMoves DEF MONEY_TOOLS
    <3> QED BY <1>3, <2>2, <3>1 DEF Effects
  <2> QED BY <2>1, <2>2
<1>8. IF "raise_dispute" \in called(c) \cup {proposed[c]}
      THEN \E d \in DisputesOf(c)' : DisputesOf(c)' = {d}
      ELSE DisputesOf(c)' = {}
  <2>1. CASE proposed[c] = "raise_dispute"
    <3>1. DisputesOf(c) = {}
      BY <1>3, <1>6, <2>1 DEF Effects
    <3>2. PICK n \in Nat : DisputesOf(c)' = DisputesOf(c) \cup {n}
      BY <2>1, CallLeavesDisputes
    <3> QED BY <2>1, <3>1, <3>2
  <2>2. CASE proposed[c] # "raise_dispute"
    <3>1. DisputesOf(c)' = DisputesOf(c)
      BY <2>2, CallLeavesDisputes
    <3> QED BY <1>3, <2>2, <3>1 DEF Effects
  <2> QED BY <2>1, <2>2
<1> QED BY <1>5, <1>7, <1>8 DEF Effects

(* A step of a case that leaves its tables and its trail does so in full.  *)
LEMMA EffectsStay ==
    ASSUME AgentTypeOK, LoopInv, GatewayInv, NEW c \in Cases, GatewayStep(c), ~CallPlanned(c), NEW taken,
           Effects(taken, MovesOf(c), DisputesOf(c), audit_log[c])
    PROVE  Effects(taken, MovesOf(c)', DisputesOf(c)', audit_log'[c])
<1>1. MovesOf(c)' = MovesOf(c) /\ DisputesOf(c)' = DisputesOf(c)
  BY CallLeavesMoves, CallLeavesDisputes
<1>2. \A i \in DOMAIN audit_log[c] : i \in DOMAIN audit_log'[c] /\ audit_log'[c][i] = audit_log[c][i]
  BY GatewayStepIsAgents, RowsStay
<1> QED BY <1>1, <1>2 DEF Effects

(* When the planner is done, its effects are those of its whole script.    *)
LEMMA EffectsOfAll ==
    ASSUME AgentTypeOK, NEW c \in Cases, FollowsScript(c), IsDone(c, proposed[c]),
           NEW STATE moves, NEW STATE claims, NEW STATE trail,
           Effects(called(c), moves, claims, trail)
    PROVE  /\ \E i \in DOMAIN trail : trail[i] = MessageRow
           /\ Cardinality(moves) = (IF intent[c] \in {"refund", "make_payment"} THEN 1 ELSE 0)
           /\ Cardinality(claims) = (IF intent[c] = "dispute" THEN 1 ELSE 0)
<1>1. /\ called(c) = {Steps(c)[n] : n \in DOMAIN Steps(c)}
      /\ intent[c] \in INTENTS \ {"unclear", "fraud_or_freeze"}
  BY CalledSteps DEF IsDone, AgentTypeOK
<1>2. /\ called(c) \cap MONEY_TOOLS # {} <=> intent[c] \in {"refund", "make_payment"}
      /\ "raise_dispute" \in called(c) <=> intent[c] = "dispute"
      /\ "send_customer_message" \in called(c)
  BY <1>1, ScriptEffects DEF Steps
<1> QED BY <1>2, FS_Singleton, FS_EmptySet DEF Effects

(* The planner finishes where its script ends.                             *)
LEMMA FinishMeansDone ==
    ASSUME AgentTypeOK, LoopInv, GatewayInv, NEW c \in Cases, ScriptOK(c), Finish(c)
    PROVE  Straight(c) /\ FollowsScript(c) /\ IsDone(c, proposed[c])
<1>0. pc[c] = "deciding" /\ proposed[c] = "finish" /\ GatewayTypeOK
  BY DEF Finish, At, GatewayInv
<1>1. Straight(c)
  BY <1>0 DEF ScriptOK, DANGEROUS_ACTIONS, MONEY_TOOLS
<1>2. FollowsScript(c)
  BY <1>0, <1>1 DEF ScriptOK
<1>3. PlannedAction(c) = "finish"
  BY <1>0, <1>1, StraightAnswer DEF GatewayInv, AnswerOK
<1>4. intent[c] \in INTENTS
  BY DEF AgentTypeOK
<1>5. ~TakesStep(c, "finish")
  <2> DEFINE k == Len(history[c])
             m == Len(Steps(c))
  <2>1. k \in Nat /\ m \in 0 .. 3 /\ DOMAIN Steps(c) = 1 .. m
    BY <1>2, CalledSteps
  <2>2. \A n \in DOMAIN Steps(c) : Steps(c)[n] # "finish"
    BY <1>4, ScriptSteps DEF Steps
  <2>3. TakesStep(c, "finish") => k < m /\ "finish" = Steps(c)[k + 1]
    BY DEF TakesStep
  <2> HIDE DEF k, m
  <2> QED BY <2>1, <2>2, <2>3
<1>6. ~HandsOver(c, "finish")
  BY DEF HandsOver
<1> QED BY <1>0, <1>1, <1>2, <1>3, <1>5, <1>6, NextPlanned

(* The result "finished" is given to a case that followed its script to    *)
(* its end.                                                                *)
LEMMA FinishesDone ==
    ASSUME AgentTypeOK, LoopInv, GatewayInv, NEW c \in Cases, GatewayStep(c), ScriptOK(c), DoneOK(c), Finish(c)
    PROVE  DoneOK(c)'
<1>0. LoopTypes /\ pc[c] = "deciding"
  BY DEF AgentTypeOK, LoopTypes, Finish, At
<1>1. /\ pc'[c] = "completing" /\ result'[c].reason = "finished"
      /\ UNCHANGED <<intent, audit_log, transactions, disputes>>
  BY <1>0 DEF Finish, Goto, Result, LoopTypes, vars, db
<1>2. Straight(c) /\ FollowsScript(c) /\ IsDone(c, proposed[c])
  BY FinishMeansDone
<1>3. Effects(called(c), MovesOf(c), DisputesOf(c), audit_log[c])
  BY <1>0, <1>2 DEF DoneOK
<1>4. /\ \E i \in DOMAIN audit_log[c] : audit_log[c][i] = MessageRow
      /\ Cardinality(MovesOf(c)) = (IF intent[c] \in {"refund", "make_payment"} THEN 1 ELSE 0)
      /\ Cardinality(DisputesOf(c)) = (IF intent[c] = "dispute" THEN 1 ELSE 0)
  BY <1>2, <1>3, EffectsOfAll
<1>5. MovesOf(c)' = MovesOf(c) /\ DisputesOf(c)' = DisputesOf(c)
  BY <1>1 DEF MovesOf, DisputesOf
<1> QED BY <1>1, <1>2, <1>4, <1>5 DEF DoneOK, Done, IsDone

LEMMA DoneStays ==
    ASSUME AgentTypeOK, LoopInv, GatewayInv, NEW c \in Cases, GatewayStep(c), DoneOK(c),
           result'[c] = result[c]
    PROVE  Done(c)'
<1>0. LoopTypes
  BY DEF AgentTypeOK, LoopTypes
<1>1. CASE pc[c] \notin {"completing", "answered", "failed"}
  <2>1. result'[c].reason \notin {"finished", "planner_escalated"}
    BY <1>1 DEF DoneOK
  <2> QED BY <2>1 DEF Done
<1>2. CASE pc[c] \in {"completing", "answered", "failed"}
  <2>1. ~CallPlanned(c) /\ ~StartCase(c, intake[c].message)
    BY <1>2 DEF CallPlanned, StartCase, At
  <2>2. intent'[c] = intent[c]
    BY <2>1, GatewaySteps DEF LoopGoesOn, ReceiveRow, ReceiveCase, Plan, PlanStep, RejectModel, RefuseAction,
          Finish, ToolStep, agentVars, ToolReturns, ExceedBudget, Escalate, EscalateReturns, Complete,
          ToolLocked, CaseFails
  <2>3. MovesOf(c)' = MovesOf(c) /\ DisputesOf(c)' = DisputesOf(c)
    BY <2>1, CallLeavesMoves, CallLeavesDisputes
  <2>4. \A i \in DOMAIN audit_log[c] : i \in DOMAIN audit_log'[c] /\ audit_log'[c][i] = audit_log[c][i]
    BY GatewayStepIsAgents, RowsStay
  <2> QED BY <2>2, <2>3, <2>4 DEF DoneOK, Done
<1> QED BY <1>1, <1>2

(* A tool that returned with success adds its step to those taken.         *)
LEMMA SuccessTaken ==
    ASSUME AgentTypeOK, LoopInv, NEW c \in Cases, ToolReturns(c), AfterSuccess(c)
    PROVE  called(c)' = called(c) \cup {proposed[c]}
<1>0. LoopTypes /\ LoopOK(c)
  BY DEF AgentTypeOK, LoopTypes, LoopInv
<1> DEFINE entry == HistoryEntry(proposed[c], call[c].outcome)
<1>1. entry \in [action : TOOLS, outcome : {"ok", "denied", "error"}]
  BY <1>0, ReturnedEntry DEF ToolReturns, At
<1>2. entry.action = proposed[c] /\ entry.outcome = "ok"
  BY DEF HistoryEntry, AfterSuccess
<1>3. history'[c] = Append(history[c], entry)
  BY <1>0 DEF ToolReturns, RecordStep, LoopTypes
<1> HIDE DEF entry
<1> DEFINE k == Len(history[c])
<1>4. k \in Nat /\ DOMAIN history[c] = 1 .. k
  BY <1>0, LenProperties DEF LoopTypes
<1>5. /\ DOMAIN history'[c] = 1 .. k + 1
      /\ \A n \in 1 .. k : history'[c][n] = history[c][n]
      /\ history'[c][k + 1] = entry
  BY <1>0, <1>1, <1>3, <1>4, AppendProperties DEF LoopTypes
<1> HIDE DEF k
<1>6. 1 .. k + 1 = (1 .. k) \cup {k + 1} /\ k + 1 \notin 1 .. k
  BY <1>4
<1> QED BY <1>2, <1>4, <1>5, <1>6 DEF called

LEMMA DoneStep ==
    ASSUME AgentTypeOK, LoopInv, GatewayInv, NEW c \in Cases, GatewayStep(c), ScriptOK(c), DoneOK(c)
    PROVE  DoneOK(c)'
<1>0. LoopTypes /\ UNCHANGED client /\ LoopOK(c)
  BY DEF AgentTypeOK, LoopTypes, GatewayStep, LoopInv
<1>1. CASE ReceiveRow(c)
  <2>1. pc[c] = "absent" /\ pc'[c] = "received" /\ UNCHANGED result
    BY <1>0, <1>1 DEF ReceiveRow, ReceiveCase, At, Goto, LoopTypes
  <2>2. Effects({}, MovesOf(c)', DisputesOf(c)', audit_log'[c])
    BY <2>1, EffectsStay DEF DoneOK, CallPlanned, At
  <2> QED BY <2>1, <2>2, DoneStays DEF DoneOK
<1>2. CASE StartCase(c, intake[c].message)
  <2>1. pc[c] = "received" /\ pc'[c] = "planning" /\ UNCHANGED <<history, result>>
    BY <1>0, <1>2 DEF StartCase, At, Goto, LoopTypes
  <2>2. Effects({}, MovesOf(c)', DisputesOf(c)', audit_log'[c])
    BY <2>1, EffectsStay DEF DoneOK, CallPlanned, At
  <2>3. called(c)' = {}
    BY <2>1 DEF ScriptOK, called
  <2> QED BY <2>1, <2>2, <2>3, DoneStays DEF DoneOK
<1>3. CASE Plan(c)
  <2>1. pc[c] = "planning" /\ pc'[c] = "deciding" /\ UNCHANGED <<history, intent, result>>
    BY <1>0, <1>3 DEF Plan, PlanStep, ModelCall, At, Goto, LoopTypes
  <2>2. called(c)' = called(c) /\ Straight(c)' = Straight(c)
    BY <1>0, <2>1 DEF called, Straight, Approved
  <2>3. Straight(c) => Effects(called(c), MovesOf(c)', DisputesOf(c)', audit_log'[c])
    BY <2>1, EffectsStay DEF DoneOK, CallPlanned, At
  <2> QED BY <2>1, <2>2, <2>3, DoneStays DEF DoneOK
<1>4. CASE CallPlanned(c)
  <2>1. pc[c] = "deciding" /\ pc'[c] = "acting" /\ UNCHANGED <<history, intent, proposed, result>>
    BY <1>0, <1>4 DEF CallPlanned, At, Goto, LoopTypes
  <2>2. called(c)' = called(c) /\ Straight(c)' = Straight(c)
    BY <1>0, <2>1 DEF called, Straight, Approved
  <2>3. Straight(c) /\ Answered(c) =>
            Effects(called(c) \cup {proposed[c]}, MovesOf(c)', DisputesOf(c)', audit_log'[c])
    BY <1>4, PlannedEffects
  <2> QED BY <2>1, <2>2, <2>3, DoneStays DEF DoneOK, Answered
<1>5. CASE ToolLocked(c)
  <2>1. pc[c] \in {"deciding", "acting"} /\ pc'[c] = "acting" /\ UNCHANGED result
    BY <1>0, <1>5 DEF ToolLocked, At, Goto, LoopTypes
  <2>2. call'[c] = Idle("error")
    BY <1>0, <1>5, Becomes DEF ToolLocked, DatabaseLocked, Raised, AgentTypeOK
  <2> QED BY <2>1, <2>2, DoneStays DEF DoneOK
<1>6. CASE ToolStep(c)
  <2>1. UNCHANGED <<pc, history, intent, proposed, result>>
    BY <1>6 DEF ToolStep, agentVars
  <2>2. call[c].pc \in {"resolving", "freezing", "logging"}
    BY <1>6 DEF ToolStep, ContinueCall, Continue, resolve_dispute_update, freeze_account_update, LogCall
  <2>3. call[c] \notin {Idle("denied"), Idle("error")}
    BY <2>2 DEF Idle
  <2>4. called(c)' = called(c) /\ Straight(c)' = Straight(c)
    BY <1>0, <2>1 DEF called, Straight, Approved
  <2>5. Straight(c) /\ pc[c] = "acting" =>
            Effects(called(c) \cup {proposed[c]}, MovesOf(c)', DisputesOf(c)', audit_log'[c])
    BY <2>3, EffectsStay DEF DoneOK, CallPlanned, At
  <2>6. pc[c] \in {"acting", "escalated"}
    BY <1>0, <2>2 DEF LoopOK, LoopTypes
  <2> QED BY <2>1, <2>4, <2>5, <2>6, DoneStays DEF DoneOK
<1>7. CASE ToolReturns(c)
  <2>1. pc[c] = "acting" /\ UNCHANGED <<intent, proposed>> /\ ~CallPlanned(c)
    BY <1>7 DEF ToolReturns, At, CallPlanned
  <2>2. CASE AfterRefusal(c)
    <3>1. pc'[c] = "escalating" /\ result'[c].reason \in {"tool_denied", "tool_error"}
      BY <1>0, <2>2 DEF AfterRefusal, StopWith, Goto, Result, LoopTypes
    <3> QED BY <3>1 DEF DoneOK, Done
  <2>3. CASE AfterSuccess(c)
    <3>1. call[c] \notin {Idle("denied"), Idle("error")}
      BY <2>3 DEF AfterSuccess, Idle
    <3>2. Straight(c) => Effects(called(c) \cup {proposed[c]}, MovesOf(c)', DisputesOf(c)', audit_log'[c])
      BY <2>1, <3>1, EffectsStay DEF DoneOK
    <3>3. CASE proposed[c] # "escalate_to_human"
      <4>1. pc'[c] = "planning" /\ UNCHANGED result /\ Straight(c)' = Straight(c)
        BY <1>0, <2>1, <2>3, <3>3 DEF AfterSuccess, Goto, LoopTypes, Straight, Approved
      <4> QED BY <1>7, <2>1, <2>3, <3>2, <4>1, SuccessTaken, DoneStays DEF DoneOK
    <3>4. CASE proposed[c] = "escalate_to_human"
      <4>1. pc'[c] = "completing" /\ result'[c].reason = "planner_escalated"
        BY <1>0, <2>3, <3>4 DEF AfterSuccess, Goto, Result, LoopTypes
      <4>2. Straight(c)
        BY <2>1, <3>4 DEF ScriptOK, DANGEROUS_ACTIONS, MONEY_TOOLS
      <4>3. FollowsScript(c) /\ HandsOver(c, proposed[c])
        <5>1. ~TakesStep(c, "escalate_to_human")
          <6> DEFINE k == Len(history[c])
                     m == Len(Steps(c))
          <6>1. k \in Nat /\ m \in 0 .. 3 /\ DOMAIN Steps(c) = 1 .. m
            BY <2>1, <4>2, CalledSteps DEF ScriptOK
          <6>2. \A n \in DOMAIN Steps(c) : Steps(c)[n] # "escalate_to_human"
            BY ScriptSteps DEF Steps, AgentTypeOK
          <6>3. TakesStep(c, "escalate_to_human") => k < m /\ "escalate_to_human" = Steps(c)[k + 1]
            BY DEF TakesStep
          <6> HIDE DEF k, m
          <6> QED BY <6>1, <6>2, <6>3
        <5> QED BY <2>1, <3>4, <4>2, <5>1 DEF ScriptOK
      <4>4. MovesOf(c)' = {} /\ DisputesOf(c)' = {}
        BY <3>2, <3>4, <4>2, <4>3, NothingTaken, HumansLeaveNothing DEF Effects
      <4> QED BY <4>1, <4>4 DEF DoneOK, Done
    <3> QED BY <3>3, <3>4
  <2> QED BY <1>7, <2>2, <2>3 DEF ToolReturns
<1>8. CASE Finish(c)
  BY <1>8, FinishesDone
<1>9. CASE \/ RejectModel(c, response(c).model_id) \/ RefuseAction(c) \/ ExceedBudget(c)
  <2>1. pc'[c] = "escalating"
    BY <1>0, <1>9 DEF RejectModel, RefuseAction, ExceedBudget, StopWith, Goto, LoopTypes
  <2>2. result'[c].reason \notin {"finished", "planner_escalated"}
    BY <1>0, <1>9 DEF RejectModel, RefuseAction, ExceedBudget, StopWith, Result, LoopTypes
  <2> QED BY <2>1, <2>2 DEF DoneOK, Done
<1>10. CASE Escalate(c) \/ EscalateReturns(c) \/ Complete(c) \/ CaseFails(c)
  <2>1. /\ UNCHANGED result
        /\ \/ pc'[c] \in {"completing", "answered", "failed"}
           \/ pc'[c] = "escalated" /\ pc[c] = "escalating"
    BY <1>0, <1>10 DEF Escalate, EscalateReturns, Complete, CaseFails, At, Goto, LoopTypes
  <2> QED BY <2>1, DoneStays DEF DoneOK
<1> QED BY <1>1, <1>2, <1>3, <1>4, <1>5, <1>6, <1>7, <1>8, <1>9, <1>10, GatewaySteps DEF LoopGoesOn

LEMMA SameDoneOK ==
    ASSUME NEW e, UNCHANGED client, pc'[e] = pc[e], intent'[e] = intent[e], proposed'[e] = proposed[e],
           history'[e] = history[e], audit_log'[e] = audit_log[e], result'[e] = result[e], call'[e] = call[e],
           MovesOf(e)' = MovesOf(e), DisputesOf(e)' = DisputesOf(e), DoneOK(e)
    PROVE  DoneOK(e)'
<1>1. called(e)' = called(e) /\ Straight(e)' = Straight(e)
  BY DEF called, Straight, Approved
<1> QED BY <1>1 DEF DoneOK, Done

LEMMA GatewayInitDone == GatewayInit => DoneInv
<1> SUFFICES ASSUME GatewayInit, NEW c \in Cases
             PROVE  DoneOK(c)
  BY DEF DoneInv
<1>1. pc[c] = "absent" /\ result[c].reason = "none" /\ transactions = <<>> /\ disputes = <<>>
  BY DEF GatewayInit, AgentInit, Init, Result
<1>2. MovesOf(c) = {} /\ DisputesOf(c) = {}
  BY <1>1 DEF MovesOf, DisputesOf
<1> QED BY <1>1, <1>2 DEF DoneOK, Done, Effects

LEMMA DoneInvIsInvariant ==
    AgentTypeOK /\ LoopInv /\ GatewayInv /\ ScriptInv /\ DoneInv /\ [GatewayNext]_everyVar => DoneInv'
<1> SUFFICES ASSUME AgentTypeOK, LoopInv, GatewayInv, ScriptInv, DoneInv, [GatewayNext]_everyVar, NEW e \in Cases
             PROVE  DoneOK(e)'
  BY DEF DoneInv
<1>1. CASE UNCHANGED everyVar
  <2>1. UNCHANGED <<client, pc, intent, proposed, history, audit_log, result, call, transactions, disputes>>
    BY <1>1 DEF everyVar, allVars, vars, agentVars
  <2>2. MovesOf(e)' = MovesOf(e) /\ DisputesOf(e)' = DisputesOf(e)
    BY <2>1 DEF MovesOf, DisputesOf
  <2> QED BY <2>1, <2>2, SameDoneOK DEF DoneInv
<1>2. ASSUME NEW c \in Cases, GatewayStep(c)
      PROVE  DoneOK(e)'
  <2>1. CASE e = c
    BY <1>2, <2>1, DoneStep DEF ScriptInv, DoneInv
  <2>2. CASE e # c
    <3>1. MovesOf(e)' = MovesOf(e) /\ DisputesOf(e)' = DisputesOf(e)
      BY <1>2, <2>2, CallLeavesMoves, CallLeavesDisputes
    <3> QED BY <1>2, <2>2, <3>1, GatewayStepIsAgents, OthersStay, SameDoneOK DEF GatewayStep, DoneInv
  <2> QED BY <2>1, <2>2
<1> QED BY <1>1, <1>2 DEF GatewayNext, GatewayStep

-----------------------------------------------------------------------------
(* On the loan of the case, verified, and nothing else *)

(* What is known of a dispute, once it is raised.                          *)
ClaimOK(claim) ==
    /\ pc[claim.case] # "absent"
    /\ claim.loan = intake[claim.case].loan
    /\ is_identity_verified(claim.case, Owner[claim.loan])

ClaimsOK == \A d \in DOMAIN disputes : ClaimOK(disputes[d])

(* A call that raises a dispute raises it on the loan of its case.         *)
LEMMA WhoClaims ==
    ASSUME AgentTypeOK, LoopInv, GatewayInv, NEW c \in Cases, GatewayStep(c), disputes' # disputes
    PROVE  /\ intake[c].loan \in Loans /\ intake[c].customer \in Customers
           /\ pc[c] # "absent"
           /\ is_identity_verified(c, Owner[intake[c].loan])
           /\ disputes' = Append(disputes, ClaimRow(c, intake[c].loan, intake[c].customer))
<1>0. TypeOK /\ LoopOK(c)
  BY DEF AgentTypeOK, LoopInv
<1>1. CallPlanned(c) /\ proposed[c] = "raise_dispute"
  BY <1>0, PlannedCall, CallEffects, GatewaySteps, OtherStepsDisputes
<1>2. /\ pc[c] = "deciding" /\ proposed[c] = response(c).action
      /\ client # "unapproved_model_identity"
      /\ CallWith(c, "raise_dispute", response(c).loan, response(c).amount)
  BY <1>1 DEF CallPlanned, At, GatewayInv, AnswerOK
<1>3. /\ response(c).loan \in Loans /\ intake[c].customer \in Customers /\ GateOpen(c, response(c).loan)
      /\ disputes' = Append(disputes, ClaimRow(c, response(c).loan, intake[c].customer))
  BY <1>0, <1>2, DisputeOutcome
<1>4. client \in {"scripted", "scrambled_tool_args"}
  BY <1>3, GateOpensForCustomer
<1>5. response(c).loan = intake[c].loan
  <2>1. CASE client = "scripted"
    BY <2>1, ScriptedAnswer
  <2>2. CASE client = "scrambled_tool_args"
    <3>1. "raise_dispute" \notin MONEY_TOOLS
      BY DEF MONEY_TOOLS
    <3> QED BY <1>1, <1>2, <2>2, <3>1, ScrambledAnswer, ScriptedAnswer
  <2> QED BY <1>4, <2>1, <2>2
<1> QED BY <1>2, <1>3, <1>5 DEF GateOpen

LEMMA ClaimsStep ==
    ASSUME AgentTypeOK, LoopInv, GatewayInv, ClaimsOK, NEW c \in Cases, GatewayStep(c)
    PROVE  ClaimsOK'
<1>0. TypeOK /\ disputes \in Seq(Disputes)
  BY DEF AgentTypeOK, TypeOK
<1> DEFINE Fine(claim) ==
        /\ pc'[claim.case] # "absent"
        /\ claim.loan = intake'[claim.case].loan
        /\ \E v \in identity_verifications' :
               v.case = claim.case /\ v.customer = Owner[claim.loan] /\ v.verified
<1>1. ASSUME NEW d \in DOMAIN disputes
      PROVE  Fine(disputes[d])
  <2>1. disputes[d].case \in Cases
    <3>1. disputes[d] \in Disputes
      BY <1>0
    <3> QED BY <3>1 DEF Disputes
  <2>2. ClaimOK(disputes[d])
    BY DEF ClaimsOK
  <2>3. pc'[disputes[d].case] # "absent" /\ intake'[disputes[d].case] = intake[disputes[d].case]
    BY <2>1, <2>2, GatewayTypesStep DEF ClaimOK
  <2> QED BY <2>2, <2>3, VerifiedStays DEF ClaimOK, is_identity_verified
<1>2. CASE UNCHANGED disputes
  BY <1>1, <1>2 DEF ClaimsOK, ClaimOK, is_identity_verified
<1>3. CASE disputes' # disputes
  <2>1. /\ intake[c].loan \in Loans /\ intake[c].customer \in Customers
        /\ \E v \in identity_verifications' :
               v.case = c /\ v.customer = Owner[intake[c].loan] /\ v.verified
        /\ disputes' = Append(disputes, ClaimRow(c, intake[c].loan, intake[c].customer))
    BY <1>3, WhoClaims, VerifiedStays DEF is_identity_verified
  <2>2. pc'[c] # "absent" /\ intake'[c] = intake[c]
    BY <1>3, WhoClaims, GatewayTypesStep
  <2> DEFINE row == ClaimRow(c, intake[c].loan, intake[c].customer)
  <2>3. row.case = c /\ row.loan = intake[c].loan
    BY DEF ClaimRow
  <2>4. \A d \in DOMAIN disputes' :
            disputes'[d] = row \/ (d \in DOMAIN disputes /\ disputes'[d] = disputes[d])
    BY <1>0, <2>1, AppendProperties
  <2> HIDE DEF row
  <2>5. Fine(row)
    BY <2>1, <2>2, <2>3
  <2> HIDE DEF Fine
  <2>6. \A d \in DOMAIN disputes' : Fine(disputes'[d])
    BY <1>1, <2>4, <2>5
  <2> USE DEF Fine
  <2> QED BY <2>6 DEF ClaimsOK, ClaimOK, is_identity_verified
<1> QED BY <1>2, <1>3

LEMMA ClaimsInvariant ==
    AgentTypeOK /\ LoopInv /\ GatewayInv /\ ClaimsOK /\ [GatewayNext]_everyVar => ClaimsOK'
<1> SUFFICES ASSUME AgentTypeOK, LoopInv, GatewayInv, ClaimsOK, [GatewayNext]_everyVar
             PROVE  ClaimsOK'
  OBVIOUS
<1>1. CASE UNCHANGED everyVar
  BY <1>1 DEF everyVar, allVars, vars, agentVars, ClaimsOK, ClaimOK, is_identity_verified
<1> QED BY <1>1, ClaimsStep DEF GatewayNext, GatewayStep

LEMMA OnlyFraudFreezes ==
    ASSUME AgentTypeOK, NEW c \in Cases, "freeze_account" \in Approved(c)
    PROVE  intent[c] = "fraud_or_freeze"
<1>1. intent[c] \in {"fraud_or_freeze", "refund", "dispute", "payoff_quote",
                     "make_payment", "balance_inquiry", "unclear"}
  BY IntentValues DEF AgentTypeOK
<1> QED BY <1>1 DEF Approved, ApprovedActions, RuleActions, UNIVERSAL_ACTIONS

(* A case answered "resolved" was done: its customer has the message, the  *)
(* one effect the message asked for happened once, on the loan of the case *)
(* and after its owner was verified, and no account was frozen; a case the *)
(* planner gave to a human has left no money moved and no dispute.         *)
THEOREM ResolvedMeansDone == GatewaySpec => []ResolvedCasesAreDone
<1>1. AgentTypeOK /\ DoneInv /\ MovesOK /\ ClaimsOK /\ OnlyApprovedToolsRun => ResolvedCasesAreDone
  <2> SUFFICES ASSUME AgentTypeOK, DoneInv, MovesOK, ClaimsOK, OnlyApprovedToolsRun, NEW c \in Cases
               PROVE  /\ Done(c)
                      /\ \A l \in {transactions[n].loan : n \in MovesOf(c)}
                                  \cup {disputes[d].loan : d \in DisputesOf(c)} :
                             l = intake[c].loan /\ is_identity_verified(c, Owner[l])
                      /\ result[c].reason = "finished" =>
                             \A i \in DOMAIN audit_log[c] : audit_log[c][i].event # "account_frozen"
    BY DEF Done, ResolvedCasesAreDone
  <2>1. Done(c)
    BY DEF DoneInv, DoneOK
  <2>2. ASSUME NEW n \in MovesOf(c)
        PROVE  transactions[n].loan = intake[c].loan /\ is_identity_verified(c, Owner[transactions[n].loan])
    BY <2>2 DEF MovesOf, MovesOK, MoveOK
  <2>3. ASSUME NEW d \in DisputesOf(c)
        PROVE  disputes[d].loan = intake[c].loan /\ is_identity_verified(c, Owner[disputes[d].loan])
    BY <2>3 DEF DisputesOf, ClaimsOK, ClaimOK
  <2>4. ASSUME result[c].reason = "finished", NEW i \in DOMAIN audit_log[c],
               audit_log[c][i].event = "account_frozen"
        PROVE  FALSE
    BY <2>1, <2>4, OnlyFraudFreezes DEF Done, OnlyApprovedToolsRun
  <2> QED BY <2>1, <2>2, <2>3, <2>4
<1>2. GatewayInit => MovesOK /\ ClaimsOK
  BY DEF GatewayInit, AgentInit, Init, MovesOK, ClaimsOK
<1>3. GatewaySpec => [](AgentTypeOK /\ LoopInv /\ GatewayInv)
  BY GatewayInitInv, GatewayInvIsInvariant, PTL DEF GatewaySpec
<1>4. GatewaySpec => []DoneInv
  BY GatewayInitInv, GatewayInvIsInvariant, GatewayInitScript, ScriptInvIsInvariant,
     GatewayInitDone, DoneInvIsInvariant, PTL DEF GatewaySpec
<1>5. GatewaySpec => [](MovesOK /\ ClaimsOK)
  BY <1>2, <1>3, MovesInvariant, ClaimsInvariant, PTL DEF GatewaySpec
<1>6. GatewaySpec => []OnlyApprovedToolsRun
  BY GatewayImplementsAgent, OnlyApprovedRun, PTL DEF ImplementsAgent
<1> QED BY <1>1, <1>3, <1>4, <1>5, <1>6, PTL
=============================================================================
